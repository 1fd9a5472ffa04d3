----------------------------- MODULE StorageProofs ----------------------------
(***************************************************************************)
(* ReaperSparesBorrowers and TransactionIsAtomic of the SQL stores, for any  *)
(* number of tasks, any pool size and any number of reaps.                   *)
(*                                                                           *)
(* The inductive invariant says which task is bound to the transaction       *)
(* connection and which holds _tx_lock, what each task has borrowed at each  *)
(* point of the code, and how many of a block's statements wait in the       *)
(* transaction.                                                              *)
(*                                                                           *)
(* Then SweepSparesTheLiving of the retention passes, for any responses.     *)
(***************************************************************************)
EXTENDS MCStorage, Sequences, FiniteSetTheorems, TLAPS

Ended == {"done", "failed"}

Types ==
    /\ task \in [Tasks -> Coroutine]
    /\ committed \in [Tasks -> Nat] /\ pending \in [Tasks -> Nat]
    /\ pool \in Pools \cup {0} /\ reaped \subseteq Pools /\ busy \in Nat
    /\ txlock \in Blocks \cup {None} /\ txconn \in Blocks \cup {None} /\ broken \in BOOLEAN

\* Where a task of a TiDB store can be, given what it has and who is bound.
Placed(t, r) ==
    /\ r.home # 0 <=> txconn = t
    /\ r.home # 0 => r.pool = 0 /\ r.pc \in {"acquire", "run", "close", "abort"} /\ r.at # 0
    /\ r.pool # 0 => r.pc \in {"connect", "begin", "run"}
    /\ r.pc \in {"connect", "begin"} => r.pool # 0
    /\ r.pc \in {"close", "abort"} => r.home # 0
    /\ r.pc = "close" <=> r.at = 3 /\ r.pc \notin Ended
    /\ r.pc = "run" /\ r.pool = 0 => r.on # None /\ (r.home # 0 => r.on = t)
    /\ t \in Blocks => /\ r.pc \notin Ended \cup {"start"} <=> txlock = t
                       /\ r.home = 0 /\ r.pc \notin Ended => r.at = 0
                       /\ r.pc = "run" => r.home # 0
    /\ t \in Singles => r.at = 1 /\ r.pc # "begin"

\* A task of a store without a pool.
Poolless(t, r) ==
    /\ r.pool = 0 /\ r.home = 0
    /\ r.pc \in {"run", "commit"} => r.at \in {1, 2}
    /\ t \in Singles => r.at = 1
    /\ r.pc \notin {"acquire", "getpool", "creating", "connect", "discard"}

Control ==
    /\ txconn # None => txlock = txconn
    /\ \A t \in Tasks : IF backend = "tidb" THEN Placed(t, task[t]) ELSE Poolless(t, task[t])

Borrowers == {t \in Tasks : task[t].pool # 0 \/ task[t].home # 0}

Borrowing ==
    /\ busy = Cardinality(Borrowers)
    /\ pool \notin reaped /\ Cardinality(reaped) <= MaxReaps
    /\ \A t \in Tasks : task[t].pool \notin reaped /\ task[t].home \notin reaped

\* What the database and the open transaction have of a block at r.
Written(t, r) ==
    /\ committed[t] \in {0, 2}
    /\ r.pc \notin Ended => committed[t] = 0
    /\ r.home = 0 => pending[t] = 0
    /\ r.home # 0 /\ ~broken /\ r.pc # "abort" => pending[t] = r.at - 1

Writing == backend = "tidb" => \A t \in Blocks : Written(t, task[t])

Inv == Types /\ Control /\ Borrowing /\ Writing

(***************************************************************************)
(* The names of pools, and what becomes of a task                           *)
(***************************************************************************)
\* No pool, no task and "nothing" are told apart.
LEMMA NamesOfPools == 0 \notin Pools /\ Pools \subseteq Nat /\ None = 0 /\ None \notin Tasks
  BY SqlStoreAssumption DEF Pools, None, Tasks

\* There is always a name for one more pool: no task refers to two.
LEMMA NewPoolIs ==
    ASSUME Types, Borrowing, \A t \in Tasks : task[t].pool = 0 \/ task[t].home = 0
    PROVE  NewPool \in Pools /\ NewPool \notin reaped
<1> DEFINE Ref(t) == IF task[t].pool # 0 THEN task[t].pool ELSE task[t].home
           Refs == {Ref(t) : t \in Tasks}
           Used == reaped \cup Refs
<1>1. IsFiniteSet(Tasks) /\ Cardinality(Tasks) \in Nat /\ MaxReaps \in Nat
  BY SqlStoreAssumption, FS_CardinalityType DEF Tasks
<1>2. IsFiniteSet(Pools) /\ Cardinality(Pools) = Cardinality(Tasks) + MaxReaps + 1
  <2> DEFINE n == Cardinality(Tasks) + MaxReaps + 1
  <2>1. n \in Nat /\ n >= 1 /\ 1 \in Int /\ n \in Int
    BY <1>1
  <2> HIDE DEF n
  <2>2. IsFiniteSet(1..n) /\ Cardinality(1..n) = n
    BY <2>1, FS_Interval
  <2> QED BY <2>2 DEF Pools, n
<1>3. IsFiniteSet(Refs) /\ Cardinality(Refs) <= Cardinality(Tasks)
  <2> DEFINE f == [t \in Tasks |-> Ref(t)]
  <2>1. f \in [Tasks -> Refs] /\ \A x \in Refs : \E t \in Tasks : f[t] = x
    OBVIOUS
  <2>2. f \in Surjection(Tasks, Refs)
    BY <2>1 DEF Surjection
  <2> HIDE DEF f, Refs
  <2> QED BY <1>1, <2>2, FS_Surjection
<1>4. IsFiniteSet(reaped) /\ Cardinality(reaped) <= MaxReaps /\ Cardinality(reaped) \in Nat
  BY <1>2, FS_Subset, FS_CardinalityType DEF Types, Borrowing
<1>5. IsFiniteSet(Used) /\ Cardinality(Used) <= Cardinality(Tasks) + MaxReaps
  <2> HIDE DEF Refs
  <2>1. /\ Cardinality(Refs) \in Nat /\ IsFiniteSet(reaped \cap Refs)
        /\ Cardinality(reaped \cap Refs) \in Nat
    BY <1>3, <1>4, FS_Intersection, FS_CardinalityType
  <2>2. IsFiniteSet(Used) /\ Cardinality(Used) = Cardinality(reaped) + Cardinality(Refs) - Cardinality(reaped \cap Refs)
    BY <1>3, <1>4, FS_Union
  <2> QED BY <1>1, <1>3, <1>4, <2>1, <2>2
<1>6. ~(Pools \subseteq Used)
  <2> HIDE DEF Used
  <2>1. SUFFICES ASSUME Pools \subseteq Used PROVE FALSE
    OBVIOUS
  <2>2. Cardinality(Pools) <= Cardinality(Used)
    BY <1>5, <2>1, FS_Subset
  <2>3. Cardinality(Used) \in Nat
    BY <1>5, FS_CardinalityType
  <2> QED BY <1>1, <1>2, <1>5, <2>2, <2>3
<1>7. PICK p \in Pools : p \notin reaped /\ \A t \in Tasks : Ref(t) # p
  BY <1>6
<1>8. p # 0
  BY NamesOfPools
<1>9. \A t \in Tasks : task[t].pool # p /\ task[t].home # p
  BY <1>7, <1>8
<1> QED BY <1>7, <1>9 DEF NewPool

\* After its answer a task has given its own connection back, and a block goes on.
LEMMA AnsweredIs ==
    ASSUME NEW r \in Coroutine
    PROVE  /\ Answered(r) \in Coroutine
           /\ Answered(r).home = r.home /\ Answered(r).pool = 0
           /\ r.at = 2 => Answered(r).pc = "close" /\ Answered(r).at = 3
           /\ r.at = 1 /\ r.home # 0 => Answered(r).pc = "acquire" /\ Answered(r).at = 2
           /\ r.at = 1 /\ r.home = 0 => Answered(r).pc = "done" /\ Answered(r).at = 1
<1>1. 0 \in Pools \cup {0} /\ None \in Blocks \cup {None} /\ 1 \in 1..2 /\ 2 \in 0..3 /\ 3 \in 0..3
  OBVIOUS
<1>2. CASE r.at = 2
  <2>1. Answered(r) = [pc |-> "close", at |-> 3, try |-> r.try, pool |-> 0, home |-> r.home, on |-> None]
    BY <1>2 DEF Answered, Coroutine
  <2> QED BY <1>1, <1>2, <2>1 DEF Coroutine, PCs
<1>3. CASE r.at = 1 /\ r.home # 0
  <2>1. Answered(r) = [pc |-> "acquire", at |-> 2, try |-> r.try, pool |-> 0, home |-> r.home, on |-> None]
    <3>1. Answered(r) = [r EXCEPT !.pc = "acquire", !.at = 2, !.pool = 0, !.on = None]
      BY <1>3 DEF Answered
    <3> QED BY <3>1 DEF Coroutine
  <2> QED BY <1>1, <1>3, <2>1 DEF Coroutine, PCs
<1>4. CASE r.at # 2 /\ ~(r.at = 1 /\ r.home # 0)
  BY <1>1, <1>4 DEF Answered, Coroutine, PCs
<1> QED BY <1>2, <1>3, <1>4

\* A task that raises has given its own connection back; a block still has to abort.
LEMMA RaisedIs ==
    ASSUME NEW r \in Coroutine
    PROVE  /\ Raised(r) \in Coroutine
           /\ Raised(r).home = r.home /\ Raised(r).pool = 0 /\ Raised(r).at = r.at
           /\ r.home # 0 => Raised(r).pc = "abort"
           /\ r.home = 0 => Raised(r).pc = "failed"
<1>1. 0 \in Pools \cup {0} /\ None \in Blocks \cup {None} /\ 1 \in 1..2
  OBVIOUS
<1>2. CASE r.home # 0
  BY <1>1, <1>2 DEF Raised, Coroutine, PCs
<1>3. CASE r.home = 0
  BY <1>1, <1>3, ZenonT(50) DEF Raised, Coroutine, PCs
<1> QED BY <1>2, <1>3

\* A lost connection is retried from the start, or raised.
LEMMA LostIs ==
    ASSUME NEW r \in Coroutine
    PROVE  /\ Lost(r) \in Coroutine
           /\ Lost(r).pool = 0 /\ Lost(r).at = r.at
           /\ Retries(r) => Lost(r).pc = "discard" /\ Lost(r).home = 0
           /\ ~Retries(r) /\ r.home # 0 => Lost(r).pc = "abort" /\ Lost(r).home = r.home
           /\ ~Retries(r) /\ r.home = 0 => Lost(r).pc = "failed" /\ Lost(r).home = 0
<1>1. CASE Retries(r)
  BY <1>1, NamesOfPools DEF Lost, Coroutine, PCs
<1>2. CASE ~Retries(r)
  BY <1>2, RaisedIs DEF Lost
<1> QED BY <1>1, <1>2

\* A jump leaves the locals of the task alone.
LEMMA GotoIs ==
    ASSUME NEW t \in Tasks, task[t] \in Coroutine, NEW l \in PCs, Goto(t, l)
    PROVE  \E v \in Coroutine : /\ Become(t, v) /\ v.pc = l /\ v.at = task[t].at /\ v.try = task[t].try
                                /\ v.pool = task[t].pool /\ v.home = task[t].home /\ v.on = task[t].on
<1> DEFINE x == [task[t] EXCEPT !.pc = l]
<1>1. /\ x \in Coroutine /\ x.pc = l /\ x.at = task[t].at /\ x.try = task[t].try
      /\ x.pool = task[t].pool /\ x.home = task[t].home /\ x.on = task[t].on
  BY DEF Coroutine
<1>2. Become(t, x)
  BY DEF Goto
<1> HIDE DEF x
<1> QED BY <1>1, <1>2

(***************************************************************************)
(* A step of one task                                                       *)
(***************************************************************************)
\* A step of one task leaves the others where they are.
LEMMA Moved ==
    ASSUME Types, NEW t \in Tasks, NEW v \in Coroutine, Become(t, v)
    PROVE  /\ task' \in [Tasks -> Coroutine] /\ task'[t] = v
           /\ \A u \in Tasks : u # t => task'[u] = task[u]
  BY DEF Types, Become

\* Binding and lock stay consistent when the one task that moves stays consistent with them.
LEMMA ControlKept ==
    ASSUME Types, Control, NEW t \in Tasks, NEW v \in Coroutine, Become(t, v),
           backend = "tidb", backend' = backend, Placed(t, v)', txconn' # None => txlock' = txconn',
           txconn' = txconn \/ (txconn' \in {None, t} /\ txconn \in {None, t}),
           txlock' = txlock \/ (txlock' \in {None, t} /\ txlock \in {None, t})
    PROVE  Control'
<1> SUFFICES ASSUME NEW u \in Tasks PROVE Placed(u, task[u])'
  BY DEF Control
<1>1. task'[t] = v /\ (u # t => task'[u] = task[u])
  BY Moved
<1>2. CASE u = t
  BY <1>1, <1>2 DEF Placed
<1>3. CASE u # t
  <2>1. Placed(u, task[u]) /\ u # None
    BY NamesOfPools DEF Control
  <2>2. (txconn' = u <=> txconn = u) /\ (txlock' = u <=> txlock = u)
    BY <1>3, <2>1
  <2> QED BY <1>1, <1>3, <2>1, <2>2 DEF Placed
<1> QED BY <1>2, <1>3

Has(r) == r.pool # 0 \/ r.home # 0

\* _busy stays the number of borrowers when it follows the one task that moves.
LEMMA BorrowingKept ==
    ASSUME Types, Borrowing, NEW t \in Tasks, NEW v \in Coroutine, Become(t, v),
           reaped' = reaped, pool' \notin reaped, v.pool \notin reaped, v.home \notin reaped,
           \/ (Has(v) <=> Has(task[t])) /\ busy' = busy
           \/ Has(v) /\ ~Has(task[t]) /\ busy' = busy + 1
           \/ ~Has(v) /\ Has(task[t]) /\ busy' = busy - 1
    PROVE  Borrowing' /\ busy' \in Nat
<1>1. task'[t] = v /\ \A u \in Tasks : u # t => task'[u] = task[u]
  BY Moved
<1>2. IsFiniteSet(Borrowers) /\ Cardinality(Borrowers) \in Nat /\ busy = Cardinality(Borrowers)
  BY SqlStoreAssumption, FS_Subset, FS_CardinalityType DEF Borrowers, Tasks, Borrowing
<1>3. busy' = Cardinality(Borrowers') /\ busy' \in Nat
  <2>1. CASE (Has(v) <=> Has(task[t])) /\ busy' = busy
    <3>1. Borrowers' = Borrowers
      BY <1>1, <2>1 DEF Borrowers, Has
    <3> QED BY <1>2, <2>1, <3>1
  <2>2. CASE Has(v) /\ ~Has(task[t]) /\ busy' = busy + 1
    <3>1. Borrowers' = Borrowers \cup {t} /\ t \notin Borrowers
      BY <1>1, <2>2 DEF Borrowers, Has
    <3>2. Cardinality(Borrowers \cup {t}) = Cardinality(Borrowers) + 1
      BY <1>2, <3>1, FS_AddElement
    <3> QED BY <1>2, <2>2, <3>1, <3>2
  <2>3. CASE ~Has(v) /\ Has(task[t]) /\ busy' = busy - 1
    <3>1. Borrowers' = Borrowers \ {t} /\ t \in Borrowers
      BY <1>1, <2>3 DEF Borrowers, Has
    <3>2. IsFiniteSet(Borrowers') /\ Cardinality(Borrowers') = Cardinality(Borrowers) - 1
      BY <1>2, <3>1, FS_RemoveElement
    <3>3. Cardinality(Borrowers') \in Nat
      BY <3>2, FS_CardinalityType
    <3> QED BY <1>2, <2>3, <3>2, <3>3
  <2> QED BY <2>1, <2>2, <2>3
<1>4. \A u \in Tasks : task'[u].pool \notin reaped /\ task'[u].home \notin reaped
  BY <1>1 DEF Borrowing
<1> QED BY <1>3, <1>4 DEF Borrowing

\* A block keeps its account when no other task touches it, except to break the connection.
LEMMA WritingKept ==
    ASSUME Types, Writing, NEW t \in Tasks, NEW v \in Coroutine, Become(t, v), backend = "tidb", backend' = backend,
           t \in Blocks => Written(t, v)',
           \A u \in Blocks : u # t =>
               /\ committed'[u] = committed[u]
               /\ \/ pending'[u] = pending[u] /\ (broken' = broken \/ task[u].home = 0)
                  \/ pending'[u] = 0 /\ (broken' = TRUE \/ task[u].home = 0)
    PROVE  Writing'
<1> SUFFICES ASSUME NEW u \in Blocks PROVE Written(u, task[u])'
  BY DEF Writing
<1>1. u \in Tasks /\ task'[t] = v /\ (u # t => task'[u] = task[u])
  BY Moved DEF Tasks
<1>2. CASE u = t
  BY <1>1, <1>2 DEF Written
<1>3. CASE u # t
  <2>1. Written(u, task[u])
    BY DEF Writing
  <2> QED BY <1>1, <1>3, <2>1 DEF Written
<1> QED BY <1>2, <1>3

\* A step of task t of a TiDB store, after which its coroutine is v.
LEMMA TidbStep ==
    ASSUME Inv, NEW t \in Tasks, NEW v \in Coroutine, Become(t, v), backend = "tidb", backend' = backend,
           Placed(t, v)', txconn' # None => txlock' = txconn',
           txconn' = txconn \/ (txconn' \in {None, t} /\ txconn \in {None, t}),
           txlock' = txlock \/ (txlock' \in {None, t} /\ txlock \in {None, t}),
           reaped' = reaped, pool' \in Pools \cup {0}, pool' \notin reaped, v.pool \notin reaped, v.home \notin reaped,
           \/ (Has(v) <=> Has(task[t])) /\ busy' = busy
           \/ Has(v) /\ ~Has(task[t]) /\ busy' = busy + 1
           \/ ~Has(v) /\ Has(task[t]) /\ busy' = busy - 1,
           t \in Blocks => Written(t, v)',
           \A u \in Blocks : u # t =>
               /\ committed'[u] = committed[u]
               /\ \/ pending'[u] = pending[u] /\ (broken' = broken \/ task[u].home = 0)
                  \/ pending'[u] = 0 /\ (broken' = TRUE \/ task[u].home = 0),
           committed' \in [Tasks -> Nat], pending' \in [Tasks -> Nat],
           txlock' \in Blocks \cup {None}, txconn' \in Blocks \cup {None}, broken' \in BOOLEAN
    PROVE  Inv'
<1>1. Types /\ Control /\ Borrowing /\ Writing
  BY DEF Inv
<1>2. Control'
  BY <1>1, ControlKept
<1>3. Borrowing' /\ busy' \in Nat
  BY <1>1, BorrowingKept
<1>4. Writing'
  BY <1>1, WritingKept
<1>5. task' \in [Tasks -> Coroutine]
  BY <1>1, Moved
<1>6. Types'
  BY <1>1, <1>3, <1>5 DEF Types
<1> QED BY <1>2, <1>3, <1>4, <1>6 DEF Inv

\* What the invariant says of a task of a TiDB store.
LEMMA At ==
    ASSUME Inv, backend = "tidb", NEW t \in Tasks
    PROVE  /\ task[t] \in Coroutine /\ Placed(t, task[t]) /\ (t \in Blocks => Written(t, task[t]))
           /\ task[t].pool \notin reaped /\ task[t].home \notin reaped /\ pool \notin reaped /\ 0 \notin reaped
           /\ pool \in Pools \cup {0} /\ reaped \subseteq Pools
           /\ txconn # None => txlock = txconn
           /\ txlock \in Blocks \cup {None} /\ txconn \in Blocks \cup {None} /\ broken \in BOOLEAN
           /\ committed \in [Tasks -> Nat] /\ pending \in [Tasks -> Nat]
           /\ t # None /\ (t \in Blocks \/ t \in Singles) /\ ~(t \in Blocks /\ t \in Singles)
  BY NamesOfPools, SqlStoreAssumption DEF Inv, Types, Control, Borrowing, Writing, Tasks

\* A step that only moves the coroutine.
LEMMA QuietStep ==
    ASSUME Inv, NEW t \in Tasks, NEW v \in Coroutine, Become(t, v), backend = "tidb", 
           Placed(t, v), t \in Blocks => Written(t, v), v.pool = task[t].pool, v.home = task[t].home,
           UNCHANGED <<backend, committed, pending, pools, tx>>
    PROVE  Inv'
<1>1. /\ backend' = backend /\ committed' = committed /\ pending' = pending /\ pool' = pool
      /\ reaped' = reaped /\ busy' = busy /\ txlock' = txlock /\ txconn' = txconn /\ broken' = broken
  BY DEF pools, tx
<1>2. Placed(t, v)'
  BY <1>1 DEF Placed
<1>3. t \in Blocks => Written(t, v)'
  BY <1>1 DEF Written
<1>4. Has(v) <=> Has(task[t])
  BY DEF Has
<1> QED BY <1>1, <1>2, <1>3, <1>4, At, TidbStep

(***************************************************************************)
(* TiDB: borrowing a connection                                             *)
(***************************************************************************)
\* A block waits for _tx_lock and then for a connection.
LEMMA EnterBlockKeeps ==
    ASSUME Inv, NEW t \in Tasks, EnterBlock(t)
    PROVE  Inv'
<1>1. /\ backend = "tidb" /\ t \in Blocks /\ task[t].pc = "start" /\ txlock = None /\ txlock' = t
      /\ Goto(t, "acquire")
      /\ backend' = backend /\ committed' = committed /\ pending' = pending /\ pool' = pool /\ reaped' = reaped
      /\ busy' = busy /\ txconn' = txconn /\ broken' = broken
  BY DEF EnterBlock, pools
<1>2. PICK v \in Coroutine : /\ Become(t, v) /\ v.pc = "acquire" /\ v.at = task[t].at
                             /\ v.pool = task[t].pool /\ v.home = task[t].home
  BY <1>1, At, GotoIs DEF PCs
<1>3. txconn = None
  BY <1>1, At
<1>4. Placed(t, v)'
  BY <1>1, <1>2, <1>3, At DEF Placed, Ended
<1>5. Written(t, v)'
  BY <1>1, <1>2, At DEF Written, Ended
<1>6. Has(v) <=> Has(task[t])
  BY <1>2 DEF Has
<1> QED BY <1>1, <1>2, <1>3, <1>4, <1>5, <1>6, At, TidbStep

\* A single statement starts without a connection.
LEMMA StartStatementKeeps ==
    ASSUME Inv, NEW t \in Tasks, StartStatement(t)
    PROVE  Inv'
<1>1. /\ backend = "tidb" /\ t \in Singles /\ task[t].pc = "start" /\ Goto(t, "acquire")
      /\ UNCHANGED <<backend, committed, pending, pools, tx>>
  BY DEF StartStatement
<1>2. PICK v \in Coroutine : /\ Become(t, v) /\ v.pc = "acquire" /\ v.at = task[t].at
                             /\ v.pool = task[t].pool /\ v.home = task[t].home
  BY <1>1, At, GotoIs DEF PCs
<1>3. Placed(t, v)
  BY <1>1, <1>2, At DEF Placed, Ended
<1>4. t \notin Blocks
  BY <1>1, At
<1> QED BY <1>1, <1>2, <1>3, <1>4, QuietStep

\* Borrowing from the pool that is there.
LEMMA TakePoolKeeps ==
    ASSUME Inv, NEW t \in Tasks, TakePool(t), backend = "tidb", task[t].pc \in {"acquire", "getpool"},
           task[t].pc = "acquire" => txconn = None, UNCHANGED <<backend, committed, pending, tx>>
    PROVE  Inv'
<1>1. /\ backend' = backend /\ committed' = committed /\ pending' = pending
      /\ txlock' = txlock /\ txconn' = txconn /\ broken' = broken
  BY DEF tx
<1>2. task[t].home = 0 /\ task[t].pool = 0
  BY At DEF Placed
<1>3. CASE pool # 0
  <2> DEFINE x == [task[t] EXCEPT !.pc = "connect", !.pool = pool]
  <2>1. Become(t, x) /\ busy' = busy + 1 /\ pool' = pool /\ reaped' = reaped
    BY <1>3 DEF TakePool
  <2>2. PICK v \in Coroutine : /\ Become(t, v) /\ v.pc = "connect" /\ v.at = task[t].at
                               /\ v.pool = pool /\ v.home = 0
    <3>1. x \in Coroutine /\ x.pc = "connect" /\ x.at = task[t].at /\ x.pool = pool /\ x.home = 0
      BY <1>2, At, ZenonT(50) DEF Coroutine, PCs
    <3> HIDE DEF x
    <3> QED BY <2>1, <3>1
  <2>3. Placed(t, v)'
    BY <1>1, <1>2, <1>3, <2>2, At DEF Placed, Ended
  <2>4. t \in Blocks => Written(t, v)'
    BY <1>1, <1>2, <2>2, At DEF Written, Ended
  <2>5. Has(v) /\ ~Has(task[t])
    BY <1>2, <1>3, <2>2 DEF Has
  <2> QED BY <1>1, <2>1, <2>2, <2>3, <2>4, <2>5, At, TidbStep
<1>4. CASE pool = 0
  <2>1. Goto(t, "creating") /\ busy' = busy /\ pool' = pool /\ reaped' = reaped
    BY <1>4 DEF TakePool
  <2>2. PICK v \in Coroutine : /\ Become(t, v) /\ v.pc = "creating" /\ v.at = task[t].at
                               /\ v.pool = 0 /\ v.home = 0
    BY <1>2, <2>1, At, GotoIs DEF PCs
  <2>3. Placed(t, v)'
    BY <1>1, <1>2, <2>2, At DEF Placed, Ended
  <2>4. t \in Blocks => Written(t, v)'
    BY <1>1, <1>2, <2>2, At DEF Written, Ended
  <2>5. Has(v) <=> Has(task[t])
    BY <1>2, <2>2 DEF Has
  <2> QED BY <1>1, <2>1, <2>2, <2>3, <2>4, <2>5, At, TidbStep
<1> QED BY <1>3, <1>4

\* acquire: the transaction connection, the pool that is there, or a new one.
LEMMA AcquireKeeps ==
    ASSUME Inv, NEW t \in Tasks, Acquire(t)
    PROVE  Inv'
<1>1. task[t].pc = "acquire" /\ backend = "tidb" /\ UNCHANGED <<backend, committed, pending, tx>>
  BY DEF Acquire
<1>2. CASE txconn = None /\ creating = None /\ TakePool(t)
  BY <1>1, <1>2, TakePoolKeeps
<1>3. CASE txconn # None /\ Become(t, [task[t] EXCEPT !.pc = "run", !.on = txconn]) /\ UNCHANGED pools
  <2> DEFINE v == [task[t] EXCEPT !.pc = "run", !.on = txconn]
  <2>1. /\ v \in Coroutine /\ v.pc = "run" /\ v.at = task[t].at /\ v.pool = task[t].pool
        /\ v.home = task[t].home /\ v.on = txconn
    BY <1>1, At, ZenonT(50) DEF Coroutine, PCs
  <2>2. Become(t, v)
    BY <1>3
  <2> HIDE DEF v
  <2>3. t \in Blocks => txconn = t
    BY <1>1, <1>3, At DEF Placed, Ended
  <2>4. Placed(t, v)
    BY <1>1, <1>3, <2>1, <2>3, At DEF Placed, Ended
  <2>5. t \in Blocks => Written(t, v)
    BY <1>1, <2>1, At DEF Written, Ended
  <2> QED BY <1>1, <1>3, <2>1, <2>2, <2>4, <2>5, QuietStep
<1>4. CASE txconn = None /\ creating # None /\ Goto(t, "getpool") /\ UNCHANGED pools
  <2>1. PICK v \in Coroutine : /\ Become(t, v) /\ v.pc = "getpool" /\ v.at = task[t].at
                               /\ v.pool = task[t].pool /\ v.home = task[t].home
    BY <1>1, <1>4, At, GotoIs DEF PCs
  <2>3. Placed(t, v)
    BY <1>1, <1>4, <2>1, At DEF Placed, Ended
  <2>4. t \in Blocks => Written(t, v)
    BY <1>1, <2>1, At DEF Written, Ended
  <2> QED BY <1>1, <1>4, <2>1, <2>3, <2>4, QuietStep
<1> QED BY <1>2, <1>3, <1>4 DEF Acquire

\* _ensure_pool finds a pool, or begins to make one.
LEMMA GetPoolKeeps ==
    ASSUME Inv, NEW t \in Tasks, GetPool(t)
    PROVE  Inv'
<1>1. backend = "tidb"
  BY DEF GetPool, Inv, Control, Poolless
<1> QED BY <1>1, TakePoolKeeps DEF GetPool

\* A new pool has a name that nobody holds and that was not reaped.
LEMMA PoolMadeKeeps ==
    ASSUME Inv, NEW t \in Tasks, PoolMade(t)
    PROVE  Inv'
<1>1. backend = "tidb"
  BY DEF PoolMade, Inv, Control, Poolless
<1> DEFINE x == [task[t] EXCEPT !.pc = "connect", !.pool = NewPool]
<1>2. /\ task[t].pc = "creating" /\ pool' = NewPool /\ busy' = busy + 1 /\ Become(t, x) /\ reaped' = reaped
      /\ backend' = backend /\ committed' = committed /\ pending' = pending
      /\ txlock' = txlock /\ txconn' = txconn /\ broken' = broken
  BY DEF PoolMade, tx
<1>3. task[t].home = 0 /\ task[t].pool = 0
  BY <1>1, <1>2, At DEF Placed
<1>4. NewPool \in Pools /\ NewPool \notin reaped
  <2>1. Types /\ Borrowing /\ \A u \in Tasks : Placed(u, task[u])
    BY <1>1 DEF Inv, Control
  <2>2. \A u \in Tasks : task[u].pool = 0 \/ task[u].home = 0
    BY <2>1 DEF Placed
  <2> QED BY <2>1, <2>2, NewPoolIs
<1>5. PICK v \in Coroutine : /\ Become(t, v) /\ v.pc = "connect" /\ v.at = task[t].at
                             /\ v.pool = pool' /\ v.home = 0
  <2> DEFINE n == NewPool
  <2>1. task[t] \in Coroutine /\ n \in Pools \cup {0}
    BY <1>1, <1>4, At
  <2> HIDE DEF n
  <2>2. [task[t] EXCEPT !.pc = "connect", !.pool = n] \in Coroutine
    BY <2>1 DEF Coroutine, PCs
  <2>3. x \in Coroutine /\ x.pc = "connect" /\ x.at = task[t].at /\ x.pool = NewPool /\ x.home = 0
    BY <1>3, <2>1, <2>2 DEF Coroutine, n
  <2> HIDE DEF x
  <2> QED BY <1>2, <2>3
<1>6. pool' # 0 /\ pool' \in Pools \cup {0} /\ pool' \notin reaped
  BY <1>2, <1>4, NamesOfPools
<1>7. Placed(t, v)'
  BY <1>1, <1>2, <1>3, <1>5, <1>6, At DEF Placed, Ended
<1>8. t \in Blocks => Written(t, v)'
  BY <1>1, <1>2, <1>3, <1>5, At DEF Written, Ended
<1>9. Has(v) /\ ~Has(task[t])
  BY <1>3, <1>5, <1>6 DEF Has
<1> QED BY <1>1, <1>2, <1>5, <1>6, <1>7, <1>8, <1>9, At, TidbStep

\* A connection-level error before the statement or BEGIN got an answer.
LEMMA GiveUpKeeps ==
    ASSUME Inv, NEW t \in Tasks, backend = "tidb", task[t].pc \in {"creating", "connect", "begin"},
           GivesUp(t), txlock' = LeaveLock(t),
           busy' = IF task[t].pc = "creating" THEN busy ELSE busy - 1,
           UNCHANGED <<backend, committed, pending, pool, reaped, txconn, broken>>
    PROVE  Inv'
<1>1. /\ backend' = backend /\ committed' = committed /\ pending' = pending /\ pool' = pool /\ reaped' = reaped
      /\ txconn' = txconn /\ broken' = broken
  OBVIOUS
<1>2. task[t].home = 0 /\ (task[t].pc = "creating" <=> task[t].pool = 0)
  BY At DEF Placed
<1>3. PICK v \in Coroutine : /\ Become(t, v) /\ v.pc \in {"discard", "failed"} /\ v.at = task[t].at
                             /\ v.pool = 0 /\ v.home = 0
  <2>1. Become(t, Lost(task[t])) \/ Become(t, Raised(task[t]))
    BY DEF GivesUp
  <2> QED BY <1>2, <2>1, At, LostIs, RaisedIs
<1>4. task'[t] = v
  BY <1>3, Moved DEF Inv
<1>5. txlock' = IF txlock = t /\ v.pc = "failed" THEN None ELSE txlock
  BY <1>4 DEF LeaveLock
<1>6. txconn # t /\ (t \in Blocks => txlock = t /\ txconn = None) /\ (t \in Singles => txlock # t)
  BY <1>2, At DEF Placed, Ended
<1>7. Placed(t, v)'
  BY <1>1, <1>2, <1>3, <1>5, <1>6, At DEF Placed, Ended
<1>8. t \in Blocks => Written(t, v)'
  BY <1>1, <1>2, <1>3, At DEF Written, Ended
<1>9. \/ (Has(v) <=> Has(task[t])) /\ busy' = busy
      \/ ~Has(v) /\ Has(task[t]) /\ busy' = busy - 1
  BY <1>2, <1>3 DEF Has
<1>10. txlock' \in {txlock, None} /\ (txlock' = txlock \/ txlock = t) /\ (txconn' # None => txlock' = txconn')
  BY <1>1, <1>5, <1>6, At
<1> QED BY <1>1, <1>3, <1>7, <1>8, <1>9, <1>10, At, TidbStep

\* A refused pool, a failed connect and a failed BEGIN give back what was borrowed.
LEMMA FailuresKeep ==
    ASSUME Inv, NEW t \in Tasks, PoolRefused(t) \/ ConnectFails(t) \/ BeginFails(t)
    PROVE  Inv'
<1>1. backend = "tidb"
  BY DEF PoolRefused, ConnectFails, BeginFails, Inv, Control, Poolless
<1>2. CASE PoolRefused(t)
  BY <1>1, <1>2, GiveUpKeeps DEF PoolRefused
<1>3. CASE ConnectFails(t)
  BY <1>1, <1>3, GiveUpKeeps DEF ConnectFails
<1>4. CASE BeginFails(t)
  BY <1>1, <1>4, GiveUpKeeps DEF BeginFails
<1> QED BY <1>2, <1>3, <1>4

\* A connection of the pool is handed out.
LEMMA ConnectKeeps ==
    ASSUME Inv, NEW t \in Tasks, Connect(t)
    PROVE  Inv'
<1>1. backend = "tidb" /\ task[t].pc = "connect" /\ UNCHANGED <<backend, committed, pending, pools, tx>>
  BY DEF Connect, Inv, Control, Poolless
<1>2. PICK l \in {"begin", "run"} : Goto(t, l) /\ (l = "begin" <=> task[t].at = 0)
  BY DEF Connect
<1>3. PICK v \in Coroutine : /\ Become(t, v) /\ v.pc = l /\ v.at = task[t].at
                             /\ v.pool = task[t].pool /\ v.home = task[t].home
  BY <1>1, <1>2, At, GotoIs DEF PCs
<1>4. Placed(t, v)
  BY <1>1, <1>2, <1>3, At DEF Placed, Ended
<1>5. t \in Blocks => Written(t, v)
  BY <1>1, <1>2, <1>3, At DEF Written, Ended, Placed
<1> QED BY <1>1, <1>3, <1>4, <1>5, QuietStep

\* BEGIN binds the block that holds _tx_lock, and no other, to the transaction connection.
LEMMA BindTxKeeps ==
    ASSUME Inv, NEW t \in Tasks, BindTx(t)
    PROVE  Inv'
<1> DEFINE x == [pc |-> "acquire", at |-> 1, try |-> 1, pool |-> 0, home |-> task[t].pool, on |-> task[t].on]
<1>1. /\ backend = "tidb" /\ task[t].pc = "begin" /\ txconn' = t /\ broken' = FALSE /\ Become(t, x)
      /\ backend' = backend /\ committed' = committed /\ pending' = pending
      /\ pool' = pool /\ reaped' = reaped /\ busy' = busy /\ txlock' = txlock
  BY DEF BindTx, pools
<1>2. /\ t \in Blocks /\ task[t].home = 0 /\ task[t].pool # 0 /\ txlock = t /\ txconn = None
      /\ committed[t] = 0 /\ pending[t] = 0
  BY <1>1, At DEF Placed, Written, Ended
<1>3. PICK v \in Coroutine : /\ Become(t, v) /\ v.pc = "acquire" /\ v.at = 1
                             /\ v.pool = 0 /\ v.home = task[t].pool
  <2>2. x \in Coroutine /\ x.pc = "acquire" /\ x.at = 1 /\ x.pool = 0 /\ x.home = task[t].pool
    <3>1. /\ "acquire" \in PCs /\ 1 \in 0..3 /\ 1 \in 1..2 /\ 0 \in Pools \cup {0}
          /\ task[t].pool \in Pools \cup {0} /\ task[t].on \in Blocks \cup {None}
      BY <1>1, At DEF Coroutine, PCs
    <3> QED BY <3>1 DEF Coroutine
  <2> HIDE DEF x
  <2> QED BY <1>1, <2>2
<1>4. Placed(t, v)'
  BY <1>1, <1>2, <1>3, At DEF Placed, Ended
<1>5. Written(t, v)'
  BY <1>1, <1>2, <1>3 DEF Written, Ended
<1>6. Has(v) <=> Has(task[t])
  BY <1>2, <1>3 DEF Has
<1>7. \A u \in Blocks : u # t => task[u].home = 0
  <2>1. \A u \in Blocks : u \in Tasks /\ u # None
    BY NamesOfPools DEF Tasks
  <2> QED BY <1>1, <1>2, <2>1, At DEF Placed
<1> QED BY <1>1, <1>2, <1>3, <1>4, <1>5, <1>6, <1>7, At, TidbStep

\* A task that lost its connection drops the pool and starts again.
LEMMA DiscardKeeps ==
    ASSUME Inv, NEW t \in Tasks, Discard(t)
    PROVE  Inv'
<1> DEFINE x == [task[t] EXCEPT !.pc = "acquire", !.try = 2]
<1>1. /\ backend = "tidb" /\ task[t].pc = "discard" /\ pool' = 0 /\ Become(t, x)
      /\ backend' = backend /\ committed' = committed /\ pending' = pending
      /\ reaped' = reaped /\ busy' = busy /\ txlock' = txlock /\ txconn' = txconn /\ broken' = broken
  BY DEF Discard, tx
<1>2. PICK v \in Coroutine : /\ Become(t, v) /\ v.pc = "acquire" /\ v.at = task[t].at
                             /\ v.pool = task[t].pool /\ v.home = task[t].home
  <2>1. task[t] \in Coroutine /\ "acquire" \in PCs /\ 2 \in 1..2
    BY <1>1, At DEF PCs
  <2>2. /\ x \in Coroutine /\ x.pc = "acquire" /\ x.at = task[t].at /\ x.pool = task[t].pool
        /\ x.home = task[t].home
    BY <2>1 DEF Coroutine
  <2> HIDE DEF x
  <2> QED BY <1>1, <2>2
<1>3. Placed(t, v)'
  BY <1>1, <1>2, At DEF Placed, Ended
<1>4. t \in Blocks => Written(t, v)'
  BY <1>1, <1>2, At DEF Written, Ended, Placed
<1>5. Has(v) <=> Has(task[t])
  BY <1>2 DEF Has
<1> QED BY <1>1, <1>2, <1>3, <1>4, <1>5, At, TidbStep

(***************************************************************************)
(* TiDB: statements                                                         *)
(***************************************************************************)
\* A statement on a connection of its own commits by itself.
LEMMA RunAloneKeeps ==
    ASSUME Inv, NEW t \in Tasks, RunAlone(t)
    PROVE  Inv'
<1>1. /\ backend = "tidb" /\ task[t].pc = "run" /\ task[t].pool # 0 /\ busy' = busy - 1
      /\ committed' \in {committed, [committed EXCEPT ![t] = @ + 1]}
      /\ backend' = backend /\ pending' = pending /\ pool' = pool /\ reaped' = reaped
      /\ txlock' = txlock /\ txconn' = txconn /\ broken' = broken
  BY DEF RunAlone, tx
<1>2. t \in Singles /\ t \notin Blocks /\ task[t].home = 0 /\ task[t].at = 1
  BY <1>1, At DEF Placed
<1>3. PICK v \in Coroutine : /\ Become(t, v) /\ v.pc \in {"done", "discard", "failed"} /\ v.at = 1
                             /\ v.pool = 0 /\ v.home = 0
  <2>1. Become(t, Answered(task[t])) \/ Become(t, Lost(task[t])) \/ Become(t, Raised(task[t]))
    BY DEF RunAlone
  <2> QED BY <1>1, <1>2, <2>1, At, AnsweredIs, LostIs, RaisedIs
<1>4. Placed(t, v)'
  BY <1>1, <1>2, <1>3, At DEF Placed, Ended
<1>5. ~Has(v) /\ Has(task[t])
  BY <1>1, <1>3 DEF Has
<1>6. committed' \in [Tasks -> Nat] /\ \A u \in Blocks : committed'[u] = committed[u]
  <2>1. \A u \in Blocks : u \in Tasks
    BY DEF Tasks
  <2> QED BY <1>1, <1>2, <2>1, At
<1> QED BY <1>1, <1>2, <1>3, <1>4, <1>5, <1>6, At, TidbStep

\* A statement that joins the transaction commits nothing of the block.
LEMMA RunInTxKeeps ==
    ASSUME Inv, NEW t \in Tasks, RunInTx(t)
    PROVE  Inv'
<1>1. /\ backend = "tidb" /\ task[t].pc = "run" /\ task[t].pool = 0 /\ task[t].on = txconn
      /\ backend' = backend /\ committed' = committed /\ pool' = pool /\ reaped' = reaped /\ busy' = busy
      /\ txlock' = txlock /\ txconn' = txconn
  BY DEF RunInTx, pools
<1>2. /\ txconn # None /\ task[t].at \in {1, 2} /\ (task[t].home # 0 <=> t = txconn) /\ ~Retries(task[t])
      /\ (t \in Singles => task[t].at = 1 /\ task[t].home = 0) /\ (t \in Blocks => task[t].home # 0 /\ txlock = t)
  BY <1>1, At DEF Placed, Ended, Retries, Coroutine
<1>3. \A u \in Blocks : u \in Tasks
  BY DEF Tasks
<1>4. CASE ~broken /\ pending' = [pending EXCEPT ![t] = @ + 1] /\ Become(t, Answered(task[t])) /\ broken' = broken
  <2>1. PICK v \in Coroutine :
            /\ Become(t, v) /\ v.pool = 0 /\ v.home = task[t].home
            /\ task[t].at = 2 => v.pc = "close" /\ v.at = 3
            /\ task[t].at = 1 /\ task[t].home # 0 => v.pc = "acquire" /\ v.at = 2
            /\ task[t].at = 1 /\ task[t].home = 0 => v.pc = "done" /\ v.at = 1
    BY <1>1, <1>4, At, AnsweredIs
  <2>2. Placed(t, v)'
    BY <1>1, <1>2, <2>1, At DEF Placed, Ended
  <2>3. pending' \in [Tasks -> Nat] /\ pending'[t] = pending[t] + 1 /\ \A u \in Tasks : u # t => pending'[u] = pending[u]
    BY <1>1, <1>4, At
  <2>4. t \in Blocks => Written(t, v)'
    BY <1>1, <1>2, <1>4, <2>1, <2>3, At DEF Written, Ended
  <2>5. Has(v) <=> Has(task[t])
    BY <1>1, <2>1 DEF Has
  <2> QED BY <1>1, <1>3, <1>4, <2>1, <2>2, <2>3, <2>4, <2>5, At, TidbStep
<1>5. CASE broken' = TRUE /\ pending' = [u \in Tasks |-> 0] /\ Become(t, Lost(task[t]))
  <2>1. PICK v \in Coroutine :
            /\ Become(t, v) /\ v.pool = 0 /\ v.home = task[t].home /\ v.at = task[t].at
            /\ task[t].home # 0 => v.pc = "abort"
            /\ task[t].home = 0 => v.pc = "failed"
    BY <1>1, <1>2, <1>5, At, LostIs
  <2>2. Placed(t, v)'
    BY <1>1, <1>2, <2>1, At DEF Placed, Ended
  <2>3. pending' \in [Tasks -> Nat] /\ \A u \in Tasks : pending'[u] = 0
    BY <1>5
  <2>4. t \in Blocks => Written(t, v)'
    BY <1>1, <1>2, <1>5, <2>1, <2>3, At DEF Written, Ended
  <2>5. Has(v) <=> Has(task[t])
    BY <1>1, <2>1 DEF Has
  <2> QED BY <1>1, <1>3, <1>5, <2>1, <2>2, <2>3, <2>4, <2>5, At, TidbStep
<1>6. CASE ~broken /\ pending' = pending /\ broken' = broken /\ Become(t, Raised(task[t]))
  <2>1. PICK v \in Coroutine :
            /\ Become(t, v) /\ v.pool = 0 /\ v.home = task[t].home /\ v.at = task[t].at
            /\ task[t].home # 0 => v.pc = "abort"
            /\ task[t].home = 0 => v.pc = "failed"
    BY <1>1, <1>2, <1>6, At, RaisedIs
  <2>2. Placed(t, v)'
    BY <1>1, <1>2, <2>1, At DEF Placed, Ended
  <2>4. t \in Blocks => Written(t, v)'
    BY <1>1, <1>2, <1>6, <2>1, At DEF Written, Ended
  <2>5. Has(v) <=> Has(task[t])
    BY <1>1, <2>1 DEF Has
  <2> QED BY <1>1, <1>6, <2>1, <2>2, <2>4, <2>5, At, TidbStep
<1> QED BY <1>4, <1>5, <1>6 DEF RunInTx

\* A statement that meant to join a transaction that is over.
LEMMA RunAfterTxKeeps ==
    ASSUME Inv, NEW t \in Tasks, RunAfterTx(t)
    PROVE  Inv'
<1>1. /\ backend = "tidb" /\ task[t].pc = "run" /\ task[t].pool = 0 /\ task[t].on # txconn
      /\ backend' = backend /\ pool' = pool /\ reaped' = reaped /\ busy' = busy
      /\ txlock' = txlock /\ txconn' = txconn /\ broken' = broken
  BY DEF RunAfterTx, pools, tx
<1>2. t \in Singles /\ t \notin Blocks /\ task[t].home = 0 /\ task[t].at = 1
  BY <1>1, At DEF Placed
<1>3. PICK v \in Coroutine : /\ Become(t, v) /\ v.pc \in {"done", "discard", "failed"} /\ v.at = 1
                             /\ v.pool = 0 /\ v.home = 0
  <2>1. Become(t, Answered(task[t])) \/ Become(t, Lost(task[t])) \/ Become(t, Raised(task[t]))
    BY DEF RunAfterTx, GivesUp
  <2> QED BY <1>1, <1>2, <2>1, At, AnsweredIs, LostIs, RaisedIs
<1>4. Placed(t, v)'
  BY <1>1, <1>2, <1>3, At DEF Placed, Ended
<1>5. Has(v) <=> Has(task[t])
  BY <1>1, <1>2, <1>3 DEF Has
<1>6. /\ committed' \in {committed, [committed EXCEPT ![t] = @ + 1]}
      /\ pending' \in {pending, [pending EXCEPT ![t] = @ + 1]}
  BY DEF RunAfterTx
<1>7. /\ committed' \in [Tasks -> Nat] /\ pending' \in [Tasks -> Nat]
      /\ \A u \in Blocks : committed'[u] = committed[u] /\ pending'[u] = pending[u]
  <2>1. \A u \in Blocks : u \in Tasks
    BY DEF Tasks
  <2> QED BY <1>1, <1>2, <1>6, <2>1, At
<1> QED BY <1>1, <1>2, <1>3, <1>4, <1>5, <1>7, At, TidbStep

\* __aexit__ of the bound block.
LEMMA ExitKeeps ==
    ASSUME Inv, NEW t \in Tasks, NEW l \in {"done", "failed"}, backend = "tidb", task[t].pc \in {"close", "abort"},
           Become(t, [task[t] EXCEPT !.pc = l, !.home = 0]), Unbind(t),
           \/ committed' = committed
           \/ ~broken /\ task[t].pc = "close" /\ committed' = [u \in Tasks |-> committed[u] + pending[u]]
    PROVE  Inv'
<1>1. /\ txconn' = None /\ broken' = FALSE /\ txlock' = None /\ busy' = busy - 1
      /\ pending' = [u \in Tasks |-> 0] /\ backend' = backend /\ pool' = pool /\ reaped' = reaped
  BY DEF Unbind
<1>2. /\ task[t].home # 0 /\ task[t].pool = 0 /\ t \in Blocks /\ txconn = t /\ txlock = t
      /\ committed[t] = 0 /\ (~broken /\ task[t].pc = "close" => pending[t] = 2)
  BY At DEF Placed, Written, Ended
<1>3. PICK v \in Coroutine : Become(t, v) /\ v.pc = l /\ v.at = task[t].at /\ v.pool = 0 /\ v.home = 0
  <2> DEFINE x == [task[t] EXCEPT !.pc = l, !.home = 0]
  <2>1. task[t] \in Coroutine /\ l \in PCs /\ 0 \in Pools \cup {0}
    BY At DEF PCs
  <2>2. x \in Coroutine /\ x.pc = l /\ x.at = task[t].at /\ x.pool = task[t].pool /\ x.home = 0
    BY <2>1 DEF Coroutine
  <2>3. Become(t, x)
    OBVIOUS
  <2> HIDE DEF x
  <2> QED BY <1>2, <2>2, <2>3
<1>4. \A u \in Blocks : u \in Tasks /\ (u # t => task[u].home = 0 /\ pending[u] = 0)
  <2>1. \A u \in Blocks : u \in Tasks
    BY DEF Tasks
  <2> QED BY <1>2, <2>1, At DEF Placed, Written
<1>5. Placed(t, v)'
  BY <1>1, <1>2, <1>3, At DEF Placed, Ended
<1>6. /\ committed' \in [Tasks -> Nat] /\ committed'[t] \in {0, 2}
      /\ \A u \in Blocks : u # t => committed'[u] = committed[u]
  BY <1>2, <1>4, At
<1>7. pending' \in [Tasks -> Nat] /\ \A u \in Tasks : pending'[u] = 0
  BY <1>1
<1>8. Written(t, v)'
  BY <1>3, <1>6, <1>7 DEF Written, Ended
<1>9. ~Has(v) /\ Has(task[t])
  BY <1>2, <1>3 DEF Has
<1> QED BY <1>1, <1>2, <1>3, <1>4, <1>5, <1>6, <1>7, <1>8, <1>9, At, TidbStep, ZenonT(50)

\* COMMIT and ROLLBACK settle both statements of a block at once.
LEMMA EndTxKeeps ==
    ASSUME Inv, NEW t \in Tasks, CommitTx(t) \/ RollbackTx(t)
    PROVE  Inv'
<1>1. CASE CommitTx(t)
  <2>1. /\ backend = "tidb" /\ task[t].pc = "close" /\ Unbind(t)
        /\ \/ committed' = committed
           \/ ~broken /\ committed' = [u \in Tasks |-> committed[u] + pending[u]]
        /\ \/ Become(t, [task[t] EXCEPT !.pc = "done", !.home = 0])
           \/ Become(t, [task[t] EXCEPT !.pc = "failed", !.home = 0])
    BY <1>1 DEF CommitTx
  <2> QED BY <2>1, ExitKeeps
<1>2. CASE RollbackTx(t)
  BY <1>2, ExitKeeps DEF RollbackTx
<1> QED BY <1>1, <1>2

(***************************************************************************)
(* TiDB: the idle reaper and shutdown                                       *)
(***************************************************************************)
\* The reaper closes the pool only while _busy is 0.
LEMMA ReapKeeps ==
    ASSUME Inv, Reap
    PROVE  Inv'
<1>1. /\ backend = "tidb" /\ Cardinality(reaped) < MaxReaps /\ pool # 0 /\ busy = 0
      /\ reaped' = reaped \cup {pool} /\ pool' = 0 /\ backend' = backend /\ task' = task
      /\ committed' = committed /\ pending' = pending /\ busy' = busy
      /\ txlock' = txlock /\ txconn' = txconn /\ broken' = broken
  BY DEF Reap, tx
<1>2. Types /\ Control /\ Borrowing /\ Writing
  BY DEF Inv
<1>3. Types'
  BY <1>1, <1>2 DEF Types
<1>4. Control' /\ Writing'
  BY <1>1, <1>2 DEF Control, Writing, Placed, Written
<1>5. \A t \in Tasks : task[t].pool = 0 /\ task[t].home = 0
  <2>1. IsFiniteSet(Borrowers) /\ Cardinality(Borrowers) = 0
    BY <1>1, <1>2, SqlStoreAssumption, FS_Subset DEF Borrowers, Tasks, Borrowing
  <2>2. Borrowers = {}
    BY <2>1, FS_EmptySet
  <2> QED BY <2>2 DEF Borrowers
<1>6. 0 \notin reaped'
  BY <1>1, <1>2, NamesOfPools DEF Types
<1>7. Cardinality(reaped') <= MaxReaps
  <2>1. IsFiniteSet(reaped)
    <3>1. IsFiniteSet(Pools)
      <4>1. Cardinality(Tasks) \in Nat /\ MaxReaps \in Nat
        BY SqlStoreAssumption, FS_CardinalityType DEF Tasks
      <4>2. 1 \in Int /\ Cardinality(Tasks) + MaxReaps + 1 \in Int
        BY <4>1
      <4> QED BY <4>2, FS_Interval DEF Pools
    <3> QED BY <1>2, <3>1, FS_Subset DEF Types
  <2>2. Cardinality(reaped) \in Nat /\ MaxReaps \in Nat
    BY <2>1, FS_CardinalityType, SqlStoreAssumption
  <2>3. Cardinality(reaped \cup {pool}) = IF pool \in reaped THEN Cardinality(reaped) ELSE Cardinality(reaped) + 1
    BY <2>1, FS_AddElement
  <2> QED BY <1>1, <2>2, <2>3
<1>8. Borrowers' = Borrowers
  BY <1>1 DEF Borrowers
<1>9. Borrowing'
  BY <1>1, <1>2, <1>5, <1>6, <1>7, <1>8 DEF Borrowing
<1> QED BY <1>3, <1>4, <1>9 DEF Inv

\* close() drops the pool without reaping it.
LEMMA CloseStoreKeeps ==
    ASSUME Inv, CloseStore
    PROVE  Inv'
<1>1. /\ pool' = 0 /\ backend' = backend /\ task' = task /\ reaped' = reaped
      /\ committed' = committed /\ pending' = pending /\ busy' = busy
      /\ txlock' = txlock /\ txconn' = txconn /\ broken' = broken
  BY DEF CloseStore, tx
<1>2. Types /\ Control /\ Borrowing /\ Writing
  BY DEF Inv
<1>3. Types'
  BY <1>1, <1>2 DEF Types
<1>4. Control' /\ Writing'
  BY <1>1, <1>2 DEF Control, Writing, Placed, Poolless, Written
<1>5. Borrowers' = Borrowers /\ 0 \notin reaped
  BY <1>1, <1>2, NamesOfPools DEF Borrowers, Types
<1>6. Borrowing'
  BY <1>1, <1>2, <1>5 DEF Borrowing
<1> QED BY <1>3, <1>4, <1>6 DEF Inv

(***************************************************************************)
(* SQLite and D1: nothing is borrowed                                       *)
(***************************************************************************)
\* SQLite and D1 use neither pools nor _tx_lock.
LEMMA PoollessAt ==
    ASSUME Inv, backend # "tidb", NEW t \in Tasks
    PROVE  task[t] \in Coroutine /\ Poolless(t, task[t]) /\ committed \in [Tasks -> Nat] /\ pending \in [Tasks -> Nat]
  BY DEF Inv, Types, Control

\* Hence their steps keep what is said of pools, lock and transaction.
LEMMA PoollessStep ==
    ASSUME Inv, backend # "tidb", NEW t \in Tasks, NEW v \in Coroutine, Become(t, v), Poolless(t, v),
           committed' \in [Tasks -> Nat], pending' \in [Tasks -> Nat], UNCHANGED <<backend, pools, tx>>
    PROVE  Inv'
<1>1. /\ backend' = backend /\ pool' = pool /\ reaped' = reaped /\ busy' = busy
      /\ txlock' = txlock /\ txconn' = txconn /\ broken' = broken
  BY DEF pools, tx
<1>2. Types /\ Control /\ Borrowing /\ Writing
  BY DEF Inv
<1>3. task' \in [Tasks -> Coroutine] /\ task'[t] = v /\ \A u \in Tasks : u # t => task'[u] = task[u]
  BY <1>2, Moved
<1>4. Types'
  BY <1>1, <1>2, <1>3 DEF Types
<1>5. Control'
  BY <1>1, <1>2, <1>3 DEF Control, Poolless
<1>6. pool \notin reaped /\ v.pool \notin reaped /\ v.home \notin reaped /\ (Has(v) <=> Has(task[t]))
  BY <1>2, NamesOfPools DEF Borrowing, Types, Poolless, Control, Has
<1>7. Borrowing'
  BY <1>1, <1>2, <1>6, BorrowingKept
<1>8. Writing'
  BY <1>1 DEF Writing
<1> QED BY <1>4, <1>5, <1>7, <1>8 DEF Inv

\* A flush of the shared connection keeps the counters natural numbers.
LEMMA FlushIs ==
    ASSUME committed \in [Tasks -> Nat], pending \in [Tasks -> Nat], Flush
    PROVE  committed' \in [Tasks -> Nat] /\ pending' \in [Tasks -> Nat]
  BY DEF Flush

\* The steps on SQLite.
LEMMA SqliteKeeps ==
    ASSUME Inv, NEW t \in Tasks,
           SqliteEnter(t) \/ SqliteBegin(t) \/ SqliteStart(t) \/ SqliteRun(t) \/ SqliteCommit(t) \/ SqliteExit(t)
    PROVE  Inv'
<1>1. backend # "tidb" /\ UNCHANGED <<backend, pools, tx>>
  BY DEF SqliteEnter, SqliteBegin, SqliteStart, SqliteRun, SqliteCommit, SqliteExit
<1>2. /\ task[t] \in Coroutine /\ Poolless(t, task[t])
      /\ committed \in [Tasks -> Nat] /\ pending \in [Tasks -> Nat]
      /\ (t \in Blocks \/ t \in Singles) /\ ~(t \in Blocks /\ t \in Singles)
  BY <1>1, PoollessAt, SqlStoreAssumption DEF Tasks
<1>3. committed' \in [Tasks -> Nat] /\ pending' \in [Tasks -> Nat]
  <2>1. /\ committed' = committed \/ Flush
        /\ pending' = pending \/ pending' = [u \in Tasks |-> 0] \/ pending' = [pending EXCEPT ![t] = @ + 1] \/ Flush
    BY DEF SqliteEnter, SqliteBegin, SqliteStart, SqliteRun, SqliteCommit, SqliteExit
  <2>2. CASE Flush
    BY <1>2, <2>2, FlushIs
  <2>3. CASE ~Flush
    BY <1>2, <2>1, <2>3
  <2> QED BY <2>2, <2>3
<1>4. ASSUME NEW l \in {"begin", "failed", "abort", "done"}, Goto(t, l) PROVE Inv'
  <2>1. PICK v \in Coroutine : /\ Become(t, v) /\ v.pc = l /\ v.at = task[t].at
                               /\ v.pool = task[t].pool /\ v.home = task[t].home
    BY <1>2, <1>4, GotoIs DEF PCs
  <2>2. Poolless(t, v)
    BY <1>2, <2>1 DEF Poolless
  <2> QED BY <1>1, <1>3, <2>1, <2>2, PoollessStep
<1>5. ASSUME NEW l \in {"run", "commit"}, Goto(t, l), task[t].at \in {1, 2} PROVE Inv'
  <2>1. PICK v \in Coroutine : /\ Become(t, v) /\ v.pc = l /\ v.at = task[t].at
                               /\ v.pool = task[t].pool /\ v.home = task[t].home
    BY <1>2, <1>5, GotoIs DEF PCs
  <2>2. Poolless(t, v)
    BY <1>2, <1>5, <2>1 DEF Poolless
  <2> QED BY <1>1, <1>3, <2>1, <2>2, PoollessStep
<1>6. ASSUME NEW l \in {"run", "close", "done"}, NEW n \in 0..3, l = "run" => n \in {1, 2}, t \in Singles => n = 1,
             Become(t, [task[t] EXCEPT !.pc = l, !.at = n])
      PROVE  Inv'
  <2> DEFINE x == [task[t] EXCEPT !.pc = l, !.at = n]
  <2>1. l \in PCs
    BY DEF PCs
  <2>2. x \in Coroutine /\ x.pc = l /\ x.at = n /\ x.pool = task[t].pool /\ x.home = task[t].home
    BY <1>2, <2>1 DEF Coroutine
  <2>3. Become(t, x)
    BY <1>6
  <2> HIDE DEF x
  <2>4. Poolless(t, x)
    BY <1>2, <1>6, <2>2 DEF Poolless
  <2> QED BY <1>1, <1>3, <2>2, <2>3, <2>4, PoollessStep
<1>7. CASE SqliteEnter(t)
  BY <1>4, <1>7 DEF SqliteEnter
<1>8. CASE SqliteBegin(t)
  <2>1. Become(t, [task[t] EXCEPT !.pc = "run", !.at = 1]) \/ Goto(t, "failed")
    BY <1>8 DEF SqliteBegin
  <2> QED BY <1>4, <1>6, <2>1
<1>9. CASE SqliteStart(t)
  <2>1. Goto(t, "run") /\ task[t].at = 1
    BY <1>2, <1>9 DEF SqliteStart, Poolless
  <2> QED BY <1>5, <2>1
<1>10. CASE SqliteRun(t)
  <2>1. task[t].at \in {1, 2} /\ (Goto(t, "commit") \/ Goto(t, "abort") \/ Goto(t, "failed"))
    BY <1>2, <1>10 DEF SqliteRun, Poolless
  <2> QED BY <1>4, <1>5, <2>1
<1>11. CASE SqliteCommit(t)
  <2>1. task[t].pc = "commit" /\ task[t].at \in {1, 2}
    BY <1>2, <1>11 DEF SqliteCommit, Poolless
  <2>2. CASE t \in Singles
    <3>1. Become(t, [task[t] EXCEPT !.pc = "done", !.at = 1])
      BY <1>11, <2>2 DEF SqliteCommit
    <3> QED BY <1>6, <3>1
  <2>3. CASE t \notin Singles /\ task[t].at = 1
    <3>1. Become(t, [task[t] EXCEPT !.pc = "run", !.at = 2])
      BY <1>11, <2>3 DEF SqliteCommit
    <3> QED BY <1>6, <2>3, <3>1
  <2>4. CASE t \notin Singles /\ task[t].at = 2
    <3>1. Become(t, [task[t] EXCEPT !.pc = "close", !.at = 3])
      BY <1>11, <2>4 DEF SqliteCommit
    <3> QED BY <1>6, <2>4, <3>1
  <2> QED BY <2>1, <2>2, <2>3, <2>4
<1>12. CASE SqliteExit(t)
  <2>1. Goto(t, "done") \/ Goto(t, "failed")
    BY <1>12 DEF SqliteExit
  <2> QED BY <1>4, <2>1
<1> QED BY <1>7, <1>8, <1>9, <1>10, <1>11, <1>12

\* The steps on D1.
LEMMA D1Keeps ==
    ASSUME Inv, NEW t \in Tasks, D1Start(t) \/ D1Run(t)
    PROVE  Inv'
<1>1. backend # "tidb" /\ UNCHANGED <<backend, pools, tx>>
  BY DEF D1Start, D1Run
<1>2. /\ task[t] \in Coroutine /\ Poolless(t, task[t])
      /\ committed \in [Tasks -> Nat] /\ pending \in [Tasks -> Nat]
      /\ (t \in Blocks \/ t \in Singles) /\ ~(t \in Blocks /\ t \in Singles)
  BY <1>1, PoollessAt, SqlStoreAssumption DEF Tasks
<1>3. committed' \in [Tasks -> Nat] /\ pending' \in [Tasks -> Nat]
  <2>1. committed' \in {committed, D1Applied(t)} /\ pending' = pending
    BY DEF D1Start, D1Run
  <2>2. task[t].at \in Nat
    BY <1>2 DEF Coroutine
  <2>3. D1Applied(t) \in [Tasks -> Nat]
    <3>1. CASE t \in Blocks
      BY <1>2, <2>2, <3>1 DEF D1Applied
    <3>2. CASE t \notin Blocks
      BY <1>2, <3>2 DEF D1Applied
    <3> QED BY <3>1, <3>2
  <2> QED BY <1>2, <2>1, <2>3
<1>4. ASSUME NEW v \in Coroutine, Become(t, v), v.pc \in {"run", "done", "failed"}, v.pool = 0, v.home = 0,
             v.pc = "run" => v.at \in {1, 2}, t \in Singles => v.at = 1
      PROVE  Inv'
  <2>1. Poolless(t, v)
    BY <1>4 DEF Poolless
  <2> QED BY <1>1, <1>3, <1>4, <2>1, PoollessStep
<1>5. task[t].pool = 0 /\ task[t].home = 0 /\ (t \in Singles => task[t].at = 1)
  BY <1>2 DEF Poolless
<1>6. CASE D1Start(t)
  <2> DEFINE x == [task[t] EXCEPT !.pc = "run", !.at = 1]
  <2>1. "run" \in PCs /\ 1 \in 0..3
    BY DEF PCs
  <2>2. x \in Coroutine /\ x.pc = "run" /\ x.at = 1 /\ x.pool = task[t].pool /\ x.home = task[t].home
    BY <1>2, <2>1 DEF Coroutine
  <2>3. Become(t, x)
    BY <1>6 DEF D1Start
  <2> HIDE DEF x
  <2> QED BY <1>4, <1>5, <2>2, <2>3
<1>7. CASE D1Run(t)
  <2>1. task[t].pc = "run" /\ task[t].at \in {1, 2}
    BY <1>2, <1>7 DEF D1Run, Poolless
  <2>2. ASSUME NEW l \in {"run", "done", "failed"}, NEW n \in {1, 2}, NEW k \in {1, 2}, t \in Singles => n = 1,
               Become(t, [task[t] EXCEPT !.pc = l, !.at = n, !.try = k])
        PROVE  Inv'
    <3> DEFINE x == [task[t] EXCEPT !.pc = l, !.at = n, !.try = k]
    <3>1. l \in PCs /\ n \in 0..3 /\ k \in 1..2
      BY DEF PCs
    <3>2. x \in Coroutine /\ x.pc = l /\ x.at = n /\ x.pool = task[t].pool /\ x.home = task[t].home
      BY <1>2, <3>1 DEF Coroutine
    <3>3. Become(t, x)
      BY <2>2
    <3> HIDE DEF x
    <3> QED BY <1>4, <1>5, <2>2, <3>2, <3>3
  <2>3. ASSUME NEW l \in {"run", "failed"}, NEW k \in {1, 2}, Become(t, [task[t] EXCEPT !.pc = l, !.try = k])
        PROVE  Inv'
    <3> DEFINE x == [task[t] EXCEPT !.pc = l, !.try = k]
    <3>1. l \in PCs /\ k \in 1..2
      BY DEF PCs
    <3>2. x \in Coroutine /\ x.pc = l /\ x.at = task[t].at /\ x.pool = task[t].pool /\ x.home = task[t].home
      BY <1>2, <3>1 DEF Coroutine
    <3>3. Become(t, x)
      BY <2>3
    <3> HIDE DEF x
    <3> QED BY <1>4, <1>5, <2>1, <2>3, <3>2, <3>3
  <2>4. CASE Goto(t, "failed")
    <3>1. PICK v \in Coroutine : /\ Become(t, v) /\ v.pc = "failed" /\ v.at = task[t].at
                                 /\ v.pool = task[t].pool /\ v.home = task[t].home
      BY <1>2, <2>4, GotoIs DEF PCs
    <3> QED BY <1>4, <1>5, <3>1
  <2> DEFINE more == t \in Blocks /\ task[t].at = 1
  <2>5. \/ Become(t, [task[t] EXCEPT !.pc = IF more THEN "run" ELSE "done",
                                     !.at = IF more THEN 2 ELSE @, !.try = 1])
        \/ Become(t, [task[t] EXCEPT !.pc = IF task[t].try = 1 THEN "run" ELSE "failed",
                                     !.try = IF task[t].try = 1 THEN 2 ELSE 1])
        \/ Goto(t, "failed")
    BY <1>7 DEF D1Run
  <2>6. CASE Become(t, [task[t] EXCEPT !.pc = IF more THEN "run" ELSE "done",
                                       !.at = IF more THEN 2 ELSE @, !.try = 1])
    <3>1. CASE more
      <4>1. Become(t, [task[t] EXCEPT !.pc = "run", !.at = 2, !.try = 1])
        BY <2>6, <3>1
      <4> QED BY <1>2, <2>2, <3>1, <4>1
    <3>2. CASE ~more
      <4>1. Become(t, [task[t] EXCEPT !.pc = "done", !.at = task[t].at, !.try = 1])
        BY <2>6, <3>2
      <4> QED BY <1>5, <2>1, <2>2, <4>1
    <3> QED BY <3>1, <3>2
  <2>7. CASE Become(t, [task[t] EXCEPT !.pc = IF task[t].try = 1 THEN "run" ELSE "failed",
                                       !.try = IF task[t].try = 1 THEN 2 ELSE 1])
    <3>1. CASE task[t].try = 1
      <4>1. Become(t, [task[t] EXCEPT !.pc = "run", !.try = 2])
        BY <2>7, <3>1
      <4> QED BY <2>3, <4>1
    <3>2. CASE task[t].try # 1
      <4>1. Become(t, [task[t] EXCEPT !.pc = "failed", !.try = 1])
        BY <2>7, <3>2
      <4> QED BY <2>3, <4>1
    <3> QED BY <3>1, <3>2
  <2> QED BY <2>4, <2>5, <2>6, <2>7
<1> QED BY <1>6, <1>7

(***************************************************************************)
(* The theorems                                                             *)
(***************************************************************************)
\* A store that was just opened satisfies the invariant.
LEMMA InitInv == Init => Inv
<1> SUFFICES ASSUME Init PROVE Inv
  OBVIOUS
<1>1. \A t \in Tasks : /\ task[t] \in Coroutine /\ task[t].pc = "start" /\ task[t].pool = 0 /\ task[t].home = 0
                       /\ task[t].at = IF t \in Blocks THEN 0 ELSE 1
                       /\ committed[t] = 0 /\ pending[t] = 0
  <2> SUFFICES ASSUME NEW t \in Tasks
               PROVE  /\ task[t] \in Coroutine /\ task[t].pc = "start" /\ task[t].pool = 0 /\ task[t].home = 0
                      /\ task[t].at = IF t \in Blocks THEN 0 ELSE 1
                      /\ committed[t] = 0 /\ pending[t] = 0
    OBVIOUS
  <2>1. PICK n \in 0..3 : n = IF t \in Blocks THEN 0 ELSE 1
    OBVIOUS
  <2>2. task[t] = [pc |-> "start", at |-> n, try |-> 1, pool |-> 0, home |-> 0, on |-> None]
    BY <2>1 DEF Init
  <2>3. task[t] \in Coroutine
    BY <2>2 DEF Coroutine, PCs
  <2> QED BY <2>1, <2>2, <2>3 DEF Init
<1>2. Types
  <2>1. task \in [Tasks -> Coroutine]
    BY <1>1 DEF Init
  <2> QED BY <2>1 DEF Init, Types
<1>3. Control
  <2>1. ASSUME NEW t \in Tasks, backend = "tidb" PROVE Placed(t, task[t])
    BY <1>1, NamesOfPools, SqlStoreAssumption DEF Placed, Ended, Init, Tasks
  <2>2. ASSUME NEW t \in Tasks, backend # "tidb" PROVE Poolless(t, task[t])
    BY <1>1, SqlStoreAssumption DEF Poolless, Tasks
  <2> QED BY <2>1, <2>2 DEF Control, Init
<1>4. Borrowing
  <2>1. Borrowers = {}
    BY <1>1 DEF Borrowers
  <2>2. Cardinality({}) = 0 /\ 0 <= MaxReaps
    BY FS_EmptySet, SqlStoreAssumption
  <2> QED BY <2>1, <2>2 DEF Borrowing, Init
<1>5. Writing
  BY <1>1 DEF Writing, Written, Tasks
<1> QED BY <1>2, <1>3, <1>4, <1>5 DEF Inv

\* Every step keeps the invariant.
LEMMA NextInv == Inv /\ [Next]_vars => Inv'
<1> SUFFICES ASSUME Inv, [Next]_vars PROVE Inv'
  OBVIOUS
<1>1. ASSUME NEW t \in Tasks, Moves(t) \/ Faults(t) PROVE Inv'
  <2>1. CASE EnterBlock(t) \/ StartStatement(t) \/ Acquire(t) \/ GetPool(t) \/ PoolMade(t)
    BY <2>1, EnterBlockKeeps, StartStatementKeeps, AcquireKeeps, GetPoolKeeps, PoolMadeKeeps
  <2>2. CASE PoolRefused(t) \/ ConnectFails(t) \/ BeginFails(t)
    BY <2>2, FailuresKeep
  <2>3. CASE Connect(t) \/ BindTx(t) \/ Discard(t)
    BY <2>3, ConnectKeeps, BindTxKeeps, DiscardKeeps
  <2>4. CASE RunAlone(t) \/ RunInTx(t) \/ RunAfterTx(t)
    BY <2>4, RunAloneKeeps, RunInTxKeeps, RunAfterTxKeeps
  <2>5. CASE CommitTx(t) \/ RollbackTx(t)
    BY <2>5, EndTxKeeps
  <2>6. CASE SqliteEnter(t) \/ SqliteBegin(t) \/ SqliteStart(t) \/ SqliteRun(t) \/ SqliteCommit(t) \/ SqliteExit(t)
    BY <2>6, SqliteKeeps
  <2>7. CASE D1Start(t) \/ D1Run(t)
    BY <2>7, D1Keeps
  <2> QED BY <1>1, <2>1, <2>2, <2>3, <2>4, <2>5, <2>6, <2>7 DEF Moves, Faults
<1>2. CASE Reap
  BY <1>2, ReapKeeps
<1>3. CASE CloseStore
  BY <1>3, CloseStoreKeeps
<1>4. CASE UNCHANGED vars
  <2>1. /\ backend' = backend /\ task' = task /\ committed' = committed /\ pending' = pending /\ pool' = pool
        /\ reaped' = reaped /\ busy' = busy /\ txlock' = txlock /\ txconn' = txconn /\ broken' = broken
    BY <1>4 DEF vars, pools, tx
  <2>2. Types' /\ Control'
    BY <2>1 DEF Inv, Types, Control, Placed, Poolless
  <2>3. Borrowers' = Borrowers
    BY <2>1 DEF Borrowers
  <2>4. Borrowing'
    BY <2>1, <2>3 DEF Inv, Borrowing
  <2>5. Writing'
    BY <2>1 DEF Inv, Writing, Written
  <2> QED BY <2>2, <2>4, <2>5 DEF Inv
<1> QED BY <1>1, <1>2, <1>3, <1>4 DEF Next

\* The inductive invariant holds in every reachable state.
LEMMA InvAlways == Spec => []Inv
  BY InitInv, NextInv, PTL DEF Spec

\* The idle reaper for every number of tasks, pools and reaps: _busy is the
\* number of tasks that have borrowed a connection, through every failed BEGIN,
\* retry and replaced pool, and no task ever holds a pool that was reaped.
THEOREM ReaperSparesBorrowersAlways == Spec => []ReaperSparesBorrowers
<1>1. Inv => ReaperSparesBorrowers
  BY DEF Inv, Borrowing, Borrowers, ReaperSparesBorrowers
<1> QED BY <1>1, InvAlways, PTL

\* _TiDBTransaction for every number of blocks and single statements: no lost
\* connection, retry, pool change or statement of another task that joins the
\* transaction leaves one statement of a block in the database without the other.
THEOREM TransactionIsAtomicAlways == Spec => []TransactionIsAtomic
<1>1. Inv => TransactionIsAtomic
  BY DEF Inv, Writing, Written, TransactionIsAtomic
<1> QED BY <1>1, InvAlways, PTL

(***************************************************************************)
(* Retention                                                                *)
(***************************************************************************)
RetTyped ==
    /\ rows \in [{"responses", "items", "events", "jobs"} -> SUBSET Responses]
    /\ maker \in [Responses -> 0..4] /\ job \in [Responses -> {"active", "terminal"}]
    /\ at \in 0..4

\* A response whose items were written has them for as long as its row is there:
\* the row is written once, before them, so that it never comes back without them.
ItemsBesideRow == \A r \in Responses : maker[r] >= 2 /\ r \in rows["responses"] => r \in rows["items"]

\* A job that was written and still runs has its row.
JobsKept == \A r \in Responses : maker[r] = 4 /\ job[r] = "active" => r \in rows["jobs"]

RetInv == RetTyped /\ ItemsBesideRow /\ JobsKept

\* The tables of a pass, and the order in which a request writes them.
LEMMA TablesAre ==
    /\ Ret!Tables = <<"responses", "items", "events", "jobs">> /\ Len(Ret!Tables) = 4
    /\ Ret!Order = Ret!Tables
    /\ Ret!TableNames = {"responses", "items", "events", "jobs"}
  <1>1. Ret!Tables = <<"responses", "items", "events", "jobs">> /\ Ret!Order = Ret!Tables
    BY DEF Ret!Tables, Ret!Order
  <1>2. Len(Ret!Tables) = 4 /\ DOMAIN Ret!Tables = 1..4
    BY DEF Ret!Tables
  <1>3. {Ret!Tables[i] : i \in 1..4} = {"responses", "items", "events", "jobs"}
    BY DEF Ret!Tables
  <1> QED
    BY <1>1, <1>2, <1>3 DEF Ret!TableNames

\* Nothing is there at the start.
LEMMA RetInit == Ret!Init => RetInv
  <1> SUFFICES ASSUME Ret!Init PROVE RetInv
    OBVIOUS
  <1>1. RetTyped
    BY TablesAre DEF Ret!Init, RetTyped
  <1>2. ItemsBesideRow /\ JobsKept
    BY TablesAre DEF Ret!Init, ItemsBesideRow, JobsKept
  <1> QED
    BY <1>1, <1>2 DEF RetInv

\* A request writes into the next table of its order.
LEMMA WriteKeeps ==
    ASSUME RetInv, NEW r \in Responses, Ret!Write(r)
    PROVE  RetInv'
  <1> USE DEF RetInv, RetTyped
  <1>1. /\ maker[r] \in 0..3 /\ maker' = [maker EXCEPT ![r] = maker[r] + 1]
        /\ job' = job /\ at' = at
    BY TablesAre DEF Ret!Write
  <1>2. PICK t \in {"responses", "items", "events", "jobs"} :
          /\ rows' = [rows EXCEPT ![t] = rows[t] \cup {r}]
          /\ maker[r] = 1 => t = "items"
          /\ maker[r] = 3 => t = "jobs"
          /\ t = "responses" => maker[r] = 0
    <2>1. rows' = [rows EXCEPT ![Ret!Order[maker[r] + 1]] = rows[Ret!Order[maker[r] + 1]] \cup {r}]
      BY DEF Ret!Write
    <2>2. maker[r] = 0 => Ret!Order[maker[r] + 1] = "responses"
      BY TablesAre
    <2>3. maker[r] = 1 => Ret!Order[maker[r] + 1] = "items"
      BY TablesAre
    <2>4. maker[r] = 2 => Ret!Order[maker[r] + 1] = "events"
      BY TablesAre
    <2>5. maker[r] = 3 => Ret!Order[maker[r] + 1] = "jobs"
      BY TablesAre
    <2> DEFINE named == Ret!Order[maker[r] + 1]
    <2>6. /\ named \in {"responses", "items", "events", "jobs"}
          /\ maker[r] = 1 => named = "items"
          /\ maker[r] = 3 => named = "jobs"
          /\ named = "responses" => maker[r] = 0
      BY <1>1, <2>2, <2>3, <2>4, <2>5
    <2>7. rows' = [rows EXCEPT ![named] = rows[named] \cup {r}]
      BY <2>1
    <2> HIDE DEF named
    <2> QED
      BY <2>6, <2>7
  <1>3. RetTyped'
    BY <1>1, <1>2
  <1>4. ItemsBesideRow'
    BY <1>1, <1>2 DEF ItemsBesideRow
  <1>5. JobsKept'
    BY <1>1, <1>2 DEF JobsKept
  <1> QED
    BY <1>3, <1>4, <1>5

\* The other steps of a request.
LEMMA RequestKeeps ==
    ASSUME RetInv, NEW r \in Responses, Ret!Delete(r) \/ Ret!Settle(r) \/ Ret!Age(r)
    PROVE  RetInv'
  <1> USE DEF RetInv, RetTyped, ItemsBesideRow, JobsKept
  <1>1. CASE Ret!Delete(r)
    BY <1>1 DEF Ret!Delete
  <1>2. CASE Ret!Settle(r)
    BY <1>2 DEF Ret!Settle
  <1>3. CASE Ret!Age(r)
    BY <1>3 DEF Ret!Age
  <1> QED
    BY <1>1, <1>2, <1>3

\* The next table is one, or the pass ends.
LEMMA AfterIs == ASSUME at \in 0..4 PROVE Ret!After(at) \in 0..4
  BY TablesAre DEF Ret!After

\* A DELETE takes rows that its WHERE clause names: no items of a response
\* that has its row, no job that runs.
LEMMA DeleteBatchKeeps ==
    ASSUME RetInv, Ret!DeleteBatch
    PROVE  RetInv'
  <1> USE DEF RetInv, RetTyped
  <1>1. at \in 1..4
    BY DEF Ret!DeleteBatch
  <1>2. PICK t \in {"responses", "items", "events", "jobs"} : t = Ret!Tables[at]
    BY <1>1, TablesAre
  <1>3. PICK gone \in SUBSET Ret!Victims(t) : rows' = [rows EXCEPT ![t] = rows[t] \ gone]
    BY <1>2 DEF Ret!DeleteBatch
  <1>4. at' \in 0..4 /\ maker' = maker /\ job' = job
    BY AfterIs DEF Ret!DeleteBatch
  <1>5. t = "items" => gone \cap rows["responses"] = {}
    BY <1>3 DEF Ret!Victims
  <1>6. t = "jobs" => \A r \in gone : job[r] = "terminal"
    BY <1>3 DEF Ret!Victims
  <1>7. RetTyped'
    BY <1>3, <1>4
  <1>8. ItemsBesideRow'
    BY <1>3, <1>4, <1>5 DEF ItemsBesideRow
  <1>9. JobsKept'
    BY <1>3, <1>4, <1>6 DEF JobsKept
  <1> QED
    BY <1>7, <1>8, <1>9

\* The steps of the pass and of its scheduler that delete nothing.
LEMMA SchedulerKeeps ==
    ASSUME RetInv, Ret!Begin \/ Ret!Count \/ Ret!PassFails \/ Ret!Stop \/ Ret!Start
    PROVE  RetInv'
  <1>1. rows' = rows /\ maker' = maker /\ job' = job
    BY DEF Ret!Begin, Ret!Count, Ret!PassFails, Ret!Stop, Ret!Start
  <1>2. at' \in 0..4
    BY AfterIs DEF RetInv, RetTyped, Ret!Begin, Ret!Count, Ret!PassFails, Ret!Stop, Ret!Start
  <1> QED
    BY <1>1, <1>2 DEF RetInv, RetTyped, ItemsBesideRow, JobsKept

\* RetInv is kept by every step.
LEMMA RetNext == RetInv /\ [Ret!Next]_Ret!vars => RetInv'
  <1> SUFFICES ASSUME RetInv, [Ret!Next]_Ret!vars PROVE RetInv'
    OBVIOUS
  <1>1. ASSUME NEW r \in Responses, Ret!Write(r) PROVE RetInv'
    BY <1>1, WriteKeeps
  <1>2. ASSUME NEW r \in Responses, Ret!Delete(r) \/ Ret!Settle(r) \/ Ret!Age(r) PROVE RetInv'
    BY <1>2, RequestKeeps
  <1>3. CASE Ret!DeleteBatch
    BY <1>3, DeleteBatchKeeps
  <1>4. CASE Ret!Begin \/ Ret!Count \/ Ret!PassFails \/ Ret!Stop \/ Ret!Start
    BY <1>4, SchedulerKeeps
  <1>5. CASE UNCHANGED Ret!vars
    BY <1>5 DEF Ret!vars, RetInv, RetTyped, ItemsBesideRow, JobsKept
  <1> QED
    BY <1>1, <1>2, <1>3, <1>4, <1>5 DEF Ret!Next, Ret!Pass

\* No interleaving of retention passes, early ones included, with requests that
\* write, delete and settle responses takes the items of a response whose row is
\* there or the job of one that still runs: for any number of responses, any
\* batch size and any number of failing statements.
THEOREM SweepSparesTheLivingAlways == Ret!Spec => []SweepSparesTheLiving
  <1>1. RetInv => SweepSparesTheLiving
    BY TablesAre DEF RetInv, RetTyped, ItemsBesideRow, JobsKept, SweepSparesTheLiving, Ret!SweepSparesTheLiving
  <1> QED
    BY <1>1, RetInit, RetNext, PTL DEF Ret!Spec
=============================================================================
