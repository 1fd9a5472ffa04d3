-------------------------------- MODULE SqlStore -------------------------------
(***************************************************************************)
(* The three backends of the store and what tasks of one process do to it  *)
(* at the same time: single statements, and the blocks of two statements    *)
(* that set_group_members, upsert_pricing and the token rotation wrap in    *)
(* store.transaction().                                                     *)
(*                                                                         *)
(*   tidb    a lazily built pool that an idle reaper closes, one retry after *)
(*           a connection-level error, one transaction connection to which  *)
(*           every statement of the process is routed while it is bound;    *)
(*   sqlite  one connection; every execute ends with a commit;              *)
(*   d1      one HTTPS request per statement, one retry, no transactions.   *)
(*                                                                         *)
(* A write is counted, not described: committed[t] is how many statements   *)
(* of task t the database has, pending[t] how many wait in an open          *)
(* transaction.  For a block, 0 is the old state, 2 the new one and 1 the   *)
(* half-written one (the DELETE without its INSERT).                        *)
(***************************************************************************)
EXTENDS Integers, FiniteSets

CONSTANTS
    Blocks,         \* tasks that run a transaction block of two statements
    Singles,        \* tasks that run one statement
    Backends,       \* the backends explored
    PoolSize,       \* _pool_size
    MaxReaps        \* bound on the releases of an idle pool

ASSUME SqlStoreAssumption ==
    /\ Blocks \cap Singles = {} /\ 0 \notin Blocks \cup Singles /\ IsFiniteSet(Blocks \cup Singles)
    /\ Backends \subseteq {"tidb", "sqlite", "d1"}
    /\ PoolSize \in Nat \ {0} /\ MaxReaps \in Nat

VARIABLES
    backend,
    task,       \* the coroutine of each task
    committed, pending,
    pool,       \* _pool: the number of the current pool, 0 for None
    reaped,     \* pools the idle reaper closed
    busy,       \* _busy
    creating,   \* the task that creates a pool under _pool_lock, 0 for none
    txlock,     \* the holder of _tx_lock, 0 for none
    txconn,     \* the block whose connection is bound to _tx_conn, 0 for none
    broken,     \* the bound connection is dead
    intx,       \* sqlite: in_transaction
    closed      \* _closed

pools == <<pool, reaped, busy, creating>>
tx == <<txlock, txconn, broken>>
vars == <<backend, task, committed, pending, pools, tx, intx, closed>>

Tasks == Blocks \cup Singles
None == 0
\* Enough names for the pools in use, the reaped ones and a new one.
Pools == 1..(Cardinality(Tasks) + MaxReaps + 1)
PCs == {"start", "acquire", "getpool", "creating", "connect", "begin", "run", "commit",
        "close", "abort", "discard", "done", "failed"}

Coroutine == [pc : PCs, at : 0..3, try : 1..2, pool : Pools \cup {0}, home : Pools \cup {0},
              on : Blocks \cup {None}]

TypeOK ==
    /\ backend \in Backends
    /\ task \in [Tasks -> Coroutine]
    /\ committed \in [Tasks -> 0..2] /\ pending \in [Tasks -> 0..2]
    /\ pool \in Pools \cup {0} /\ reaped \subseteq Pools /\ busy \in 0..Cardinality(Tasks)
    /\ creating \in Tasks \cup {None} /\ txlock \in Blocks \cup {None}
    /\ txconn \in Blocks \cup {None} /\ broken \in BOOLEAN /\ intx \in BOOLEAN /\ closed \in BOOLEAN

\* create_store: one of the backends by configuration.  A TiDB that cannot be
\* reached at start leaves a store without a pool, which is also how it begins.
Init ==
    /\ backend \in Backends
    /\ task = [t \in Tasks |-> [pc |-> "start", at |-> IF t \in Blocks THEN 0 ELSE 1, try |-> 1,
                                pool |-> 0, home |-> 0, on |-> None]]
    /\ committed = [t \in Tasks |-> 0] /\ pending = [t \in Tasks |-> 0]
    /\ pool = 0 /\ reaped = {} /\ busy = 0 /\ creating = None
    /\ txlock = None /\ txconn = None /\ broken = FALSE /\ intx = FALSE /\ closed = FALSE

Become(t, r) == task' = [task EXCEPT ![t] = r]
Goto(t, l) == Become(t, [task[t] EXCEPT !.pc = l])

(***************************************************************************)
(* What becomes of a task: the answer of a statement, or an exception.      *)
(***************************************************************************)
\* The statement returned: a block goes on to its next one, then to __aexit__.
Answered(r) ==
    IF r.at = 2 THEN [r EXCEPT !.pc = "close", !.at = 3, !.pool = 0, !.on = None]
    ELSE IF r.at = 1 /\ r.home # 0 THEN [r EXCEPT !.pc = "acquire", !.at = 2, !.pool = 0, !.on = None]
    ELSE [r EXCEPT !.pc = "done", !.pool = 0, !.on = None, !.try = 1]

\* The exception leaves the statement: inside a block it ends the block.
Raised(r) ==
    [r EXCEPT !.pc = IF r.home # 0 THEN "abort" ELSE "failed", !.pool = 0, !.on = None, !.try = 1]

\* _run_statement: a connection-level error is retried once, unless a
\* transaction is bound; _open_tx_conn: BEGIN is retried once.
Retries(r) == r.try = 1 /\ (r.at = 0 \/ txconn = None)

\* What a connection-level error makes of a task.  Any other error is raised at once.
Lost(r) == IF Retries(r) THEN [r EXCEPT !.pc = "discard", !.pool = 0, !.home = 0, !.on = None] ELSE Raised(r)

\* An error met before the statement runs: connection-level or not.
GivesUp(t) == \E r \in {Lost(task[t]), Raised(task[t])} : Become(t, r)

\* Mutant: a block keeps it.
KeepLock(t) == txlock

\* A block that could not begin gives _tx_lock back.
LeaveLock(t) == IF txlock = t /\ task'[t].pc = "failed" THEN None ELSE txlock

(***************************************************************************)
(* TiDB: borrowing a connection                                             *)
(***************************************************************************)
\* __aenter__: the transactions of the process enter one at a time.
EnterBlock(t) ==
    /\ backend = "tidb" /\ t \in Blocks /\ task[t].pc = "start" /\ txlock = None
    /\ txlock' = t
    /\ Goto(t, "acquire")
    /\ UNCHANGED <<backend, committed, pending, pools, txconn, broken, intx, closed>>

\* execute, execute_rowcount, fetchone and fetchall all run one statement.
StartStatement(t) ==
    /\ backend = "tidb" /\ t \in Singles /\ task[t].pc = "start"
    /\ Goto(t, "acquire")
    /\ UNCHANGED <<backend, committed, pending, pools, tx, intx, closed>>

\* Under _pool_lock: take the pool and count the borrower, or build the pool
\* while the lock is held.
TakePool(t) ==
    \/ /\ pool # 0
       /\ Become(t, [task[t] EXCEPT !.pc = "connect", !.pool = pool])
       /\ busy' = busy + 1
       /\ UNCHANGED <<pool, reaped, creating>>
    \/ /\ pool = 0
       /\ Goto(t, "creating")
       /\ creating' = t
       /\ UNCHANGED <<pool, reaped, busy>>

\* Mutant: the bound transaction is ignored.
AcquireFromPool(t) ==
    /\ task[t].pc = "acquire" /\ backend = "tidb" /\ creating = None
    /\ TakePool(t)
    /\ UNCHANGED <<backend, committed, pending, tx, intx, closed>>

\* _acquire.  _tx_conn is looked at before the lock is waited for.
Acquire(t) ==
    /\ task[t].pc = "acquire" /\ backend = "tidb"
    /\ \/ /\ txconn # None
          /\ Become(t, [task[t] EXCEPT !.pc = "run", !.on = txconn])
          /\ UNCHANGED pools
       \/ /\ txconn = None /\ creating = None
          /\ TakePool(t)
       \/ /\ txconn = None /\ creating # None
          /\ Goto(t, "getpool")
          /\ UNCHANGED pools
    /\ UNCHANGED <<backend, committed, pending, tx, intx, closed>>

GetPool(t) ==
    /\ task[t].pc = "getpool" /\ creating = None
    /\ TakePool(t)
    /\ UNCHANGED <<backend, committed, pending, tx, intx, closed>>

\* A pool nobody holds a reference to: its name may be used again.
NewPool == CHOOSE p \in Pools : p \notin reaped /\ \A t \in Tasks : task[t].pool # p /\ task[t].home # p

\* _create_pool_locked and the rest of the locked section.
PoolMade(t) ==
    /\ creating = t /\ task[t].pc = "creating"
    /\ pool' = NewPool /\ creating' = None /\ busy' = busy + 1
    /\ Become(t, [task[t] EXCEPT !.pc = "connect", !.pool = NewPool])
    /\ UNCHANGED <<backend, committed, pending, reaped, tx, intx, closed>>

PoolRefused(t) ==
    /\ creating = t /\ task[t].pc = "creating"
    /\ creating' = None
    /\ GivesUp(t)
    /\ txlock' = LeaveLock(t)
    /\ UNCHANGED <<backend, committed, pending, pool, reaped, busy, txconn, broken, intx, closed>>

\* The connections of pool p that are out.
Borrowed(p) ==
    {t \in Tasks : task[t].home = p \/ (task[t].pool = p /\ task[t].pc \in {"begin", "run"})}

\* pool.acquire waits for a free connection.
Connect(t) ==
    /\ task[t].pc = "connect" /\ Cardinality(Borrowed(task[t].pool)) < PoolSize
    /\ Goto(t, IF task[t].at = 0 THEN "begin" ELSE "run")
    /\ UNCHANGED <<backend, committed, pending, pools, tx, intx, closed>>

ConnectFails(t) ==
    /\ task[t].pc = "connect"
    /\ busy' = busy - 1
    /\ GivesUp(t)
    /\ txlock' = LeaveLock(t)
    /\ UNCHANGED <<backend, committed, pending, pool, reaped, creating, txconn, broken, intx, closed>>

\* _open_tx_conn: BEGIN, then the connection is bound.
BindTx(t) ==
    /\ task[t].pc = "begin" /\ backend = "tidb"
    /\ txconn' = t /\ broken' = FALSE
    /\ Become(t, [pc |-> "acquire", at |-> 1, try |-> 1, pool |-> 0, home |-> task[t].pool, on |-> task[t].on])
    /\ UNCHANGED <<backend, committed, pending, pools, txlock, intx, closed>>

\* BEGIN meets a dead connection: it is released before the retry.
BeginFails(t) ==
    /\ task[t].pc = "begin" /\ backend = "tidb"
    /\ busy' = busy - 1
    /\ GivesUp(t)
    /\ txlock' = LeaveLock(t)
    /\ UNCHANGED <<backend, committed, pending, pool, reaped, creating, txconn, broken, intx, closed>>

\* _discard_pool, and the second attempt.
Discard(t) ==
    /\ task[t].pc = "discard" /\ backend = "tidb" /\ creating = None
    /\ pool' = 0
    /\ Become(t, [task[t] EXCEPT !.pc = "acquire", !.try = 2])
    /\ UNCHANGED <<backend, committed, pending, reaped, busy, creating, tx, intx, closed>>

(***************************************************************************)
(* TiDB: statements                                                         *)
(***************************************************************************)
\* A statement on a connection of its own is committed by itself; when the
\* connection is lost it may have been applied.
RunAlone(t) ==
    /\ task[t].pc = "run" /\ backend = "tidb" /\ task[t].pool # 0
    /\ busy' = busy - 1
    /\ \/ /\ committed' = [committed EXCEPT ![t] = @ + 1]
          /\ Become(t, Answered(task[t]))
       \/ /\ committed' \in {committed, [committed EXCEPT ![t] = @ + 1]}
          /\ Become(t, Lost(task[t]))
       \/ /\ committed' = committed
          /\ Become(t, Raised(task[t]))
    /\ UNCHANGED <<backend, pending, pool, reaped, creating, tx, intx, closed>>

\* A statement on the bound connection joins the transaction, whoever runs it.
RunInTx(t) ==
    /\ task[t].pc = "run" /\ backend = "tidb" /\ task[t].pool = 0 /\ task[t].on = txconn
    /\ \/ /\ ~broken
          /\ pending' = [pending EXCEPT ![t] = @ + 1]
          /\ Become(t, Answered(task[t]))
          /\ UNCHANGED broken
       \/ /\ broken' = TRUE
          /\ pending' = [u \in Tasks |-> 0]
          /\ Become(t, Lost(task[t]))
       \/ /\ ~broken
          /\ Become(t, Raised(task[t]))
          /\ UNCHANGED <<pending, broken>>
    /\ UNCHANGED <<backend, committed, pools, txlock, txconn, intx, closed>>

\* The transaction ended between _acquire and the statement: its connection is
\* back in the pool, alone or in the hands of the next transaction.
RunAfterTx(t) ==
    /\ task[t].pc = "run" /\ backend = "tidb" /\ task[t].pool = 0 /\ task[t].on # txconn
    /\ \/ /\ committed' = [committed EXCEPT ![t] = @ + 1]
          /\ Become(t, Answered(task[t]))
          /\ UNCHANGED pending
       \/ /\ txconn # None /\ ~broken
          /\ pending' = [pending EXCEPT ![t] = @ + 1]
          /\ Become(t, Answered(task[t]))
          /\ UNCHANGED committed
       \/ /\ GivesUp(t)
          /\ UNCHANGED <<committed, pending>>
    /\ UNCHANGED <<backend, pools, tx, intx, closed>>

\* __aexit__: commit or roll back, unbind, release to the pool it came from,
\* and let the next transaction in.
Unbind(t) ==
    /\ txconn' = None /\ broken' = FALSE /\ txlock' = None /\ busy' = busy - 1
    /\ pending' = [u \in Tasks |-> 0]
    /\ UNCHANGED <<backend, pool, reaped, creating, intx, closed>>

CommitTx(t) ==
    /\ task[t].pc = "close" /\ backend = "tidb"
    /\ \/ /\ ~broken
          /\ committed' = [u \in Tasks |-> committed[u] + pending[u]]
          /\ Become(t, [task[t] EXCEPT !.pc = "done", !.home = 0])
       \/ /\ \/ committed' = committed
             \/ ~broken /\ committed' = [u \in Tasks |-> committed[u] + pending[u]]
          /\ Become(t, [task[t] EXCEPT !.pc = "failed", !.home = 0])
    /\ Unbind(t)

RollbackTx(t) ==
    /\ task[t].pc = "abort" /\ backend = "tidb"
    /\ committed' = committed
    /\ Become(t, [task[t] EXCEPT !.pc = "failed", !.home = 0])
    /\ Unbind(t)

\* Mutant: the reaper does not look at the borrowers.
ReapAnyway ==
    /\ backend = "tidb" /\ ~closed /\ Cardinality(reaped) < MaxReaps
    /\ creating = None /\ pool # 0 /\ txconn = None
    /\ reaped' = reaped \cup {pool} /\ pool' = 0
    /\ UNCHANGED <<backend, task, committed, pending, busy, creating, tx, intx, closed>>

(***************************************************************************)
(* TiDB: the idle reaper and shutdown                                       *)
(***************************************************************************)
Reap ==
    /\ backend = "tidb" /\ ~closed /\ Cardinality(reaped) < MaxReaps
    /\ creating = None /\ pool # 0 /\ busy = 0 /\ txconn = None
    /\ reaped' = reaped \cup {pool} /\ pool' = 0
    /\ UNCHANGED <<backend, task, committed, pending, busy, creating, tx, intx, closed>>

\* close: the reaper stops and the current pool is closed.
CloseStore ==
    /\ backend = "tidb" /\ ~closed /\ creating = None
    /\ closed' = TRUE /\ pool' = 0
    /\ UNCHANGED <<backend, task, committed, pending, reaped, busy, creating, tx, intx>>

(***************************************************************************)
(* SQLite: one connection, shared                                           *)
(***************************************************************************)
Flush == committed' = [u \in Tasks |-> committed[u] + pending[u]] /\ pending' = [u \in Tasks |-> 0]

\* _SqliteTransaction.__aenter__: whatever is open is committed first.
SqliteEnter(t) ==
    /\ backend = "sqlite" /\ t \in Blocks /\ task[t].pc = "start"
    /\ Flush /\ intx' = FALSE
    /\ Goto(t, "begin")
    /\ UNCHANGED <<backend, pools, tx, closed>>

\* BEGIN fails when another task opened a transaction in between.
SqliteBegin(t) ==
    /\ backend = "sqlite" /\ task[t].pc = "begin"
    /\ \/ ~intx /\ intx' = TRUE /\ Become(t, [task[t] EXCEPT !.pc = "run", !.at = 1])
       \/ intx /\ UNCHANGED intx /\ Goto(t, "failed")
    /\ UNCHANGED <<backend, committed, pending, pools, tx, closed>>

SqliteStart(t) ==
    /\ backend = "sqlite" /\ t \in Singles /\ task[t].pc = "start"
    /\ Goto(t, "run")
    /\ UNCHANGED <<backend, committed, pending, pools, tx, intx, closed>>

\* execute, first half: db.execute.
SqliteRun(t) ==
    /\ backend = "sqlite" /\ task[t].pc = "run"
    /\ \/ /\ pending' = [pending EXCEPT ![t] = @ + 1] /\ intx' = TRUE
          /\ Goto(t, "commit")
       \/ /\ Goto(t, IF t \in Blocks THEN "abort" ELSE "failed")
          /\ UNCHANGED <<pending, intx>>
    /\ UNCHANGED <<backend, committed, pools, tx, closed>>

\* execute, second half: db.commit, in a block as well.
SqliteCommit(t) ==
    /\ backend = "sqlite" /\ task[t].pc = "commit"
    /\ Flush /\ intx' = FALSE
    /\ Become(t, [task[t] EXCEPT !.pc = IF t \in Singles THEN "done" ELSE IF task[t].at = 1 THEN "run" ELSE "close",
                                 !.at = IF t \in Singles THEN 1 ELSE @ + 1])
    /\ UNCHANGED <<backend, pools, tx, closed>>

\* _SqliteTransaction.__aexit__.
SqliteExit(t) ==
    /\ backend = "sqlite"
    /\ \/ task[t].pc = "close" /\ Flush /\ Goto(t, "done")
       \/ task[t].pc = "abort" /\ pending' = [u \in Tasks |-> 0] /\ UNCHANGED committed /\ Goto(t, "failed")
    /\ intx' = FALSE
    /\ UNCHANGED <<backend, pools, tx, closed>>

(***************************************************************************)
(* D1: a request per statement                                              *)
(***************************************************************************)
\* _NoopTransaction: entering and leaving a block does nothing.
D1Start(t) ==
    /\ backend = "d1" /\ task[t].pc = "start"
    /\ Become(t, [task[t] EXCEPT !.pc = "run", !.at = 1])
    /\ UNCHANGED <<backend, committed, pending, pools, tx, intx, closed>>

\* One attempt of _raw: answered, lost before or after it was applied and sent
\* again, or refused.
D1Applied(t) == [committed EXCEPT ![t] = IF t \in Blocks THEN task[t].at ELSE @ + 1]
D1Run(t) ==
    LET more == t \in Blocks /\ task[t].at = 1
    IN  /\ backend = "d1" /\ task[t].pc = "run"
        /\ \/ /\ committed' = D1Applied(t)
              /\ Become(t, [task[t] EXCEPT !.pc = IF more THEN "run" ELSE "done",
                                           !.at = IF more THEN 2 ELSE @, !.try = 1])
           \/ /\ committed' \in {committed, D1Applied(t)}
              /\ Become(t, [task[t] EXCEPT !.pc = IF task[t].try = 1 THEN "run" ELSE "failed",
                                           !.try = IF task[t].try = 1 THEN 2 ELSE 1])
           \/ /\ Goto(t, "failed") /\ UNCHANGED committed
        /\ UNCHANGED <<backend, pending, pools, tx, intx, closed>>

\* What the task itself and the server it waits for do.
Moves(t) ==
    \/ EnterBlock(t) \/ StartStatement(t) \/ Acquire(t) \/ GetPool(t) \/ PoolMade(t)
    \/ Connect(t) \/ BindTx(t) \/ Discard(t)
    \/ RunAlone(t) \/ RunInTx(t) \/ RunAfterTx(t) \/ CommitTx(t) \/ RollbackTx(t)
    \/ SqliteEnter(t) \/ SqliteBegin(t) \/ SqliteStart(t) \/ SqliteRun(t) \/ SqliteCommit(t) \/ SqliteExit(t)
    \/ D1Start(t) \/ D1Run(t)

\* The errors that may end a wait for a connection or for BEGIN, and need not.
Faults(t) == PoolRefused(t) \/ ConnectFails(t) \/ BeginFails(t)

Next == (\E t \in Tasks : Moves(t) \/ Faults(t)) \/ Reap \/ CloseStore

Spec == Init /\ [][Next]_vars

\* A statement that was sent is answered or its connection breaks.  No fault is
\* fair: pool.acquire() has no timeout, so a task that waits there goes on only
\* when a connection comes back, and one that waits for a lock when it is free.
Fairness == \A t \in Tasks : WF_vars(Moves(t))
FairSpec == Spec /\ Fairness

(***************************************************************************)
(* Properties                                                               *)
(***************************************************************************)
\* The reaper never closes a pool somebody has borrowed from or is borrowing
\* from, and the count it relies on is the number of borrowers at every moment,
\* failed BEGINs and replaced pools included (_acquire, _idle_reaper).
ReaperSparesBorrowers ==
    /\ busy = Cardinality({t \in Tasks : task[t].pool # 0 \/ task[t].home # 0})
    /\ \A t \in Tasks : task[t].pool \notin reaped /\ task[t].home \notin reaped

\* On TiDB a block is in the database as a whole or not at all, whatever other
\* tasks, lost connections and pool changes do meanwhile (_TiDBTransaction).
TransactionIsAtomic == backend = "tidb" => \A t \in Blocks : committed[t] # 1

\* On SQLite "any exception rolls back the whole block".
FailedBlockLeavesNothing ==
    backend = "sqlite" => \A t \in Blocks : task[t].pc = "failed" => committed[t] = 0

\* Every statement and every block ends, without any error or timeout having to
\* free it: there is no cycle of waits between _tx_lock, _pool_lock and the
\* connections of a pool (_acquire, _TiDBTransaction.__aenter__ and __aexit__).
EveryTaskEnds == \A t \in Tasks : <>(task[t].pc \in {"done", "failed"})
=============================================================================
