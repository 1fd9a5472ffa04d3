------------------------------ MODULE MCStorage ------------------------------
(***************************************************************************)
(* The parts of the storage layer, each on its own: statements and           *)
(* transactions on a backend, the migrations of a start, the retention pass.  *)
(* A behaviour exercises one of them while the other two are at rest.        *)
(***************************************************************************)
EXTENDS SqlStore
CONSTANTS b1, b2, s1, Dialects, Databases, MaxCrashes, Responses, Batch, MaxFailures
VARIABLES dialect, disk, work, open, phase, legacy, todo, crashes,
          rows, maker, job, age, at, take, early, full, running, failures

Mig == INSTANCE Migrations
Ret == INSTANCE Retention

MCBlocks == {b1, b2}
MCSingles == {s1}
MCBackends == {"tidb", "sqlite", "d1"}
MCDialects == {"sqlite", "mysql", "d1"}
Supported == {"fresh", "legacy", "rewritten", "unversioned"}
Outdated == {"outdated"}

StoreAtRest ==
    /\ backend = CHOOSE b \in Backends : TRUE
    /\ task = [t \in Tasks |-> [pc |-> "done", at |-> 1, try |-> 1, pool |-> 0, home |-> 0, on |-> None]]
    /\ committed = [t \in Tasks |-> 0] /\ pending = [t \in Tasks |-> 0]
    /\ pool = 0 /\ reaped = {} /\ busy = 0 /\ creating = None
    /\ txlock = None /\ txconn = None /\ broken = FALSE /\ intx = FALSE /\ closed = TRUE

migvars == <<dialect, disk, work, open, phase, legacy, todo, crashes>>
retvars == <<rows, maker, job, age, at, take, early, full, running, failures>>

MCInit ==
    \/ Init /\ Mig!AtRest /\ Ret!AtRest
    \/ StoreAtRest /\ Mig!Init /\ Ret!AtRest
    \/ StoreAtRest /\ Mig!AtRest /\ Ret!Init

MCNext ==
    \/ Next /\ UNCHANGED <<migvars, retvars>>
    \/ Mig!Next /\ UNCHANGED <<vars, retvars>>
    \/ Ret!Next /\ UNCHANGED <<vars, migvars>>

MCSpec == MCInit /\ [][MCNext]_<<vars, migvars, retvars>>
MCFairSpec == MCSpec /\ Fairness /\ Ret!Fairness

\* The start of a store, on the databases of Supported and with crashes anywhere: a
\* start that succeeds has a complete schema, and on SQLite and MySQL none is refused
\* for what it found or an earlier one left behind.
StartIsSound == Mig!ReadyMeansComplete /\ Mig!NeverLockedOut

\* The retention passes leave alone what belongs to a response that is there and
\* the job of one that still runs.
SweepSparesTheLiving == Ret!SweepSparesTheLiving

\* What a task or a pass has to do is done in the end: every statement and every block
\* ends, and the passes take all that is left of a deleted response.
StorageWorkIsFinished == EveryTaskEnds /\ Ret!OrphansAreSwept
=============================================================================
