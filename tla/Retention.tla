------------------------------- MODULE Retention -------------------------------
(***************************************************************************)
(* The retention pass (run_full_retention, early_reclaim_if_needed and the   *)
(* scheduler that repeats them) against the requests that write and delete   *)
(* the same rows meanwhile.  Every statement of the pass commits by itself,   *)
(* so requests get in between any two of them.                              *)
(*                                                                         *)
(* rows[t] is the set of responses that have rows in table t.  Of a row's     *)
(* age only the limits it passed are kept: 0 under a day, 1 past the TTL of   *)
(* the events and past the shortest TTL an early pass may use, 2 past every    *)
(* TTL.                                                                      *)
(***************************************************************************)
EXTENDS Integers, Sequences, FiniteSets

CONSTANTS
    Responses,
    Batch,          \* batch_size
    MaxFailures     \* bound on the statements of a pass that fail

VARIABLES
    rows,
    maker,      \* how far the request that makes a response has come
    job,        \* the status of its background job
    age,
    at,         \* the table the pass is at, 0 between passes
    take,       \* rows the next DELETE may take, 0 before the COUNT
    early,      \* the pass runs with scaled limits
    full,       \* the database is over the soft limit
    running,    \* the scheduler's task
    failures

vars == <<rows, maker, job, age, at, take, early, full, running, failures>>

\* The tables in the order run_full_retention goes through them.  "items" stands
\* for the children that go with their response (input items, output items,
\* chain links), "events" for the tables whose rows go by their own age
\* (events, tool executions, request logs, idempotency records).
Tables == <<"responses", "items", "events", "jobs">>
TableNames == {Tables[i] : i \in DOMAIN Tables}

\* What a request writes, in its order: the row first, its children after it.
Order == <<"responses", "items", "events", "jobs">>

TypeOK ==
    /\ rows \in [TableNames -> SUBSET Responses]
    /\ maker \in [Responses -> 0..Len(Order)] /\ age \in [Responses -> 0..2]
    /\ job \in [Responses -> {"active", "terminal"}]
    /\ at \in 0..Len(Tables) /\ take \in 0..Batch
    /\ early \in BOOLEAN /\ full \in BOOLEAN /\ running \in BOOLEAN /\ failures \in 0..MaxFailures

AtRest ==
    /\ rows = [t \in TableNames |-> {}] /\ maker = [r \in Responses |-> Len(Order)]
    /\ job = [r \in Responses |-> "terminal"] /\ age = [r \in Responses |-> 2]
    /\ at = 0 /\ take = 0 /\ early = FALSE /\ full = FALSE /\ running = FALSE /\ failures = 0

\* The database is over its limit, so that every second pass is an early one.
Init ==
    /\ rows = [t \in TableNames |-> {}] /\ maker = [r \in Responses |-> 0]
    /\ job = [r \in Responses |-> "active"] /\ age = [r \in Responses |-> 0]
    /\ at = 0 /\ take = 0 /\ early = FALSE /\ full = TRUE /\ running = TRUE /\ failures = 0

(***************************************************************************)
(* Requests                                                                 *)
(***************************************************************************)
\* create_response, then the items, the chain link, events, jobs and logs.
Write(r) ==
    /\ maker[r] < Len(Order)
    /\ rows' = [rows EXCEPT ![Order[maker[r] + 1]] = @ \cup {r}]
    /\ maker' = [maker EXCEPT ![r] = @ + 1]
    /\ UNCHANGED <<job, age, at, take, early, full, running, failures>>

\* delete_response: only the row; its children wait for the pass.
Delete(r) ==
    /\ r \in rows["responses"]
    /\ rows' = [rows EXCEPT !["responses"] = @ \ {r}]
    /\ UNCHANGED <<maker, job, age, at, take, early, full, running, failures>>

\* A background job ends.
Settle(r) ==
    /\ job[r] = "active"
    /\ job' = [job EXCEPT ![r] = "terminal"]
    /\ UNCHANGED <<rows, maker, age, at, take, early, full, running, failures>>

\* Days pass: no request takes that long to write its rows.
Age(r) ==
    /\ age[r] < 2 /\ maker[r] = Len(Order)
    /\ age' = [age EXCEPT ![r] = @ + 1]
    /\ UNCHANGED <<rows, maker, job, at, take, early, full, running, failures>>

(***************************************************************************)
(* The pass                                                                 *)
(***************************************************************************)
\* The age at which a table's rows go: scale_limits shortens every TTL, to a
\* day at least.
Limit(t) == IF early \/ t = "events" THEN 1 ELSE 2

\* Mutant: the jobs go by their age alone.
VictimsByAge(t) ==
    IF t = "items" THEN rows[t] \ rows["responses"] ELSE {r \in rows[t] : age[r] >= Limit(t)}

\* The WHERE clauses.  The arm for an explicit expires_at is left out: no row of
\* responses and no job of the relay is written with one; what has a deadline of its
\* own goes by Limit, as "events" do.
Victims(t) ==
    CASE t = "items" -> rows[t] \ rows["responses"]
      [] t = "jobs" -> {r \in rows[t] : job[r] = "terminal" /\ age[r] >= Limit(t)}
      [] OTHER -> {r \in rows[t] : age[r] >= Limit(t)}

\* Mutant: a pass ends with its first table.
AfterEndsPass(n) == 0

\* The end of a table: the next one; the end of a pass: an early one if the
\* database is over the limit, else wait for the next interval.
After(n) == IF n < Len(Tables) THEN n + 1 ELSE 0

Begin ==
    /\ running /\ at = 0
    /\ at' = 1 /\ take' = 0
    /\ early' = (full /\ ~early)
    /\ UNCHANGED <<rows, maker, job, age, full, running, failures>>

\* _delete_batched: COUNT ...
Count ==
    LET n == Cardinality(Victims(Tables[at]))
    IN  /\ at # 0 /\ take = 0
        /\ IF n = 0 THEN at' = After(at) /\ take' = 0
           ELSE take' = (IF n < Batch THEN n ELSE Batch) /\ UNCHANGED at
        /\ UNCHANGED <<rows, maker, job, age, early, full, running, failures>>

\* ... and DELETE of at most that many rows that match now; a short batch ends
\* the table.
DeleteBatch ==
    LET t == Tables[at]
    IN  /\ at # 0 /\ take # 0
        /\ \E gone \in SUBSET Victims(t) :
              /\ Cardinality(gone) = IF Cardinality(Victims(t)) < take THEN Cardinality(Victims(t)) ELSE take
              /\ rows' = [rows EXCEPT ![t] = @ \ gone]
              /\ at' = IF Cardinality(gone) < Batch THEN After(at) ELSE at
        /\ take' = 0
        /\ UNCHANGED <<maker, job, age, early, full, running, failures>>

\* A statement fails: the pass is given up, the next one begins later.
PassFails ==
    /\ at # 0 /\ failures < MaxFailures
    /\ failures' = failures + 1
    /\ at' = 0 /\ take' = 0
    /\ UNCHANGED <<rows, maker, job, age, early, full, running>>

\* RetentionScheduler.stop (the event, or the cancellation after ten seconds)
\* and start.
Stop ==
    /\ running
    /\ running' = FALSE /\ at' = 0 /\ take' = 0
    /\ UNCHANGED <<rows, maker, job, age, early, full, failures>>

Start ==
    /\ ~running /\ \E r \in Responses : maker[r] < Len(Order) \/ age[r] < 2
    /\ running' = TRUE
    /\ UNCHANGED <<rows, maker, job, age, at, take, early, full, failures>>

Pass == Begin \/ Count \/ DeleteBatch
Next ==
    \/ \E r \in Responses : Write(r) \/ Delete(r) \/ Settle(r) \/ Age(r)
    \/ Pass \/ PassFails \/ Stop \/ Start

Spec == Init /\ [][Next]_vars

\* The scheduler's task keeps running its statements.
Fairness == WF_vars(Pass)
FairSpec == Spec /\ Fairness

(***************************************************************************)
(* Properties                                                               *)
(***************************************************************************)
\* No interleaving of a pass with the writing of a response takes the items or
\* the chain link of a response that is there (the orphan sweep sees a row before
\* it can see a child), and no pass takes the job of a response that still runs.
SweepSparesTheLiving ==
    \A r \in Responses : maker[r] = Len(Order) =>
        /\ r \in rows["responses"] => r \in rows["items"]
        /\ job[r] = "active" => r \in rows["jobs"]

\* The children of a response that was deleted, by a user or by its age, are
\* deleted too, also when they were written after its row went, a statement
\* failed or the database is over its limit; unless the scheduler is stopped.
OrphansAreSwept ==
    \A r \in Responses : r \in rows["items"] \ rows["responses"] ~> (r \notin rows["items"] \/ ~running)
=============================================================================
