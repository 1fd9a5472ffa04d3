---------------------------- MODULE BackgroundJobs ----------------------------
(***************************************************************************)
(* Detached (background=true) responses: the background_jobs table, the    *)
(* responses row and the event log of each job, the worker loop of every   *)
(* relay process that shares the database, and the enqueue and cancel      *)
(* requests those processes serve.                                         *)
(*                                                                         *)
(* One step is one statement on the database (everything between two       *)
(* awaits).  Leases and deadlines are kept as the ticks that are left, so  *)
(* "lease_until < now" is lease = 0 and "expires_at <= now" is ttl = 0;    *)
(* a job without a deadline (expires_at = 0) has ttl = -1.                 *)
(***************************************************************************)
EXTENDS Integers, Sequences

CONSTANTS
    Procs,                  \* relay processes, each with one worker loop
    Jobs,                   \* task ids (equal to the response ids)
    Null,                   \* no job in hand, no process serving
    MaxRecoveryAttempts,    \* MAX_RECOVERY_ATTEMPTS
    LeaseTicks,             \* lease length in ticks
    TTLs,                   \* deadlines an enqueue may ask for, -1 for none
    MaxChunks,              \* frames one attempt may stream before its budget trips
    MaxCrashes,             \* bound: process crashes in a behaviour
    MaxFaults,              \* bound: failing store statements in a behaviour
    Timely                  \* TRUE: a live heartbeat always beats the lease

ASSUME ConstAssumption ==
    /\ Null \notin Jobs \cup Procs
    /\ MaxRecoveryAttempts \in Nat \ {0}
    /\ LeaseTicks \in Nat \ {0}
    /\ TTLs \subseteq Int
    /\ \A t \in TTLs : t >= -1
    /\ MaxChunks \in Nat
    /\ MaxCrashes \in Nat
    /\ MaxFaults \in Nat
    /\ Timely \in BOOLEAN

VARIABLES
    job,      \* background_jobs table
    row,      \* status column of the responses table
    log,      \* response_events, one sequence per response
    w,        \* worker loop of each process: program counter and locals
    wake,     \* the asyncio.Event of each worker
    enq,      \* progress of the enqueue request of each job, and its process
    can,      \* progress of the cancel request of each job, and its process
    crashes, faults

db   == <<job, row, log>>
reqs == <<enq, can>>
env  == <<crashes, faults>>
vars == <<job, row, log, w, wake, enq, can, crashes, faults>>

(***************************************************************************)
(* State                                                                   *)
(***************************************************************************)
Active   == {"queued", "in_progress"}
Terminal == {"completed", "failed", "incomplete", "cancelled", "expired"}
Events   == {"queued", "created", "frame"} \cup Terminal

JobRow == [status : {"none"} \cup Active \cup Terminal, lease : 0..LeaseTicks,
           attempt : 0..MaxRecoveryAttempts, cancel : BOOLEAN, ttl : Int]

\* Where a worker loop stands: outside run_job, in its claiming part, in the
\* part that owns the job, and writing the terminal state.
LoopPC   == {"down", "dead", "top", "peek", "missed", "idle"}
ClaimPC  == {"expire", "mark", "finalize", "finalized", "claim", "take", "reap", "reaprow"}
StreamPC == {"start", "created", "stream", "fetch", "decide"}
FinishPC == {"close", "finrow", "finevent", "finjob"}
OwnPC    == {"check"} \cup StreamPC \cup FinishPC

\* seen: the attempt read by the claim.  out: the terminal status being
\* written.  run: the flags of _JobRun.  beat: the heartbeat task.
\* ripe: the lease had run out when run_job read the clock.
\* early: history, the cancel flag was already up when the claim succeeded.
Worker == [pc : LoopPC \cup ClaimPC \cup OwnPC, job : Jobs \cup {Null},
           seen : 0..MaxRecoveryAttempts, out : Terminal,
           run : {"run", "cancelled", "stopped"}, beat : {"none", "on", "lost", "dead"},
           chunks : 0..MaxChunks, todo : SUBSET Jobs, fin : SUBSET Jobs, ripe : BOOLEAN, early : BOOLEAN]

Idle(pc) == [pc |-> pc, job |-> Null, seen |-> 0, out |-> "completed", run |-> "run",
             beat |-> "none", chunks |-> 0, todo |-> {}, fin |-> {}, ripe |-> FALSE, early |-> FALSE]

EnqPC == {"none", "row", "event", "inserted", "done", "lost"}
CanPC == {"none", "flagged", "rowset", "done", "lost"}
Requests(PC) == [pc : PC, at : Procs \cup {Null}]

TypeOK ==
    /\ job \in [Jobs -> JobRow]
    /\ row \in [Jobs -> {"none"} \cup Active \cup Terminal]
    /\ log \in [Jobs -> Seq(Events)]
    /\ w \in [Procs -> Worker]
    /\ wake \in [Procs -> BOOLEAN]
    /\ enq \in [Jobs -> Requests(EnqPC)]
    /\ can \in [Jobs -> Requests(CanPC)]
    /\ crashes \in 0..MaxCrashes
    /\ faults \in 0..MaxFaults

Init ==
    /\ job = [j \in Jobs |-> [status |-> "none", lease |-> 0, attempt |-> 0,
                              cancel |-> FALSE, ttl |-> -1]]
    /\ row = [j \in Jobs |-> "none"]
    /\ log = [j \in Jobs |-> <<>>]
    /\ w = [p \in Procs |-> Idle("top")]
    /\ wake = [p \in Procs |-> FALSE]
    /\ enq = [j \in Jobs |-> [pc |-> "none", at |-> Null]]
    /\ can = [j \in Jobs |-> [pc |-> "none", at |-> Null]]
    /\ crashes = 0
    /\ faults = 0

Up(p) == w[p].pc # "down"
Become(p, v) == w' = [w EXCEPT ![p] = v]
Goto(p, l) == Become(p, [w[p] EXCEPT !.pc = l])
Return(p) == Become(p, Idle("top"))
SetJob(j, r) == job' = [job EXCEPT ![j] = r]
SetRow(j, s) == row' = [row EXCEPT ![j] = s]
AppendEvent(j, e) == log' = [log EXCEPT ![j] = Append(@, e)]
MarkTerminal(j, s) == SetJob(j, [job[j] EXCEPT !.status = s])
RequestCancel(j) == SetJob(j, [job[j] EXCEPT !.cancel = TRUE])

(***************************************************************************)
(* Requests served by a process: enqueue and cancel.                       *)
(***************************************************************************)
At(r, j, p, pc) == Up(p) /\ r[j] = [pc |-> pc, at |-> p]

\* One store statement fails (external: the database).
Fault == faults < MaxFaults /\ faults' = faults + 1

\* enqueue: responses row, response.queued event, job row, then notify().
EnqueueRow(j, p) ==
    /\ Up(p) /\ enq[j].pc = "none"
    /\ enq' = [enq EXCEPT ![j] = [pc |-> "row", at |-> p]]
    /\ SetRow(j, "queued")
    /\ UNCHANGED <<job, log, w, wake, can, env>>

EnqueueEvent(j, p) ==
    /\ At(enq, j, p, "row")
    /\ enq' = [enq EXCEPT ![j].pc = "event"]
    /\ AppendEvent(j, "queued")
    /\ UNCHANGED <<job, row, w, wake, can, env>>

EnqueueJob(j, p) ==
    /\ At(enq, j, p, "event")
    /\ enq' = [enq EXCEPT ![j].pc = "inserted"]
    /\ \E t \in TTLs :
          SetJob(j, [status |-> "queued", lease |-> 0, attempt |-> 0,
                     cancel |-> FALSE, ttl |-> t])
    /\ UNCHANGED <<row, log, w, wake, can, env>>

Notify(j, p) ==
    /\ At(enq, j, p, "inserted")
    /\ enq' = [enq EXCEPT ![j].pc = "done"]
    /\ wake' = [wake EXCEPT ![p] = TRUE]
    /\ UNCHANGED <<db, w, can, env>>

\* cancel: the durable flag first, then the row, then the in-process hook.
CancelFlag(j, p) ==
    /\ Up(p) /\ enq[j].pc = "done" /\ can[j].pc = "none"
    /\ can' = [can EXCEPT ![j] = [pc |-> "flagged", at |-> p]]
    /\ RequestCancel(j)
    /\ UNCHANGED <<row, log, w, wake, enq, env>>

\* A store error while raising the flag is logged and swallowed.
CancelFlagFails(j, p) ==
    /\ Fault
    /\ Up(p) /\ enq[j].pc = "done" /\ can[j].pc = "none"
    /\ can' = [can EXCEPT ![j] = [pc |-> "flagged", at |-> p]]
    /\ UNCHANGED <<db, w, wake, enq, crashes>>

CancelRow(j, p) ==
    /\ At(can, j, p, "flagged")
    /\ can' = [can EXCEPT ![j].pc = "rowset"]
    /\ SetRow(j, "cancelled")
    /\ UNCHANGED <<job, log, w, wake, enq, env>>

\* BackgroundWorker.cancel raises the flag again and stops the run if it is ours.
CancelHook(j, p) ==
    /\ At(can, j, p, "rowset")
    /\ can' = [can EXCEPT ![j].pc = "done"]
    /\ RequestCancel(j)
    /\ IF w[p].job = j /\ w[p].pc \in OwnPC
       THEN Become(p, [w[p] EXCEPT !.run = "stopped"])
       ELSE UNCHANGED w
    /\ UNCHANGED <<row, log, wake, enq, env>>

\* A store error ends the request: an enqueue leaves what it wrote behind, a
\* cancel has raised the flag only.  An error of the in-process hook is logged
\* and the request goes on.
RequestFails(j, p) ==
    /\ Fault
    /\ \/ /\ At(enq, j, p, "row") \/ At(enq, j, p, "event")
          /\ enq' = [enq EXCEPT ![j].pc = "lost"]
          /\ UNCHANGED can
       \/ /\ At(can, j, p, "flagged")
          /\ can' = [can EXCEPT ![j].pc = "lost"]
          /\ UNCHANGED enq
       \/ /\ At(can, j, p, "rowset")
          /\ can' = [can EXCEPT ![j].pc = "done"]
          /\ UNCHANGED enq
    /\ UNCHANGED <<db, w, wake, crashes>>

(***************************************************************************)
(* The worker loop: start() clears the wake event, peeks, and either waits *)
(* or hands the peeked job to run_job().                                   *)
(***************************************************************************)
\* SELECT ... ORDER BY created_at, task_id LIMIT 1 returns one claimable job;
\* the model lets it be any of them, no property depends on which.
Claimable(j) ==
    /\ job[j].status \in Active
    /\ job[j].lease = 0
    /\ job[j].ttl # 0
    /\ job[j].attempt < MaxRecoveryAttempts

ClearWake(p) ==
    /\ w[p].pc = "top"
    /\ wake' = [wake EXCEPT ![p] = FALSE]
    /\ Goto(p, "peek")
    /\ UNCHANGED <<db, reqs, env>>

PeekHit(p) ==
    /\ w[p].pc = "peek"
    /\ \E j \in Jobs : Claimable(j) /\ Become(p, [w[p] EXCEPT !.pc = "expire", !.job = j])
    /\ UNCHANGED <<db, wake, reqs, env>>

PeekMiss(p) ==
    /\ w[p].pc = "peek"
    /\ \A j \in Jobs : ~Claimable(j)
    /\ Goto(p, "missed")
    /\ UNCHANGED <<db, wake, reqs, env>>

\* Mutant: the event is cleared after the peek, as the wait begins.
SleepClearing(p) ==
    /\ w[p].pc = "missed"
    /\ Goto(p, "idle")
    /\ wake' = [wake EXCEPT ![p] = FALSE]
    /\ UNCHANGED <<db, reqs, env>>

Sleep(p) ==
    /\ w[p].pc = "missed"
    /\ Goto(p, "idle")
    /\ UNCHANGED <<db, wake, reqs, env>>

\* _idle_wait returns when the event is set or the safety-net interval is over.
Woken(p) ==
    /\ w[p].pc = "idle" /\ wake[p]
    /\ Goto(p, "top")
    /\ UNCHANGED <<db, wake, reqs, env>>

\* Mutant: the idle wait has no safety-net interval.
NoSafetyNet(p) ==
    /\ w[p].pc = "down" /\ wake[p]
    /\ UNCHANGED vars

PollTimeout(p) ==
    /\ w[p].pc = "idle" /\ ~wake[p]
    /\ Goto(p, "top")
    /\ UNCHANGED <<db, wake, reqs, env>>

(***************************************************************************)
(* run_job, claiming part: expire past-deadline jobs, then claim ours.     *)
(***************************************************************************)
PastDeadline == {j \in Jobs : job[j].status \in Active /\ job[j].ttl = 0}

\* run_job reads the clock once, here: the deadline and the lease of its own
\* job are judged by this reading in the claim below as well.
ExpireSelect(p) ==
    /\ w[p].pc = "expire"
    /\ Become(p, [w[p] EXCEPT !.pc = IF PastDeadline = {} THEN "claim" ELSE "mark",
                              !.todo = PastDeadline,
                              !.ripe = (job[w[p].job].lease = 0)])
    /\ UNCHANGED <<db, wake, reqs, env>>

\* expire_stale marks every job of its SELECT before it returns their ids.
ExpireMark(p) ==
    /\ w[p].pc = "mark"
    /\ \E j \in w[p].todo :
          /\ MarkTerminal(j, "expired")
          /\ Become(p, [w[p] EXCEPT !.pc = IF w[p].todo = {j} THEN "finalize" ELSE "mark",
                                    !.todo = @ \ {j}, !.fin = @ \cup {j}])
    /\ UNCHANGED <<row, log, wake, reqs, env>>

\* _finalize_expired of one id: the row, then the event.
FinalizeRow(p) ==
    /\ w[p].pc = "finalize"
    /\ \E j \in w[p].fin :
          /\ SetRow(j, "expired")
          /\ Become(p, [w[p] EXCEPT !.pc = "finalized", !.todo = {j}, !.fin = @ \ {j}])
    /\ UNCHANGED <<job, log, wake, reqs, env>>

\* run_job returns as soon as the id it finalized is its own task.
FinalizeEvent(p) ==
    /\ w[p].pc = "finalized"
    /\ \E j \in w[p].todo :
          /\ AppendEvent(j, "expired")
          /\ IF j = w[p].job THEN Return(p)
             ELSE Become(p, [w[p] EXCEPT !.pc = IF w[p].fin = {} THEN "claim" ELSE "finalize",
                                         !.todo = {}])
    /\ UNCHANGED <<job, row, wake, reqs, env>>

Exhausted(j) ==
    /\ job[j].status \in Active
    /\ job[j].lease = 0
    /\ job[j].attempt >= MaxRecoveryAttempts

\* claim_job's SELECT for the task in hand.
Eligible(p) ==
    /\ job[w[p].job].status \in Active
    /\ w[p].ripe /\ job[w[p].job].lease = 0
    /\ job[w[p].job].attempt < MaxRecoveryAttempts

ClaimSelect(p) ==
    /\ w[p].pc = "claim" /\ Eligible(p)
    /\ Become(p, [w[p] EXCEPT !.pc = "take", !.seen = job[w[p].job].attempt])
    /\ UNCHANGED <<db, wake, reqs, env>>

\* On a miss _reap_exhausted looks at the same task only.
ClaimMiss(p) ==
    /\ w[p].pc = "claim" /\ ~Eligible(p)
    /\ IF w[p].ripe /\ Exhausted(w[p].job) THEN Goto(p, "reap") ELSE Return(p)
    /\ UNCHANGED <<db, wake, reqs, env>>

ReapJob(p) ==
    /\ w[p].pc = "reap"
    /\ MarkTerminal(w[p].job, "failed")
    /\ Goto(p, "reaprow")
    /\ UNCHANGED <<row, log, wake, reqs, env>>

ReapRow(p) ==
    /\ w[p].pc = "reaprow"
    /\ SetRow(w[p].job, "failed")
    /\ Return(p)
    /\ UNCHANGED <<job, log, wake, reqs, env>>

\* Mutant: the UPDATE's row count is not looked at and its WHERE names the task only.
ClaimUnchecked(p) == w[p].job \in Jobs

\* Mutant: the UPDATE restates the lease and not the attempt.
ClaimLeaseOnly(p) == job[w[p].job].lease = 0

\* UPDATE ... WHERE attempt = ? AND lease_until < ?
ClaimGuard(p) ==
    /\ job[w[p].job].attempt = w[p].seen
    /\ job[w[p].job].lease = 0

\* Mutant: the claim does not count the attempt.
ClaimUncounted(p) ==
    /\ w[p].pc = "take" /\ ClaimGuard(p)
    /\ SetJob(w[p].job, [job[w[p].job] EXCEPT !.status = "in_progress", !.lease = LeaseTicks])
    /\ Become(p, [w[p] EXCEPT !.pc = "check", !.early = job[w[p].job].cancel])
    /\ UNCHANGED <<row, log, wake, reqs, env>>

ClaimUpdate(p) ==
    /\ w[p].pc = "take" /\ ClaimGuard(p)
    /\ SetJob(w[p].job, [job[w[p].job] EXCEPT !.status = "in_progress", !.lease = LeaseTicks,
                                              !.attempt = w[p].seen + 1])
    /\ Become(p, [w[p] EXCEPT !.pc = "check", !.early = job[w[p].job].cancel])
    /\ UNCHANGED <<row, log, wake, reqs, env>>

ClaimLost(p) ==
    /\ w[p].pc = "take" /\ ~ClaimGuard(p)
    /\ Return(p)
    /\ UNCHANGED <<db, wake, reqs, env>>

(***************************************************************************)
(* run_job, owning part: the cancel pre-check, then _execute and _stream.  *)
(***************************************************************************)
\* Mutant: cancellation is looked at in the round boundaries only.
PreCheckSkipped(p) ==
    /\ w[p].pc = "check"
    /\ Become(p, [w[p] EXCEPT !.pc = "start", !.beat = "on"])
    /\ UNCHANGED <<db, wake, reqs, env>>

PreCheck(p) ==
    /\ w[p].pc = "check"
    /\ IF job[w[p].job].cancel
       THEN Become(p, [w[p] EXCEPT !.pc = "close", !.run = "cancelled", !.out = "cancelled"])
       ELSE Become(p, [w[p] EXCEPT !.pc = "start", !.beat = "on"])
    /\ UNCHANGED <<db, wake, reqs, env>>

ExecuteRow(p) ==
    /\ w[p].pc = "start"
    /\ SetRow(w[p].job, "in_progress")
    /\ Goto(p, "created")
    /\ UNCHANGED <<job, log, wake, reqs, env>>

\* response.created and response.in_progress, appended back to back.
ExecuteEvents(p) ==
    /\ w[p].pc = "created"
    /\ AppendEvent(w[p].job, "created")
    /\ Goto(p, "stream")
    /\ UNCHANGED <<job, row, wake, reqs, env>>

\* The ways _stream ends with a reason: the budget tripped or an exception.
Finish(p, s) == Become(p, [w[p] EXCEPT !.pc = "close", !.out = s])

\* Round boundary: stop_scheduling, then cancellation, then the wall clock.
StreamBoundary(p) ==
    /\ w[p].pc = "stream"
    /\ \/ /\ w[p].run = "stopped"
          /\ Goto(p, "decide") \/ Finish(p, "incomplete")
       \/ /\ w[p].run # "stopped"
          /\ w[p].run = "cancelled" \/ job[w[p].job].cancel
          /\ Become(p, [w[p] EXCEPT !.pc = "decide", !.run = "cancelled"])
       \/ /\ w[p].run = "run" /\ ~job[w[p].job].cancel
          /\ Goto(p, "fetch") \/ Finish(p, "incomplete")
    /\ UNCHANGED <<db, wake, reqs, env>>

\* Mutant: a chunk is not charged to the budget.
FetchUncharged(p) ==
    /\ w[p].pc = "fetch"
    /\ AppendEvent(w[p].job, "frame")
    /\ Become(p, [w[p] EXCEPT !.pc = "stream", !.chunks = @ + 1])
    /\ UNCHANGED <<job, row, wake, reqs, env>>

\* _fetch_chunk and _charge_chunk: one more frame while the budget lasts ...
FetchChunk(p) ==
    /\ w[p].pc = "fetch" /\ w[p].chunks < MaxChunks
    /\ AppendEvent(w[p].job, "frame")
    /\ Become(p, [w[p] EXCEPT !.pc = "stream", !.chunks = @ + 1])
    /\ UNCHANGED <<job, row, wake, reqs, env>>

\* ... the end of the stream, a budget trip, or an upstream error.
FetchEnd(p) ==
    /\ w[p].pc = "fetch"
    /\ Goto(p, "decide") \/ Finish(p, "incomplete") \/ Finish(p, "failed")
    /\ UNCHANGED <<db, wake, reqs, env>>

Decide(p) ==
    /\ w[p].pc = "decide"
    /\ Finish(p, IF w[p].run # "run" \/ job[w[p].job].cancel THEN "cancelled" ELSE "completed")
    /\ UNCHANGED <<db, wake, reqs, env>>

(***************************************************************************)
(* _trip and _finish_*: close the open items, write the row, append the    *)
(* terminal event, and only then make the job terminal.                    *)
(***************************************************************************)
CloseItems(p) ==
    /\ w[p].pc = "close"
    /\ IF w[p].chunks > 0 THEN AppendEvent(w[p].job, "frame") ELSE UNCHANGED log
    /\ Become(p, [w[p] EXCEPT !.pc = "finrow", !.chunks = 0])
    /\ UNCHANGED <<job, row, wake, reqs, env>>

FinishRow(p) ==
    /\ w[p].pc = "finrow"
    /\ SetRow(w[p].job, w[p].out)
    /\ Goto(p, "finevent")
    /\ UNCHANGED <<job, log, wake, reqs, env>>

\* Mutant: the terminal event goes to the live stream only.
TerminalNotPersisted(p) ==
    /\ w[p].pc = "finevent"
    /\ Goto(p, "finjob")
    /\ UNCHANGED <<db, wake, reqs, env>>

PersistTerminal(p) ==
    /\ w[p].pc = "finevent"
    /\ AppendEvent(w[p].job, w[p].out)
    /\ Goto(p, "finjob")
    /\ UNCHANGED <<job, row, wake, reqs, env>>

FinishJob(p) ==
    /\ w[p].pc = "finjob"
    /\ MarkTerminal(w[p].job, w[p].out)
    /\ Return(p)
    /\ UNCHANGED <<row, log, wake, reqs, env>>

(***************************************************************************)
(* The heartbeat task of a run.  renew_lease looks at the status and the   *)
(* lease of the row, not at who holds it.  Its SELECT and UPDATE are one   *)
(* step: the UPDATE repeats the lease that was read, so a change between   *)
(* the two leaves the row alone and the heartbeat goes on.                 *)
(***************************************************************************)
Beating(p) == w[p].pc \in OwnPC /\ w[p].beat = "on"

Renewable(j) == job[j].status \in Active /\ job[j].lease > 0

Renew(p) ==
    /\ Beating(p) /\ Renewable(w[p].job)
    /\ SetJob(w[p].job, [job[w[p].job] EXCEPT !.lease = LeaseTicks])
    /\ UNCHANGED <<row, log, w, wake, reqs, env>>

RenewRefused(p) ==
    /\ Beating(p) /\ ~Renewable(w[p].job)
    /\ Become(p, [w[p] EXCEPT !.beat = "lost", !.run = IF @ = "run" THEN "cancelled" ELSE @])
    /\ UNCHANGED <<db, wake, reqs, env>>

(***************************************************************************)
(* Store errors.  Inside run_job's try they end the run as failed; a run   *)
(* that is already failing, the claiming part, the pre-check and the peek  *)
(* have no handler, so the exception ends the loop's task.                 *)
(***************************************************************************)
Guarded(p) ==
    /\ w[p].pc \in StreamPC \cup FinishPC
    /\ w[p].beat # "none"

Failing(p) == w[p].pc \in FinishPC /\ w[p].out = "failed"

RunRaises(p) ==
    /\ Fault
    /\ Guarded(p)
    /\ \/ ~Failing(p) /\ Finish(p, "failed")
       \/ Failing(p) /\ w[p].pc = "close" /\ Goto(p, "finrow")
    /\ UNCHANGED <<db, wake, reqs, crashes>>

LoopDies(p) ==
    /\ Fault
    /\ \/ w[p].pc \in {"peek", "check"} \cup ClaimPC
       \/ w[p].pc \in FinishPC /\ ~Guarded(p)
       \/ Failing(p) /\ w[p].pc # "close"
    /\ Become(p, Idle("dead"))
    /\ UNCHANGED <<db, wake, reqs, crashes>>

\* _heartbeat handles its own cancellation only.
HeartbeatDies(p) ==
    /\ Fault
    /\ Beating(p)
    /\ Become(p, [w[p] EXCEPT !.beat = "dead"])
    /\ UNCHANGED <<db, wake, reqs, crashes>>

(***************************************************************************)
(* Crash, shutdown and restart, and time.                                  *)
(***************************************************************************)
Lost(r, p, open) ==
    [j \in Jobs |-> IF r[j].at = p /\ r[j].pc \in open THEN [r[j] EXCEPT !.pc = "lost"] ELSE r[j]]

\* kill -9, and also stop_background_tasks: it cancels the loop's task right
\* after stop(), and the cancellation leaves run_job without a terminal state.
Crash(p) ==
    /\ crashes < MaxCrashes
    /\ Up(p)
    /\ crashes' = crashes + 1
    /\ Become(p, Idle("down"))
    /\ wake' = [wake EXCEPT ![p] = FALSE]
    /\ enq' = Lost(enq, p, {"row", "event", "inserted"})
    /\ can' = Lost(can, p, {"flagged", "rowset"})
    /\ UNCHANGED <<db, faults>>

Restart(p) ==
    /\ w[p].pc = "down"
    /\ Goto(p, "top")
    /\ UNCHANGED <<db, wake, reqs, env>>

\* A live heartbeat (30 s) renews well before the lease (300 s) runs out,
\* unless the process is stalled, which Timely = FALSE allows.
LeaseSafe(p) ==
    (w[p].pc \in OwnPC /\ w[p].beat \in {"none", "on"}) => job[w[p].job].lease # 1

Dec(n) == IF n > 0 THEN n - 1 ELSE n

Tick ==
    /\ \E j \in Jobs : job[j].lease > 0 \/ job[j].ttl > 0
    /\ Timely => \A p \in Procs : LeaseSafe(p)
    /\ job' = [j \in Jobs |-> [job[j] EXCEPT !.lease = Dec(@), !.ttl = Dec(@)]]
    /\ UNCHANGED <<row, log, w, wake, reqs, env>>

(***************************************************************************)
(* The specification.                                                      *)
(***************************************************************************)
Enqueue(j, p) == EnqueueEvent(j, p) \/ EnqueueJob(j, p) \/ Notify(j, p)
Cancel(j, p)  == CancelRow(j, p) \/ CancelHook(j, p)

Poll(p)   == ClearWake(p) \/ PeekHit(p) \/ PeekMiss(p) \/ Sleep(p)
             \/ Woken(p) \/ PollTimeout(p)
Expire(p) == ExpireSelect(p) \/ ExpireMark(p) \/ FinalizeRow(p) \/ FinalizeEvent(p)
Claim(p)  == ClaimSelect(p) \/ ClaimMiss(p) \/ ReapJob(p) \/ ReapRow(p)
             \/ ClaimUpdate(p) \/ ClaimLost(p)
Stream(p) == PreCheck(p) \/ ExecuteRow(p) \/ ExecuteEvents(p) \/ StreamBoundary(p)
             \/ FetchChunk(p) \/ FetchEnd(p) \/ Decide(p)
Settle(p) == CloseItems(p) \/ FinishRow(p) \/ PersistTerminal(p) \/ FinishJob(p)

WorkerStep(p) == Poll(p) \/ Expire(p) \/ Claim(p) \/ Stream(p) \/ Settle(p)
Heartbeat(p)  == Renew(p) \/ RenewRefused(p)

Next ==
    \/ \E j \in Jobs, p \in Procs :
          \/ EnqueueRow(j, p) \/ Enqueue(j, p)
          \/ CancelFlag(j, p) \/ CancelFlagFails(j, p) \/ Cancel(j, p)
          \/ RequestFails(j, p)
    \/ \E p \in Procs : WorkerStep(p) \/ Heartbeat(p)
    \/ \E p \in Procs : RunRaises(p) \/ LoopDies(p) \/ HeartbeatDies(p) \/ Crash(p) \/ Restart(p)
    \/ Tick

Spec == Init /\ [][Next]_vars

\* A started request and a running task are scheduled again and again by the
\* event loop, the clock advances, and the service manager restarts a process.
\* New requests, crashes and store errors need not happen.
Fairness ==
    /\ \A j \in Jobs, p \in Procs : WF_vars(Enqueue(j, p)) /\ WF_vars(Cancel(j, p))
    /\ \A p \in Procs : WF_vars(WorkerStep(p)) /\ WF_vars(Heartbeat(p)) /\ WF_vars(Restart(p))
    /\ WF_vars(Tick)

FairSpec == Spec /\ Fairness

(***************************************************************************)
(* Properties                                                              *)
(***************************************************************************)
Owns(p, j) == w[p].pc \in OwnPC /\ w[p].job = j

\* claim_job "hands one job to exactly one worker": while heartbeats are timely
\* two processes drive the same job only if a store error killed the heartbeat
\* of one of them or the job was taken from it by an expiry.
ExclusiveRun ==
    Timely =>
      \A p, q \in Procs : \A j \in Jobs :
         /\ p # q /\ Owns(p, j) /\ Owns(q, j)
         => w[p].beat \in {"lost", "dead"} \/ w[q].beat \in {"lost", "dead"}

\* Every attempt number is handed out once, whatever happens between a
\* process's SELECT and its UPDATE: two runs of one job hold different numbers,
\* and none holds a number beyond MAX_RECOVERY_ATTEMPTS.
AttemptsDistinct ==
    \A p \in Procs : w[p].pc \in OwnPC =>
        /\ w[p].seen < job[w[p].job].attempt
        /\ \A q \in Procs : p # q /\ Owns(q, w[p].job) => w[p].seen # w[q].seen

\* start() clears the wake event before it peeks and enqueue notifies after it
\* inserts: a loop never sleeps on a fresh job its own process has announced.
NoLostWakeup ==
    \A p \in Procs : w[p].pc = "idle" /\ ~wake[p] =>
        \A j \in Jobs : ~ /\ enq[j] = [pc |-> "done", at |-> p]
                          /\ job[j].status = "queued" /\ job[j].ttl # 0

\* A job whose cancel flag was up when it was claimed (cancelled in the queue,
\* or between a crash and its recovery) never writes in_progress or streams.
CancelledBeforeClaimNeverStreams ==
    \A p \in Procs : w[p].pc \in StreamPC => ~w[p].early

\* The order row, event, job in _trip and _finish_*: once a run has made the
\* job row terminal a reader finds a terminal response row and the log ends
\* with the terminal event of that status, whatever crashed or failed on the
\* way, unless a store error killed the heartbeat of a live run (a second run
\* may then write after the first has ended the job).  Expiry and the reaper
\* write the job before the row, the reaper writes no event, and an expiry by
\* another process may overtake the end of a run, so their jobs are left out.
SettledJobIsReadable ==
    \A j \in Jobs :
        /\ job[j].status \in Terminal \ {"expired"}
        /\ \A i \in 1..Len(log[j]) : log[j][i] # "expired"
        /\ ~(job[j].status = "failed" /\ job[j].attempt = MaxRecoveryAttempts)
        => /\ row[j] \in Terminal
           /\ log[j] # <<>> /\ log[j][Len(log[j])] = job[j].status

\* Every job whose enqueue answered ends in a terminal job row, a terminal
\* response row and a log that ends with a terminal event, as long as it loses
\* fewer than MAX_RECOVERY_ATTEMPTS runs to crashes and the store answers.
EventuallySettles ==
    \A j \in Jobs : enq[j].pc = "done" ~>
        (job[j].status \in Terminal /\ row[j] \in Terminal /\ log[j][Len(log[j])] \in Terminal)

\* The job table implements JobLifecycle: with timely heartbeats, no deadlines
\* and no store errors a job moves only along queued, in_progress, ended, is
\* handed out at most MAX_RECOVERY_ATTEMPTS times and never leaves its end,
\* although mark_terminal tests nothing and claim_job reads and writes in two
\* statements.
Lifecycle == INSTANCE JobLifecycle WITH
    MaxAttempts <- MaxRecoveryAttempts,
    status <- [j \in Jobs |-> job[j].status],
    attempt <- [j \in Jobs |-> job[j].attempt]

ImplementsLifecycle == Lifecycle!Spec

\* background_jobs.py, "Once it reaches MAX_RECOVERY_ATTEMPTS the job is no longer
\* claimable and the next poll marks it failed".
ExhaustedIsReaped == \A j \in Jobs : Exhausted(j) ~> job[j].status = "failed"
===============================================================================
