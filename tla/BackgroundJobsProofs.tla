------------------------- MODULE BackgroundJobsProofs -------------------------
(***************************************************************************)
(* The types of BackgroundJobs, and the safety properties that hold for    *)
(* every set of processes and jobs, every value of the bounds and any      *)
(* crashes and store errors, proved from one inductive invariant; then how *)
(* jobs end while no store error kills a heartbeat.                        *)
(***************************************************************************)
EXTENDS BackgroundJobs, TLAPS

PCs  == LoopPC \cup ClaimPC \cup OwnPC
Held == ClaimPC \cup OwnPC

\* A worker inside run_job has a job in hand, and the attempt it is about to
\* write is within MAX_RECOVERY_ATTEMPTS.
GoodWorker ==
    {v \in Worker : /\ v.pc \in Held => v.job \in Jobs
                    /\ v.pc = "take" => v.seen < MaxRecoveryAttempts}

(***************************************************************************)
(* Lemmas on the updates the actions are built from.                       *)
(***************************************************************************)
\* One worker taking a well-formed value keeps all of them well-formed.
LEMMA BecomeGood ==
    ASSUME w \in [Procs -> GoodWorker], NEW p \in Procs, NEW v \in GoodWorker, Become(p, v)
    PROVE  w' \in [Procs -> GoodWorker]
  BY DEF Become

\* Moving the program counter keeps a worker well-formed.
LEMMA GotoGood ==
    ASSUME w \in [Procs -> GoodWorker], NEW p \in Procs, NEW l \in PCs, l # "take",
           l \in LoopPC \/ w[p].job \in Jobs, Goto(p, l)
    PROVE  w' \in [Procs -> GoodWorker]
  <1>1. w[p] \in GoodWorker
    OBVIOUS
  <1>2. [w[p] EXCEPT !.pc = l] \in GoodWorker
    BY <1>1 DEF GoodWorker, Worker, PCs, Held, LoopPC, ClaimPC, OwnPC, StreamPC, FinishPC
  <1>3. QED
    BY <1>2, BecomeGood DEF Goto

\* A worker that starts over, is dead or is down is well-formed.
LEMMA IdleGood ==
    ASSUME NEW l \in LoopPC
    PROVE  Idle(l) \in GoodWorker
  <1>1. Idle(l) \in Worker
    BY ConstAssumption DEF Idle, Worker, Terminal
  <1>2. QED
    BY <1>1 DEF GoodWorker, Idle, Held, LoopPC, ClaimPC, OwnPC, StreamPC, FinishPC

\* Returning from run_job keeps the workers well-formed.
LEMMA ReturnGood ==
    ASSUME w \in [Procs -> GoodWorker], NEW p \in Procs, Return(p)
    PROVE  w' \in [Procs -> GoodWorker]
  BY IdleGood, BecomeGood DEF Return, LoopPC

\* Ending a run with a terminal status keeps the workers well-formed.
LEMMA FinishGood ==
    ASSUME w \in [Procs -> GoodWorker], NEW p \in Procs, NEW s \in Terminal,
           w[p].job \in Jobs, Finish(p, s)
    PROVE  w' \in [Procs -> GoodWorker]
  <1>1. w[p] \in GoodWorker
    OBVIOUS
  <1>2. [w[p] EXCEPT !.pc = "close", !.out = s] \in GoodWorker
    BY <1>1, ZenonT(50) DEF GoodWorker, Worker, Held, OwnPC, FinishPC
  <1>3. QED
    BY <1>2, BecomeGood DEF Finish

\* Writing one well-formed job row keeps the table well-formed.
LEMMA SetJobType ==
    ASSUME job \in [Jobs -> JobRow], NEW j \in Jobs, NEW r \in JobRow, SetJob(j, r)
    PROVE  job' \in [Jobs -> JobRow]
  BY DEF SetJob

\* mark_terminal keeps the table well-formed.
LEMMA MarkType ==
    ASSUME job \in [Jobs -> JobRow], NEW j \in Jobs, NEW s \in Terminal, MarkTerminal(j, s)
    PROVE  job' \in [Jobs -> JobRow]
  <1>1. job[j] \in JobRow
    OBVIOUS
  <1>2. [job[j] EXCEPT !.status = s] \in JobRow
    BY <1>1 DEF JobRow
  <1>3. QED
    BY <1>2, SetJobType DEF MarkTerminal

\* Raising the cancel flag keeps the table well-formed.
LEMMA CancelType ==
    ASSUME job \in [Jobs -> JobRow], NEW j \in Jobs, RequestCancel(j)
    PROVE  job' \in [Jobs -> JobRow]
  <1>1. job[j] \in JobRow
    OBVIOUS
  <1>2. [job[j] EXCEPT !.cancel = TRUE] \in JobRow
    BY <1>1 DEF JobRow
  <1>3. QED
    BY <1>2, SetJobType DEF RequestCancel

\* Writing the status of a response row keeps the rows well-typed.
LEMMA RowType ==
    ASSUME row \in [Jobs -> {"none"} \cup Active \cup Terminal], NEW j \in Jobs,
           NEW s \in {"none"} \cup Active \cup Terminal, SetRow(j, s)
    PROVE  row' \in [Jobs -> {"none"} \cup Active \cup Terminal]
  BY DEF SetRow

\* Appending one event keeps the logs well-typed.
LEMMA AppendType ==
    ASSUME log \in [Jobs -> Seq(Events)], NEW j \in Jobs, NEW e \in Events, AppendEvent(j, e)
    PROVE  log' \in [Jobs -> Seq(Events)]
  <1>1. log[j] \in Seq(Events)
    OBVIOUS
  <1>2. Append(log[j], e) \in Seq(Events)
    BY <1>1
  <1>3. QED
    BY <1>2 DEF AppendEvent

(***************************************************************************)
(* Type correctness.  TypeOK alone is not inductive: the claim's UPDATE    *)
(* writes seen + 1 and every statement of a run addresses w[p].job.        *)
(***************************************************************************)
TypeInv == TypeOK /\ w \in [Procs -> GoodWorker]

\* A worker that is inside run_job names a job of the table.
LEMMA JobInHand ==
    ASSUME TypeInv, NEW p \in Procs, w[p].pc \in Held
    PROVE  w[p].job \in Jobs
  BY DEF TypeInv, GoodWorker

\* Well-formed workers are well-typed.
LEMMA GoodIsTyped ==
    ASSUME w' \in [Procs -> GoodWorker]
    PROVE  w' \in [Procs -> Worker]
  BY DEF GoodWorker

\* The worker loop outside run_job keeps the types.
LEMMA PollType ==
    ASSUME TypeInv, NEW p \in Procs, Poll(p)
    PROVE  TypeInv'
  <1> USE DEF TypeInv
  <1>1. CASE ClearWake(p)
    <2>1. w' \in [Procs -> GoodWorker]
      BY <1>1, GotoGood DEF ClearWake, PCs, LoopPC
    <2>2. QED
      BY <1>1, <2>1, GoodIsTyped DEF ClearWake, TypeOK, db, reqs, env
  <1>2. CASE PeekHit(p)
    <2>1. PICK j \in Jobs : Become(p, [w[p] EXCEPT !.pc = "expire", !.job = j])
      BY <1>2 DEF PeekHit
    <2>2. w[p] \in GoodWorker
      OBVIOUS
    <2>3. [w[p] EXCEPT !.pc = "expire", !.job = j] \in GoodWorker
      BY <2>2, ZenonT(50) DEF GoodWorker, Worker, Held, ClaimPC
    <2>4. w' \in [Procs -> GoodWorker]
      BY <2>1, <2>3, BecomeGood
    <2>5. QED
      BY <1>2, <2>4, GoodIsTyped DEF PeekHit, TypeOK, db, reqs, env
  <1>3. CASE PeekMiss(p)
    <2>1. w' \in [Procs -> GoodWorker]
      BY <1>3, GotoGood DEF PeekMiss, PCs, LoopPC
    <2>2. QED
      BY <1>3, <2>1, GoodIsTyped DEF PeekMiss, TypeOK, db, reqs, env
  <1>4. CASE Sleep(p)
    <2>1. w' \in [Procs -> GoodWorker]
      BY <1>4, GotoGood DEF Sleep, PCs, LoopPC
    <2>2. QED
      BY <1>4, <2>1, GoodIsTyped DEF Sleep, TypeOK, db, reqs, env
  <1>5. CASE Woken(p)
    <2>1. w' \in [Procs -> GoodWorker]
      BY <1>5, GotoGood DEF Woken, PCs, LoopPC
    <2>2. QED
      BY <1>5, <2>1, GoodIsTyped DEF Woken, TypeOK, db, reqs, env
  <1>6. CASE PollTimeout(p)
    <2>1. w' \in [Procs -> GoodWorker]
      BY <1>6, GotoGood DEF PollTimeout, PCs, LoopPC
    <2>2. QED
      BY <1>6, <2>1, GoodIsTyped DEF PollTimeout, TypeOK, db, reqs, env
  <1>7. QED
    BY <1>1, <1>2, <1>3, <1>4, <1>5, <1>6 DEF Poll

\* Expiring past-deadline jobs keeps the types.
LEMMA ExpireType ==
    ASSUME TypeInv, NEW p \in Procs, Expire(p)
    PROVE  TypeInv'
  <1> USE DEF TypeInv
  <1>0. w[p] \in GoodWorker /\ w[p] \in Worker
    BY DEF TypeOK
  <1>1. CASE ExpireSelect(p)
    <2> DEFINE l == IF PastDeadline = {} THEN "claim" ELSE "mark"
               r == (job[w[p].job].lease = 0)
               u == [w[p] EXCEPT !.pc = l, !.todo = PastDeadline, !.ripe = r]
    <2>1. w[p].job \in Jobs
      BY <1>1, JobInHand DEF ExpireSelect, Held, ClaimPC
    <2>2. PastDeadline \in SUBSET Jobs /\ r \in BOOLEAN /\ l \in {"claim", "mark"}
      BY DEF PastDeadline
    <2>3. u \in GoodWorker
      <3> HIDE DEF TypeInv, r, l
      <3> QED
        BY <1>0, <2>1, <2>2, ZenonT(50) DEF GoodWorker, Worker, Held, ClaimPC
    <2>4. w' \in [Procs -> GoodWorker]
      BY <1>1, <2>3, BecomeGood DEF ExpireSelect
    <2>5. QED
      BY <1>1, <2>4, GoodIsTyped DEF ExpireSelect, TypeOK, db, reqs, env
  <1>2. CASE ExpireMark(p)
    <2>1. w[p].job \in Jobs /\ w[p].todo \subseteq Jobs /\ w[p].fin \subseteq Jobs
      BY <1>0, <1>2, JobInHand DEF ExpireMark, Held, ClaimPC, Worker
    <2>2. PICK j \in w[p].todo :
            /\ MarkTerminal(j, "expired")
            /\ Become(p, [w[p] EXCEPT !.pc = IF w[p].todo = {j} THEN "finalize" ELSE "mark",
                                      !.todo = @ \ {j}, !.fin = @ \cup {j}])
      BY <1>2 DEF ExpireMark
    <2>3. j \in Jobs
      BY <2>1
    <2>4. job' \in [Jobs -> JobRow]
      BY <2>2, <2>3, MarkType DEF Terminal, TypeOK
    <2> DEFINE t == w[p].todo \ {j}
               f == w[p].fin \cup {j}
               u == [w[p] EXCEPT !.pc = IF w[p].todo = {j} THEN "finalize" ELSE "mark",
                                 !.todo = t, !.fin = f]
    <2>5. t \in SUBSET Jobs /\ f \in SUBSET Jobs
      BY <2>1, <2>3
    <2>6. u \in GoodWorker
      <3> HIDE DEF t, f, TypeInv
      <3> QED
        BY <1>0, <2>1, <2>5, ZenonT(50) DEF GoodWorker, Worker, Held, ClaimPC
    <2>7. w' \in [Procs -> GoodWorker]
      BY <2>2, <2>6, BecomeGood
    <2>8. QED
      BY <1>2, <2>4, <2>7, GoodIsTyped DEF ExpireMark, TypeOK, db, reqs, env
  <1>3. CASE FinalizeRow(p)
    <2>1. w[p].job \in Jobs /\ w[p].fin \subseteq Jobs
      BY <1>0, <1>3, JobInHand DEF FinalizeRow, Held, ClaimPC, Worker
    <2>2. PICK j \in w[p].fin :
            /\ SetRow(j, "expired")
            /\ Become(p, [w[p] EXCEPT !.pc = "finalized", !.todo = {j}, !.fin = @ \ {j}])
      BY <1>3 DEF FinalizeRow
    <2>3. j \in Jobs
      BY <2>1
    <2>4. row' \in [Jobs -> {"none"} \cup Active \cup Terminal]
      BY <2>2, <2>3, RowType DEF Terminal, TypeOK
    <2> DEFINE f == w[p].fin \ {j}
               u == [w[p] EXCEPT !.pc = "finalized", !.todo = {j}, !.fin = f]
    <2>5. {j} \in SUBSET Jobs /\ f \in SUBSET Jobs
      BY <2>1, <2>3
    <2>6. u \in GoodWorker
      <3> HIDE DEF f, TypeInv
      <3> QED
        BY <1>0, <2>1, <2>5 DEF GoodWorker, Worker, Held, ClaimPC
    <2>7. w' \in [Procs -> GoodWorker]
      BY <2>2, <2>6, BecomeGood
    <2>8. QED
      BY <1>3, <2>4, <2>7, GoodIsTyped DEF FinalizeRow, TypeOK, db, reqs, env
  <1>4. CASE FinalizeEvent(p)
    <2>1. w[p].job \in Jobs /\ w[p].todo \subseteq Jobs
      BY <1>0, <1>4, JobInHand DEF FinalizeEvent, Held, ClaimPC, Worker
    <2> DEFINE u == [w[p] EXCEPT !.pc = IF w[p].fin = {} THEN "claim" ELSE "finalize", !.todo = {}]
    <2>2. PICK j \in w[p].todo :
            AppendEvent(j, "expired") /\ IF j = w[p].job THEN Return(p) ELSE Become(p, u)
      BY <1>4 DEF FinalizeEvent
    <2>3. log' \in [Jobs -> Seq(Events)]
      BY <2>1, <2>2, AppendType DEF Events, Terminal, TypeOK
    <2>4. u \in GoodWorker
      <3> HIDE DEF TypeInv
      <3> QED
        BY <1>0, <2>1, ZenonT(50) DEF GoodWorker, Worker, Held, ClaimPC
    <2>5. w' \in [Procs -> GoodWorker]
      BY <2>2, <2>4, BecomeGood, ReturnGood
    <2>6. QED
      BY <1>4, <2>3, <2>5, GoodIsTyped DEF FinalizeEvent, TypeOK, db, reqs, env
  <1>5. QED
    BY <1>1, <1>2, <1>3, <1>4 DEF Expire

\* Claiming and reaping keep the types.
LEMMA ClaimType ==
    ASSUME TypeInv, NEW p \in Procs, Claim(p)
    PROVE  TypeInv'
  <1> USE DEF TypeInv
  <1>0. w[p] \in GoodWorker /\ w[p] \in Worker
    BY DEF TypeOK
  <1>h. w[p].job \in Jobs
    BY JobInHand DEF Claim, ClaimSelect, ClaimMiss, ReapJob, ReapRow, ClaimUpdate, ClaimLost,
                     Held, ClaimPC
  <1>r. job[w[p].job] \in JobRow
    BY <1>h DEF TypeOK
  <1>1. CASE ClaimSelect(p)
    <2> DEFINE a == job[w[p].job].attempt
               u == [w[p] EXCEPT !.pc = "take", !.seen = a]
    <2>1. a \in 0..MaxRecoveryAttempts /\ a < MaxRecoveryAttempts
      BY <1>1, <1>r DEF ClaimSelect, Eligible, JobRow
    <2>2. u \in GoodWorker
      <3> HIDE DEF TypeInv, a
      <3> QED
        BY <1>0, <1>h, <2>1 DEF GoodWorker, Worker, Held, ClaimPC
    <2>3. w' \in [Procs -> GoodWorker]
      BY <1>1, <2>2, BecomeGood DEF ClaimSelect
    <2>4. QED
      BY <1>1, <2>3, GoodIsTyped DEF ClaimSelect, TypeOK, db, reqs, env
  <1>2. CASE ClaimMiss(p)
    <2>1. w' \in [Procs -> GoodWorker]
      BY <1>2, <1>h, GotoGood, ReturnGood DEF ClaimMiss, PCs, ClaimPC
    <2>2. QED
      BY <1>2, <2>1, GoodIsTyped DEF ClaimMiss, TypeOK, db, reqs, env
  <1>3. CASE ReapJob(p)
    <2>1. w' \in [Procs -> GoodWorker]
      BY <1>3, <1>h, GotoGood DEF ReapJob, PCs, ClaimPC
    <2>2. job' \in [Jobs -> JobRow]
      BY <1>3, <1>h, MarkType DEF ReapJob, Terminal, TypeOK
    <2>3. QED
      BY <1>3, <2>1, <2>2, GoodIsTyped DEF ReapJob, TypeOK, db, reqs, env
  <1>4. CASE ReapRow(p)
    <2>1. w' \in [Procs -> GoodWorker]
      BY <1>4, ReturnGood DEF ReapRow
    <2>2. row' \in [Jobs -> {"none"} \cup Active \cup Terminal]
      BY <1>4, <1>h, RowType DEF ReapRow, Terminal, TypeOK
    <2>3. QED
      BY <1>4, <2>1, <2>2, GoodIsTyped DEF ReapRow, TypeOK, db, reqs, env
  <1>5. CASE ClaimUpdate(p)
    <2> DEFINE c == job[w[p].job].cancel
               a == w[p].seen + 1
               r == [job[w[p].job] EXCEPT !.status = "in_progress", !.lease = LeaseTicks,
                                          !.attempt = a]
               u == [w[p] EXCEPT !.pc = "check", !.early = c]
    <2>1. a \in 0..MaxRecoveryAttempts
      BY <1>5, <1>0, ConstAssumption DEF ClaimUpdate, GoodWorker, Worker
    <2>2. c \in BOOLEAN
      BY <1>r DEF JobRow
    <2>3. r \in JobRow
      <3>1. LeaseTicks \in 0..LeaseTicks
        BY ConstAssumption
      <3> HIDE DEF TypeInv, a
      <3>2. QED
        BY <1>r, <2>1, <3>1 DEF JobRow, Active
    <2>4. u \in GoodWorker
      <3> HIDE DEF TypeInv, c
      <3> QED
        BY <1>0, <1>h, <2>2 DEF GoodWorker, Worker, Held, OwnPC
    <2>5. w' \in [Procs -> GoodWorker]
      BY <1>5, <2>4, BecomeGood DEF ClaimUpdate
    <2>6. job' \in [Jobs -> JobRow]
      BY <1>5, <1>h, <2>3, SetJobType DEF ClaimUpdate, TypeOK
    <2>7. QED
      BY <1>5, <2>5, <2>6, GoodIsTyped DEF ClaimUpdate, TypeOK, db, reqs, env
  <1>6. CASE ClaimLost(p)
    <2>1. w' \in [Procs -> GoodWorker]
      BY <1>6, ReturnGood DEF ClaimLost
    <2>2. QED
      BY <1>6, <2>1, GoodIsTyped DEF ClaimLost, TypeOK, db, reqs, env
  <1>7. QED
    BY <1>1, <1>2, <1>3, <1>4, <1>5, <1>6 DEF Claim

\* Driving a claimed job keeps the types.
LEMMA StreamType ==
    ASSUME TypeInv, NEW p \in Procs, Stream(p)
    PROVE  TypeInv'
  <1> USE DEF TypeInv
  <1>0. w[p] \in GoodWorker /\ w[p] \in Worker
    BY DEF TypeOK
  <1>h. w[p].job \in Jobs
    BY JobInHand DEF Stream, PreCheck, ExecuteRow, ExecuteEvents, StreamBoundary, FetchChunk,
                     FetchEnd, Decide, Held, OwnPC, StreamPC
  <1>1. CASE PreCheck(p)
    <2> DEFINE u == [w[p] EXCEPT !.pc = "close", !.run = "cancelled", !.out = "cancelled"]
               v == [w[p] EXCEPT !.pc = "start", !.beat = "on"]
    <2>1. u \in GoodWorker /\ v \in GoodWorker
      BY <1>0, <1>h, ZenonT(50) DEF GoodWorker, Worker, Held, OwnPC, StreamPC, FinishPC, Terminal
    <2>2. w' \in [Procs -> GoodWorker]
      BY <1>1, <2>1, BecomeGood DEF PreCheck
    <2>3. QED
      BY <1>1, <2>2, GoodIsTyped DEF PreCheck, TypeOK, db, reqs, env
  <1>2. CASE ExecuteRow(p)
    <2>1. w' \in [Procs -> GoodWorker]
      BY <1>2, <1>h, GotoGood DEF ExecuteRow, PCs, OwnPC, StreamPC
    <2>2. row' \in [Jobs -> {"none"} \cup Active \cup Terminal]
      BY <1>2, <1>h, RowType DEF ExecuteRow, Active, TypeOK
    <2>3. QED
      BY <1>2, <2>1, <2>2, GoodIsTyped DEF ExecuteRow, TypeOK, db, reqs, env
  <1>3. CASE ExecuteEvents(p)
    <2>1. w' \in [Procs -> GoodWorker]
      BY <1>3, <1>h, GotoGood DEF ExecuteEvents, PCs, OwnPC, StreamPC
    <2>2. log' \in [Jobs -> Seq(Events)]
      BY <1>3, <1>h, AppendType DEF ExecuteEvents, Events, TypeOK
    <2>3. QED
      BY <1>3, <2>1, <2>2, GoodIsTyped DEF ExecuteEvents, TypeOK, db, reqs, env
  <1>4. CASE StreamBoundary(p)
    <2> DEFINE u == [w[p] EXCEPT !.pc = "decide", !.run = "cancelled"]
    <2>1. u \in GoodWorker
      BY <1>0, <1>h DEF GoodWorker, Worker, Held, OwnPC, StreamPC
    <2>2. Goto(p, "decide") \/ Goto(p, "fetch") \/ Finish(p, "incomplete") \/ Become(p, u)
      BY <1>4 DEF StreamBoundary
    <2>3. w' \in [Procs -> GoodWorker]
      BY <2>1, <2>2, <1>h, GotoGood, FinishGood, BecomeGood DEF PCs, OwnPC, StreamPC, Terminal
    <2>4. QED
      BY <1>4, <2>3, GoodIsTyped DEF StreamBoundary, TypeOK, db, reqs, env
  <1>5. CASE FetchChunk(p)
    <2> DEFINE c == w[p].chunks + 1
               u == [w[p] EXCEPT !.pc = "stream", !.chunks = c]
    <2>1. c \in 0..MaxChunks
      BY <1>0, <1>5, ConstAssumption DEF FetchChunk, Worker
    <2>2. u \in GoodWorker
      <3> HIDE DEF TypeInv, c
      <3> QED
        BY <1>0, <1>h, <2>1 DEF GoodWorker, Worker, Held, OwnPC, StreamPC
    <2>3. w' \in [Procs -> GoodWorker]
      BY <1>5, <2>2, BecomeGood DEF FetchChunk
    <2>4. log' \in [Jobs -> Seq(Events)]
      BY <1>5, <1>h, AppendType DEF FetchChunk, Events, TypeOK
    <2>5. QED
      BY <1>5, <2>3, <2>4, GoodIsTyped DEF FetchChunk, TypeOK, db, reqs, env
  <1>6. CASE FetchEnd(p)
    <2>1. w' \in [Procs -> GoodWorker]
      BY <1>6, <1>h, GotoGood, FinishGood DEF FetchEnd, PCs, OwnPC, StreamPC, Terminal
    <2>2. QED
      BY <1>6, <2>1, GoodIsTyped DEF FetchEnd, TypeOK, db, reqs, env
  <1>7. CASE Decide(p)
    <2>1. w' \in [Procs -> GoodWorker]
      BY <1>7, <1>h, FinishGood DEF Decide, Terminal
    <2>2. QED
      BY <1>7, <2>1, GoodIsTyped DEF Decide, TypeOK, db, reqs, env
  <1>8. QED
    BY <1>1, <1>2, <1>3, <1>4, <1>5, <1>6, <1>7 DEF Stream

\* Writing the terminal state keeps the types.
LEMMA SettleType ==
    ASSUME TypeInv, NEW p \in Procs, Settle(p)
    PROVE  TypeInv'
  <1> USE DEF TypeInv
  <1>0. w[p] \in GoodWorker /\ w[p] \in Worker
    BY DEF TypeOK
  <1>h. w[p].job \in Jobs /\ w[p].out \in Terminal
    BY <1>0, JobInHand DEF Settle, CloseItems, FinishRow, PersistTerminal, FinishJob,
                           Held, OwnPC, FinishPC, Worker
  <1>1. CASE CloseItems(p)
    <2> DEFINE u == [w[p] EXCEPT !.pc = "finrow", !.chunks = 0]
    <2>1. u \in GoodWorker
      <3>1. 0 \in 0..MaxChunks
        BY ConstAssumption
      <3> HIDE DEF TypeInv
      <3>2. QED
        BY <1>0, <1>h, <3>1 DEF GoodWorker, Worker, Held, OwnPC, FinishPC
    <2>2. w' \in [Procs -> GoodWorker]
      BY <1>1, <2>1, BecomeGood DEF CloseItems
    <2>3. log' \in [Jobs -> Seq(Events)]
      BY <1>1, <1>h, AppendType DEF CloseItems, Events, TypeOK
    <2>4. QED
      BY <1>1, <2>2, <2>3, GoodIsTyped DEF CloseItems, TypeOK, db, reqs, env
  <1>2. CASE FinishRow(p)
    <2>1. w' \in [Procs -> GoodWorker]
      BY <1>2, <1>h, GotoGood DEF FinishRow, PCs, OwnPC, FinishPC
    <2>2. row' \in [Jobs -> {"none"} \cup Active \cup Terminal]
      BY <1>2, <1>h, RowType DEF FinishRow, TypeOK
    <2>3. QED
      BY <1>2, <2>1, <2>2, GoodIsTyped DEF FinishRow, TypeOK, db, reqs, env
  <1>3. CASE PersistTerminal(p)
    <2>1. w' \in [Procs -> GoodWorker]
      BY <1>3, <1>h, GotoGood DEF PersistTerminal, PCs, OwnPC, FinishPC
    <2>2. log' \in [Jobs -> Seq(Events)]
      BY <1>3, <1>h, AppendType DEF PersistTerminal, Events, TypeOK
    <2>3. QED
      BY <1>3, <2>1, <2>2, GoodIsTyped DEF PersistTerminal, TypeOK, db, reqs, env
  <1>4. CASE FinishJob(p)
    <2>1. w' \in [Procs -> GoodWorker]
      BY <1>4, ReturnGood DEF FinishJob
    <2>2. job' \in [Jobs -> JobRow]
      BY <1>4, <1>h, MarkType DEF FinishJob, TypeOK
    <2>3. QED
      BY <1>4, <2>1, <2>2, GoodIsTyped DEF FinishJob, TypeOK, db, reqs, env
  <1>5. QED
    BY <1>1, <1>2, <1>3, <1>4 DEF Settle

\* The heartbeat task keeps the types.
LEMMA HeartbeatType ==
    ASSUME TypeInv, NEW p \in Procs, Heartbeat(p)
    PROVE  TypeInv'
  <1> USE DEF TypeInv
  <1>0. w[p] \in GoodWorker /\ w[p] \in Worker
    BY DEF TypeOK
  <1>h. w[p].job \in Jobs
    BY JobInHand DEF Heartbeat, Renew, RenewRefused, Beating, Held
  <1>1. CASE Renew(p)
    <2>1. job[w[p].job] \in JobRow
      BY <1>h DEF TypeOK
    <2>2. LeaseTicks \in 0..LeaseTicks
      BY ConstAssumption
    <2>3. [job[w[p].job] EXCEPT !.lease = LeaseTicks] \in JobRow
      BY <2>1, <2>2 DEF JobRow
    <2>4. job' \in [Jobs -> JobRow]
      BY <1>1, <1>h, <2>3, SetJobType DEF Renew, TypeOK
    <2>5. QED
      BY <1>1, <2>4 DEF Renew, TypeOK, db, reqs, env
  <1>2. CASE RenewRefused(p)
    <2> DEFINE r == IF w[p].run = "run" THEN "cancelled" ELSE w[p].run
               u == [w[p] EXCEPT !.beat = "lost", !.run = r]
    <2>1. r \in {"run", "cancelled", "stopped"}
      BY <1>0 DEF Worker
    <2>2. u \in GoodWorker
      <3> HIDE DEF TypeInv, r
      <3> QED
        BY <1>0, <1>h, <2>1 DEF GoodWorker, Worker
    <2>3. w' \in [Procs -> GoodWorker]
      BY <1>2, <2>2, BecomeGood DEF RenewRefused
    <2>4. QED
      BY <1>2, <2>3, GoodIsTyped DEF RenewRefused, TypeOK, db, reqs, env
  <1>3. QED
    BY <1>1, <1>2 DEF Heartbeat

\* Enqueue and cancel requests keep the types.
LEMMA RequestType ==
    ASSUME TypeInv, NEW j \in Jobs, NEW p \in Procs,
           \/ EnqueueRow(j, p) \/ Enqueue(j, p)
           \/ CancelFlag(j, p) \/ CancelFlagFails(j, p) \/ Cancel(j, p) \/ RequestFails(j, p)
    PROVE  TypeInv'
  <1> USE DEF TypeInv
  <1>e. ASSUME NEW pc \in EnqPC, enq' = [enq EXCEPT ![j] = [pc |-> pc, at |-> p]]
        PROVE  enq' \in [Jobs -> Requests(EnqPC)]
    <2>1. [pc |-> pc, at |-> p] \in Requests(EnqPC)
      BY <1>e DEF Requests
    <2>2. QED
      BY <1>e, <2>1 DEF TypeOK
  <1>f. ASSUME NEW pc \in EnqPC, enq' = [enq EXCEPT ![j].pc = pc]
        PROVE  enq' \in [Jobs -> Requests(EnqPC)]
    <2>1. enq[j] \in Requests(EnqPC)
      BY DEF TypeOK
    <2>2. [enq[j] EXCEPT !.pc = pc] \in Requests(EnqPC)
      BY <1>f, <2>1 DEF Requests
    <2>3. QED
      BY <1>f, <2>2 DEF TypeOK
  <1>c. ASSUME NEW pc \in CanPC, can' = [can EXCEPT ![j] = [pc |-> pc, at |-> p]]
        PROVE  can' \in [Jobs -> Requests(CanPC)]
    <2>1. [pc |-> pc, at |-> p] \in Requests(CanPC)
      BY <1>c DEF Requests
    <2>2. QED
      BY <1>c, <2>1 DEF TypeOK
  <1>d. ASSUME NEW pc \in CanPC, can' = [can EXCEPT ![j].pc = pc]
        PROVE  can' \in [Jobs -> Requests(CanPC)]
    <2>1. can[j] \in Requests(CanPC)
      BY DEF TypeOK
    <2>2. [can[j] EXCEPT !.pc = pc] \in Requests(CanPC)
      BY <1>d, <2>1 DEF Requests
    <2>3. QED
      BY <1>d, <2>2 DEF TypeOK
  <1>1. CASE EnqueueRow(j, p)
    <2>1. row' \in [Jobs -> {"none"} \cup Active \cup Terminal]
      BY <1>1, RowType DEF EnqueueRow, Active, TypeOK
    <2>2. enq' \in [Jobs -> Requests(EnqPC)]
      BY <1>1, <1>e DEF EnqueueRow, EnqPC
    <2>3. QED
      BY <1>1, <2>1, <2>2 DEF EnqueueRow, TypeOK, env
  <1>2. CASE EnqueueEvent(j, p)
    <2>1. log' \in [Jobs -> Seq(Events)]
      BY <1>2, AppendType DEF EnqueueEvent, Events, TypeOK
    <2>2. enq' \in [Jobs -> Requests(EnqPC)]
      BY <1>2, <1>f DEF EnqueueEvent, EnqPC
    <2>3. QED
      BY <1>2, <2>1, <2>2 DEF EnqueueEvent, TypeOK, env
  <1>3. CASE EnqueueJob(j, p)
    <2>1. PICK t \in TTLs :
            SetJob(j, [status |-> "queued", lease |-> 0, attempt |-> 0, cancel |-> FALSE, ttl |-> t])
      BY <1>3 DEF EnqueueJob
    <2>2. [status |-> "queued", lease |-> 0, attempt |-> 0, cancel |-> FALSE, ttl |-> t] \in JobRow
      BY ConstAssumption DEF JobRow, Active
    <2>3. job' \in [Jobs -> JobRow]
      BY <2>1, <2>2, SetJobType DEF TypeOK
    <2>4. enq' \in [Jobs -> Requests(EnqPC)]
      BY <1>3, <1>f DEF EnqueueJob, EnqPC
    <2>5. QED
      BY <1>3, <2>3, <2>4 DEF EnqueueJob, TypeOK, env
  <1>4. CASE Notify(j, p)
    <2>1. enq' \in [Jobs -> Requests(EnqPC)]
      BY <1>4, <1>f DEF Notify, EnqPC
    <2>2. QED
      BY <1>4, <2>1 DEF Notify, TypeOK, db, env
  <1>5. CASE CancelFlag(j, p)
    <2>1. job' \in [Jobs -> JobRow]
      BY <1>5, CancelType DEF CancelFlag, TypeOK
    <2>2. can' \in [Jobs -> Requests(CanPC)]
      BY <1>5, <1>c DEF CancelFlag, CanPC
    <2>3. QED
      BY <1>5, <2>1, <2>2 DEF CancelFlag, TypeOK, env
  <1>6. CASE CancelFlagFails(j, p)
    <2>1. can' \in [Jobs -> Requests(CanPC)]
      BY <1>6, <1>c DEF CancelFlagFails, CanPC
    <2>2. faults' \in 0..MaxFaults
      BY <1>6, ConstAssumption DEF CancelFlagFails, Fault, TypeOK
    <2>3. QED
      BY <1>6, <2>1, <2>2 DEF CancelFlagFails, TypeOK, db
  <1>7. CASE CancelRow(j, p)
    <2>1. row' \in [Jobs -> {"none"} \cup Active \cup Terminal]
      BY <1>7, RowType DEF CancelRow, Terminal, TypeOK
    <2>2. can' \in [Jobs -> Requests(CanPC)]
      BY <1>7, <1>d DEF CancelRow, CanPC
    <2>3. QED
      BY <1>7, <2>1, <2>2 DEF CancelRow, TypeOK, env
  <1>8. CASE CancelHook(j, p)
    <2>1. job' \in [Jobs -> JobRow]
      BY <1>8, CancelType DEF CancelHook, TypeOK
    <2>2. can' \in [Jobs -> Requests(CanPC)]
      BY <1>8, <1>d DEF CancelHook, CanPC
    <2>3. w[p] \in GoodWorker
      OBVIOUS
    <2>4. [w[p] EXCEPT !.run = "stopped"] \in GoodWorker
      BY <2>3 DEF GoodWorker, Worker
    <2>5. w' \in [Procs -> GoodWorker]
      BY <1>8, <2>4, BecomeGood DEF CancelHook
    <2>6. QED
      BY <1>8, <2>1, <2>2, <2>5, GoodIsTyped DEF CancelHook, TypeOK, env
  <1>9. CASE RequestFails(j, p)
    <2>1. enq' \in [Jobs -> Requests(EnqPC)]
      BY <1>9, <1>f DEF RequestFails, EnqPC, TypeOK
    <2>2. can' \in [Jobs -> Requests(CanPC)]
      BY <1>9, <1>d DEF RequestFails, CanPC, TypeOK
    <2>3. faults' \in 0..MaxFaults
      BY <1>9, ConstAssumption DEF RequestFails, Fault, TypeOK
    <2>4. QED
      BY <1>9, <2>1, <2>2, <2>3 DEF RequestFails, TypeOK, db
  <1>10. QED
    BY <1>1, <1>2, <1>3, <1>4, <1>5, <1>6, <1>7, <1>8, <1>9 DEF Enqueue, Cancel

\* Store errors, crashes and restarts keep the types.
LEMMA FailureType ==
    ASSUME TypeInv, NEW p \in Procs,
           RunRaises(p) \/ LoopDies(p) \/ HeartbeatDies(p) \/ Crash(p) \/ Restart(p)
    PROVE  TypeInv'
  <1> USE DEF TypeInv
  <1>0. w[p] \in GoodWorker /\ w[p] \in Worker
    BY DEF TypeOK
  <1>f. ASSUME Fault PROVE faults' \in 0..MaxFaults
    BY <1>f, ConstAssumption DEF Fault, TypeOK
  <1>1. CASE RunRaises(p)
    <2>1. w[p].job \in Jobs
      BY <1>1, JobInHand DEF RunRaises, Guarded, Held, OwnPC
    <2>2. w' \in [Procs -> GoodWorker]
      BY <1>1, <2>1, FinishGood, GotoGood DEF RunRaises, Terminal, PCs, OwnPC, FinishPC
    <2>3. QED
      BY <1>1, <1>f, <2>2, GoodIsTyped DEF RunRaises, TypeOK, db, reqs
  <1>2. CASE LoopDies(p)
    <2>1. w' \in [Procs -> GoodWorker]
      BY <1>2, IdleGood, BecomeGood DEF LoopDies, LoopPC
    <2>2. QED
      BY <1>2, <1>f, <2>1, GoodIsTyped DEF LoopDies, TypeOK, db, reqs
  <1>3. CASE HeartbeatDies(p)
    <2>1. [w[p] EXCEPT !.beat = "dead"] \in GoodWorker
      BY <1>0 DEF GoodWorker, Worker
    <2>2. w' \in [Procs -> GoodWorker]
      BY <1>3, <2>1, BecomeGood DEF HeartbeatDies
    <2>3. QED
      BY <1>3, <1>f, <2>2, GoodIsTyped DEF HeartbeatDies, TypeOK, db, reqs
  <1>4. CASE Crash(p)
    <2>1. w' \in [Procs -> GoodWorker]
      BY <1>4, IdleGood, BecomeGood DEF Crash, LoopPC
    <2>2. ASSUME NEW PC, "lost" \in PC, NEW r \in [Jobs -> Requests(PC)], NEW open
          PROVE  Lost(r, p, open) \in [Jobs -> Requests(PC)]
      <3>1. ASSUME NEW j \in Jobs PROVE [r[j] EXCEPT !.pc = "lost"] \in Requests(PC)
        <4>1. r[j] \in Requests(PC)
          BY <3>1
        <4>2. QED
          BY <4>1, <2>2 DEF Requests
      <3>2. QED
        BY <3>1 DEF Lost
    <2>3. enq' \in [Jobs -> Requests(EnqPC)]
      BY <1>4, <2>2 DEF Crash, EnqPC, TypeOK
    <2>4. can' \in [Jobs -> Requests(CanPC)]
      BY <1>4, <2>2 DEF Crash, CanPC, TypeOK
    <2>5. crashes' \in 0..MaxCrashes
      BY <1>4, ConstAssumption DEF Crash, TypeOK
    <2>6. wake' \in [Procs -> BOOLEAN]
      BY <1>4 DEF Crash, TypeOK
    <2>7. QED
      BY <1>4, <2>1, <2>3, <2>4, <2>5, <2>6, GoodIsTyped DEF Crash, TypeOK, db
  <1>5. CASE Restart(p)
    <2>1. w' \in [Procs -> GoodWorker]
      BY <1>5, GotoGood DEF Restart, PCs, LoopPC
    <2>2. QED
      BY <1>5, <2>1, GoodIsTyped DEF Restart, TypeOK, db, reqs, env
  <1>6. QED
    BY <1>1, <1>2, <1>3, <1>4, <1>5

\* The clock keeps the types.
LEMMA TickType ==
    ASSUME TypeInv, Tick
    PROVE  TypeInv'
  <1> USE DEF TypeInv
  <1>1. ASSUME NEW j \in Jobs
        PROVE  [job[j] EXCEPT !.lease = Dec(@), !.ttl = Dec(@)] \in JobRow
    <2>1. job[j] \in JobRow
      BY <1>1 DEF TypeOK
    <2> DEFINE l == Dec(job[j].lease)
               t == Dec(job[j].ttl)
    <2>2. l \in 0..LeaseTicks /\ t \in Int
      BY <2>1, ConstAssumption DEF JobRow, Dec
    <2>3. [job[j] EXCEPT !.lease = l, !.ttl = t] \in JobRow
      <3> HIDE DEF TypeInv, l, t
      <3> QED
        BY <2>1, <2>2 DEF JobRow
    <2>4. QED
      BY <2>3
  <1>2. job' \in [Jobs -> JobRow]
    BY <1>1 DEF Tick
  <1>3. QED
    BY <1>2 DEF Tick, TypeOK, reqs, env

\* The initial state is well-typed.
LEMMA InitType == Init => TypeInv
  <1> SUFFICES ASSUME Init PROVE TypeInv
    OBVIOUS
  <1>1. w \in [Procs -> GoodWorker]
    BY IdleGood DEF Init, LoopPC
  <1>2. w \in [Procs -> Worker]
    BY <1>1 DEF GoodWorker
  <1>3. job \in [Jobs -> JobRow]
    BY ConstAssumption DEF Init, JobRow
  <1>4. enq \in [Jobs -> Requests(EnqPC)] /\ can \in [Jobs -> Requests(CanPC)]
    BY DEF Init, Requests, EnqPC, CanPC
  <1>5. row \in [Jobs -> {"none"} \cup Active \cup Terminal] /\ log \in [Jobs -> Seq(Events)]
    BY DEF Init
  <1>6. QED
    BY <1>1, <1>2, <1>3, <1>4, <1>5, ConstAssumption DEF Init, TypeInv, TypeOK

\* Every step of the system keeps the types.
LEMMA NextType == TypeInv /\ [Next]_vars => TypeInv'
  <1> SUFFICES ASSUME TypeInv, [Next]_vars PROVE TypeInv'
    OBVIOUS
  <1>1. CASE UNCHANGED vars
    BY <1>1 DEF TypeInv, TypeOK, vars
  <1>2. CASE Next
    BY <1>2, RequestType, PollType, ExpireType, ClaimType, StreamType, SettleType, HeartbeatType,
       FailureType, TickType DEF Next, WorkerStep
  <1>3. QED
    BY <1>1, <1>2

\* Every reachable state is well-typed, whatever the number of processes and
\* jobs: an attempt never exceeds MAX_RECOVERY_ATTEMPTS although claim_job
\* reads it and writes it in two statements, a run never streams more chunks
\* than its budget, and a worker inside run_job has a job in hand.
THEOREM TypeCorrect == Spec => []TypeOK
  <1>1. TypeInv => TypeOK
    BY DEF TypeInv
  <1>2. QED
    BY InitType, NextType, <1>1, PTL DEF Spec

(***************************************************************************)
(* Safety                                                                  *)
(***************************************************************************)
Unborn  == {"none", "row", "event"}
Waiting == {"missed", "idle"}
Kept    == {"none", "on"}
Quiet   == LoopPC \cup ClaimPC \cup {"check"}

\* A job row appears with the INSERT of its enqueue and never disappears.
Inserted == \A j \in Jobs : enq[j].pc \in Unborn => job[j].status = "none"

\* A worker only handles jobs it has read from the table.
ReadFromTable ==
    \A p \in Procs :
        /\ w[p].pc \in Held => job[w[p].job].status # "none"
        /\ \A j \in w[p].todo \cup w[p].fin : job[j].status # "none"

\* A queued job has never been leased or counted.
QueuedIsFresh == \A j \in Jobs : job[j].status = "queued" => job[j].lease = 0 /\ job[j].attempt = 0

\* NoLostWakeup, from the moment the peek came back empty.
Awake ==
    \A p \in Procs : w[p].pc \in Waiting /\ ~wake[p] =>
        \A j \in Jobs : ~ /\ enq[j] = [pc |-> "done", at |-> p]
                          /\ job[j].status = "queued" /\ job[j].ttl # 0

\* The cancel flag seen by the claim is still up at the pre-check.
CancelSeen ==
    \A p \in Procs :
        /\ w[p].pc \in StreamPC => ~w[p].early
        /\ w[p].pc = "check" /\ w[p].early => job[w[p].job].cancel

\* The heartbeat task exists from the pre-check on.
BeatsLater == \A p \in Procs : w[p].pc \in Quiet => w[p].beat = "none"

\* A run whose heartbeat has not been refused or killed holds a live lease.
LeaseHeld ==
    Timely => \A p \in Procs : w[p].pc \in OwnPC /\ w[p].beat \in Kept => job[w[p].job].lease > 0

SafetyInv ==
    /\ Inserted
    /\ ReadFromTable
    /\ QueuedIsFresh
    /\ Awake
    /\ CancelSeen
    /\ BeatsLater
    /\ LeaseHeld
    /\ AttemptsDistinct
    /\ ExclusiveRun

(***************************************************************************)
(* Most actions are calm: they neither insert, claim or start a job nor    *)
(* look for one, and the invariant survives them for the same reason.      *)
(***************************************************************************)
JobCalm(a, b) ==
    /\ b.attempt = a.attempt
    /\ b.status = "none" <=> a.status = "none"
    /\ b.status = "queued" => a.status = "queued"
    /\ b.ttl = a.ttl
    /\ a.lease > 0 => b.lease > 0
    /\ b.status = "queued" /\ a.lease = 0 => b.lease = 0
    /\ a.cancel => b.cancel

EnqCalm(a, b) ==
    /\ b.pc \in Unborn => a.pc \in Unborn
    /\ b.pc = "done" => b = a

WorkerCalm(a, b) ==
    /\ b.pc \in Held => a.pc \in Held /\ b.job = a.job
    /\ b.todo \cup b.fin \subseteq a.todo \cup a.fin
    /\ b.pc \in OwnPC => a.pc \in OwnPC /\ b.seen = a.seen /\ b.early = a.early
    /\ b.pc \in OwnPC /\ b.beat \in Kept => a.beat \in Kept
    /\ b.pc \in StreamPC => a.pc \in StreamPC
    /\ b.pc = "check" => a.pc = "check"
    /\ b.pc \in Waiting => a.pc \in Waiting
    /\ b.pc \in Quiet => b.beat = "none" \/ (a.pc \in Quiet /\ b.beat = a.beat)

Calm ==
    /\ \A j \in Jobs : JobCalm(job[j], job'[j]) /\ EnqCalm(enq[j], enq'[j])
    /\ \A p \in Procs : /\ WorkerCalm(w[p], w'[p])
                        /\ w'[p].pc \in Waiting /\ wake[p] => wake'[p]

\* A calm step keeps the invariant.
LEMMA CalmKeeps ==
    ASSUME TypeInv, TypeInv', SafetyInv, Calm
    PROVE  SafetyInv'
  <1>j. ASSUME NEW p \in Procs, w'[p].pc \in Held
        PROVE  w[p].pc \in Held /\ w'[p].job = w[p].job /\ w[p].job \in Jobs
    BY <1>j, JobInHand DEF Calm, WorkerCalm
  <1>o. OwnPC \subseteq Held
    BY DEF Held
  <1>1. Inserted'
    BY DEF SafetyInv, Inserted, Calm, JobCalm, EnqCalm
  <1>2. ReadFromTable'
    <2>1. ASSUME NEW p \in Procs, w'[p].pc \in Held PROVE job'[w'[p].job].status # "none"
      BY <2>1, <1>j DEF SafetyInv, ReadFromTable, Calm, JobCalm
    <2>2. ASSUME NEW p \in Procs, NEW j \in w'[p].todo \cup w'[p].fin
          PROVE  job'[j].status # "none"
      <3>1. j \in w[p].todo \cup w[p].fin
        BY <2>2 DEF Calm, WorkerCalm
      <3>2. j \in Jobs
        BY <3>1 DEF TypeInv, TypeOK, Worker
      <3>3. QED
        BY <3>1, <3>2 DEF SafetyInv, ReadFromTable, Calm, JobCalm
    <2>3. QED
      BY <2>1, <2>2 DEF ReadFromTable
  <1>3. QueuedIsFresh'
    BY DEF SafetyInv, QueuedIsFresh, Calm, JobCalm
  <1>4. Awake'
    <2> SUFFICES ASSUME NEW p \in Procs, w'[p].pc \in Waiting, ~wake'[p], NEW j \in Jobs,
                        enq'[j] = [pc |-> "done", at |-> p], job'[j].status = "queued",
                        job'[j].ttl # 0
                 PROVE  FALSE
      BY DEF Awake
    <2>1. w[p].pc \in Waiting /\ ~wake[p]
      BY DEF Calm, WorkerCalm
    <2>2. enq[j] = [pc |-> "done", at |-> p]
      BY DEF Calm, EnqCalm
    <2>3. job[j].status = "queued" /\ job[j].ttl # 0
      BY DEF Calm, JobCalm
    <2>4. QED
      BY <2>1, <2>2, <2>3 DEF SafetyInv, Awake
  <1>5. CancelSeen'
    <2>1. ASSUME NEW p \in Procs, w'[p].pc \in StreamPC PROVE ~w'[p].early
      BY <2>1 DEF SafetyInv, CancelSeen, Calm, WorkerCalm, OwnPC
    <2>2. ASSUME NEW p \in Procs, w'[p].pc = "check", w'[p].early PROVE job'[w'[p].job].cancel
      <3>1. w'[p].pc \in OwnPC
        BY <2>2 DEF OwnPC
      <3>2. w[p].pc = "check" /\ w[p].early /\ w'[p].job = w[p].job /\ w[p].job \in Jobs
        BY <2>2, <3>1, <1>j, <1>o DEF Calm, WorkerCalm
      <3>3. QED
        BY <3>2 DEF SafetyInv, CancelSeen, Calm, JobCalm
    <2>3. QED
      BY <2>1, <2>2 DEF CancelSeen
  <1>6. LeaseHeld'
    <2> SUFFICES ASSUME Timely, NEW p \in Procs, w'[p].pc \in OwnPC, w'[p].beat \in Kept
                 PROVE  job'[w'[p].job].lease > 0
      BY DEF LeaseHeld
    <2>1. w[p].pc \in OwnPC /\ w[p].beat \in Kept /\ w'[p].job = w[p].job /\ w[p].job \in Jobs
      BY <1>j, <1>o DEF Calm, WorkerCalm
    <2>2. QED
      BY <2>1 DEF SafetyInv, LeaseHeld, Calm, JobCalm
  <1>7. AttemptsDistinct'
    <2> SUFFICES ASSUME NEW p \in Procs, w'[p].pc \in OwnPC
                 PROVE  /\ w'[p].seen < job'[w'[p].job].attempt
                        /\ \A q \in Procs : p # q /\ Owns(q, w[p].job)' => w'[p].seen # w'[q].seen
      BY <1>j, <1>o DEF AttemptsDistinct, Owns
    <2>1. w[p].pc \in OwnPC /\ w'[p].seen = w[p].seen /\ w'[p].job = w[p].job /\ w[p].job \in Jobs
      BY <1>j, <1>o DEF Calm, WorkerCalm
    <2>2. w'[p].seen < job'[w'[p].job].attempt
      BY <2>1 DEF SafetyInv, AttemptsDistinct, Calm, JobCalm
    <2>3. ASSUME NEW q \in Procs, p # q, w'[q].pc \in OwnPC, w'[q].job = w[p].job
          PROVE  w'[p].seen # w'[q].seen
      <3>1. w[q].pc \in OwnPC /\ w'[q].seen = w[q].seen /\ w[q].job = w[p].job
        BY <2>3, <1>j, <1>o DEF Calm, WorkerCalm
      <3>2. QED
        BY <2>1, <2>3, <3>1 DEF SafetyInv, AttemptsDistinct, Owns
    <2>4. QED
      BY <2>1, <2>2, <2>3 DEF Owns
  <1>8. ExclusiveRun'
    <2> SUFFICES ASSUME Timely, NEW p \in Procs, NEW q \in Procs, NEW j \in Jobs,
                        p # q, Owns(p, j)', Owns(q, j)',
                        w'[p].beat \notin {"lost", "dead"}, w'[q].beat \notin {"lost", "dead"}
                 PROVE  FALSE
      BY DEF ExclusiveRun
    <2>1. w'[p].beat \in Kept /\ w'[q].beat \in Kept
      BY DEF TypeInv, TypeOK, Worker, Kept
    <2>2. Owns(p, j) /\ Owns(q, j) /\ w[p].beat \in Kept /\ w[q].beat \in Kept
      BY <2>1, <1>j, <1>o DEF Owns, Calm, WorkerCalm
    <2>3. QED
      BY <2>2 DEF SafetyInv, ExclusiveRun, Kept
  <1>9. BeatsLater'
    BY DEF SafetyInv, BeatsLater, Calm, WorkerCalm
  <1>10. QED
    BY <1>1, <1>2, <1>3, <1>4, <1>5, <1>6, <1>7, <1>8, <1>9 DEF SafetyInv

(***************************************************************************)
(* Which steps are calm.                                                   *)
(***************************************************************************)
\* One worker moving calmly is a calm move of all workers.
LEMMA BecomeCalm ==
    ASSUME TypeInv, NEW p \in Procs, NEW v, Become(p, v), WorkerCalm(w[p], v)
    PROVE  \A q \in Procs : WorkerCalm(w[q], w'[q])
  <1>1. ASSUME NEW q \in Procs PROVE WorkerCalm(w[q], w[q])
    BY DEF WorkerCalm
  <1>2. w'[p] = v /\ \A q \in Procs \ {p} : w'[q] = w[q]
    BY DEF Become, TypeInv, TypeOK
  <1>3. QED
    BY <1>1, <1>2

\* Moving within the same part of run_job, or back into the loop, is calm.
LEMMA GotoCalm ==
    ASSUME TypeInv, NEW p \in Procs, NEW l \in PCs \ {"check"}, Goto(p, l),
           l \in Held => w[p].pc \in Held,
           l \in OwnPC => w[p].pc \in OwnPC,
           l \in StreamPC => w[p].pc \in StreamPC,
           l \in Waiting => w[p].pc \in Waiting,
           l \in Quiet => w[p].pc \in Quiet
    PROVE  \A q \in Procs : WorkerCalm(w[q], w'[q])
  <1>1. w[p] \in Worker
    BY DEF TypeInv, TypeOK
  <1>2. WorkerCalm(w[p], [w[p] EXCEPT !.pc = l])
    BY <1>1 DEF WorkerCalm, Worker
  <1>3. QED
    BY <1>2, BecomeCalm DEF Goto

\* Leaving run_job is calm.
LEMMA IdleCalm ==
    ASSUME TypeInv, NEW p \in Procs, NEW l \in {"top", "dead", "down"}, Become(p, Idle(l))
    PROVE  \A q \in Procs : WorkerCalm(w[q], w'[q])
  <1>1. WorkerCalm(w[p], Idle(l))
    BY DEF WorkerCalm, Idle, Held, ClaimPC, OwnPC, StreamPC, FinishPC, Waiting, Quiet, LoopPC
  <1>2. QED
    BY <1>1, BecomeCalm

\* Ending a run is calm.
LEMMA FinishCalm ==
    ASSUME TypeInv, NEW p \in Procs, NEW s \in Terminal, w[p].pc \in OwnPC, Finish(p, s)
    PROVE  \A q \in Procs : WorkerCalm(w[q], w'[q])
  <1>1. w[p] \in Worker
    BY DEF TypeInv, TypeOK
  <1>2. WorkerCalm(w[p], [w[p] EXCEPT !.pc = "close", !.out = s])
    BY <1>1 DEF WorkerCalm, Worker, Held, OwnPC, StreamPC, FinishPC, ClaimPC, Waiting, Quiet, LoopPC
  <1>3. QED
    BY <1>2, BecomeCalm DEF Finish

\* A calm write of one job row is a calm write of the table.
LEMMA SetJobCalm ==
    ASSUME TypeInv, NEW j \in Jobs, NEW r, SetJob(j, r), JobCalm(job[j], r)
    PROVE  \A i \in Jobs : JobCalm(job[i], job'[i])
  <1>1. ASSUME NEW i \in Jobs PROVE JobCalm(job[i], job[i])
    BY DEF JobCalm
  <1>2. job'[j] = r /\ \A i \in Jobs \ {j} : job'[i] = job[i]
    BY DEF SetJob, TypeInv, TypeOK
  <1>3. QED
    BY <1>1, <1>2

\* mark_terminal on a job of the table is calm.
LEMMA MarkCalm ==
    ASSUME TypeInv, NEW j \in Jobs, NEW s \in Terminal, job[j].status # "none", MarkTerminal(j, s)
    PROVE  \A i \in Jobs : JobCalm(job[i], job'[i])
  <1>1. job[j] \in JobRow
    BY DEF TypeInv, TypeOK
  <1>2. JobCalm(job[j], [job[j] EXCEPT !.status = s])
    BY <1>1 DEF JobCalm, JobRow, Terminal
  <1>3. QED
    BY <1>2, SetJobCalm DEF MarkTerminal

\* Raising the cancel flag is calm.
LEMMA CancelCalm ==
    ASSUME TypeInv, NEW j \in Jobs, RequestCancel(j)
    PROVE  \A i \in Jobs : JobCalm(job[i], job'[i])
  <1>1. job[j] \in JobRow
    BY DEF TypeInv, TypeOK
  <1>2. JobCalm(job[j], [job[j] EXCEPT !.cancel = TRUE])
    BY <1>1 DEF JobCalm, JobRow
  <1>3. QED
    BY <1>2, SetJobCalm DEF RequestCancel

\* What does not change is calm.
LEMMA SameCalm ==
    /\ UNCHANGED job => \A j \in Jobs : JobCalm(job[j], job'[j])
    /\ UNCHANGED enq => \A j \in Jobs : EnqCalm(enq[j], enq'[j])
    /\ UNCHANGED w => \A p \in Procs : WorkerCalm(w[p], w'[p])
  BY DEF JobCalm, EnqCalm, WorkerCalm

\* The worker loop is calm, except when it looks for a job.
LEMMA PollCalm ==
    ASSUME TypeInv, NEW p \in Procs, ClearWake(p) \/ Sleep(p) \/ Woken(p) \/ PollTimeout(p)
    PROVE  Calm
  <1>1. (\A q \in Procs : WorkerCalm(w[q], w'[q])) /\ UNCHANGED <<job, enq>>
    BY GotoCalm DEF ClearWake, Sleep, Woken, PollTimeout, PCs, LoopPC, Held, ClaimPC, OwnPC,
                    StreamPC, FinishPC, Waiting, Quiet, db, reqs
  <1>2. ASSUME NEW q \in Procs, w'[q].pc \in Waiting, wake[q] PROVE wake'[q]
    <2>1. CASE ClearWake(p)
      <3>1. w'[p].pc = "peek"
        BY <2>1 DEF ClearWake, Goto, Become, TypeInv, TypeOK, Worker
      <3>2. QED
        BY <1>2, <2>1, <3>1 DEF ClearWake, Waiting, Quiet, LoopPC, ClaimPC, FinishPC, TypeInv, TypeOK
    <2>2. CASE ~ClearWake(p)
      BY <1>2, <2>2 DEF Sleep, Woken, PollTimeout
    <2>3. QED
      BY <2>1, <2>2
  <1>3. QED
    BY <1>1, <1>2, SameCalm DEF Calm

\* Expiring jobs is calm once they have been selected.
LEMMA ExpireCalm ==
    ASSUME TypeInv, SafetyInv, NEW p \in Procs, ExpireMark(p) \/ FinalizeRow(p) \/ FinalizeEvent(p)
    PROVE  Calm
  <1>0. w[p] \in Worker
    BY DEF TypeInv, TypeOK
  <1>1. CASE ExpireMark(p)
    <2> DEFINE u(j) == [w[p] EXCEPT !.pc = IF w[p].todo = {j} THEN "finalize" ELSE "mark",
                                    !.todo = @ \ {j}, !.fin = @ \cup {j}]
    <2>1. PICK j \in w[p].todo : MarkTerminal(j, "expired") /\ Become(p, u(j))
      BY <1>1 DEF ExpireMark
    <2>2. j \in Jobs /\ job[j].status # "none"
      BY <1>0 DEF SafetyInv, ReadFromTable, Worker
    <2>3. \A i \in Jobs : JobCalm(job[i], job'[i])
      BY <2>1, <2>2, MarkCalm DEF Terminal
    <2>4. WorkerCalm(w[p], u(j))
      <3>1. u(j).todo = w[p].todo \ {j} /\ u(j).fin = w[p].fin \cup {j} /\ u(j).job = w[p].job
        BY <1>0 DEF Worker
      <3>2. u(j).pc \in {"finalize", "mark"} /\ u(j).beat = w[p].beat
        BY <1>0 DEF Worker
      <3> HIDE DEF u
      <3>3. QED
        BY <1>1, <3>1, <3>2 DEF ExpireMark, WorkerCalm, Held, ClaimPC, OwnPC, StreamPC, FinishPC, Waiting, Quiet, LoopPC
    <2>5. \A q \in Procs : WorkerCalm(w[q], w'[q])
      BY <2>1, <2>4, BecomeCalm
    <2>6. QED
      BY <1>1, <2>3, <2>5, SameCalm DEF ExpireMark, Calm, reqs
  <1>2. CASE FinalizeRow(p)
    <2> DEFINE u(j) == [w[p] EXCEPT !.pc = "finalized", !.todo = {j}, !.fin = @ \ {j}]
    <2>1. PICK j \in w[p].fin : Become(p, u(j))
      BY <1>2 DEF FinalizeRow
    <2>2. WorkerCalm(w[p], u(j))
      <3>1. /\ u(j).todo = {j} /\ u(j).fin = w[p].fin \ {j} /\ u(j).job = w[p].job
            /\ u(j).pc = "finalized" /\ u(j).beat = w[p].beat
        BY <1>0 DEF Worker
      <3> HIDE DEF u
      <3>2. QED
        BY <1>2, <3>1 DEF FinalizeRow, WorkerCalm, Held, ClaimPC, OwnPC, StreamPC, FinishPC, Waiting, Quiet, LoopPC
    <2>3. \A q \in Procs : WorkerCalm(w[q], w'[q])
      BY <2>1, <2>2, BecomeCalm
    <2>4. QED
      BY <1>2, <2>3, SameCalm DEF FinalizeRow, Calm, reqs
  <1>3. CASE FinalizeEvent(p)
    <2> DEFINE u == [w[p] EXCEPT !.pc = IF w[p].fin = {} THEN "claim" ELSE "finalize", !.todo = {}]
    <2>1. Return(p) \/ Become(p, u)
      BY <1>3 DEF FinalizeEvent
    <2>2. WorkerCalm(w[p], u)
      <3>1. /\ u.todo = {} /\ u.fin = w[p].fin /\ u.job = w[p].job
            /\ u.pc \in {"claim", "finalize"} /\ u.beat = w[p].beat
        BY <1>0 DEF Worker
      <3> HIDE DEF u
      <3>2. QED
        BY <1>3, <3>1 DEF FinalizeEvent, WorkerCalm, Held, ClaimPC, OwnPC, StreamPC, FinishPC, Waiting, Quiet, LoopPC
    <2>3. \A q \in Procs : WorkerCalm(w[q], w'[q])
      BY <2>1, <2>2, BecomeCalm, IdleCalm DEF Return
    <2>4. QED
      BY <1>3, <2>3, SameCalm DEF FinalizeEvent, Calm, reqs
  <1>4. QED
    BY <1>1, <1>2, <1>3

\* A claim is calm up to its UPDATE, and so is reaping.
LEMMA ClaimCalm ==
    ASSUME TypeInv, SafetyInv, NEW p \in Procs,
           ClaimSelect(p) \/ ClaimMiss(p) \/ ReapJob(p) \/ ReapRow(p) \/ ClaimLost(p)
    PROVE  Calm
  <1>0. w[p] \in Worker
    BY DEF TypeInv, TypeOK
  <1>1. CASE ClaimSelect(p)
    <2> DEFINE u == [w[p] EXCEPT !.pc = "take", !.seen = job[w[p].job].attempt]
    <2>1. /\ u.pc = "take" /\ u.job = w[p].job /\ u.todo = w[p].todo /\ u.fin = w[p].fin
          /\ u.beat = w[p].beat
      BY <1>0 DEF Worker
    <2>2. WorkerCalm(w[p], u)
      <3> HIDE DEF u
      <3> QED
        BY <1>1, <2>1 DEF ClaimSelect, WorkerCalm, Held, ClaimPC, OwnPC, StreamPC, FinishPC, Waiting, Quiet, LoopPC
    <2>3. \A q \in Procs : WorkerCalm(w[q], w'[q])
      BY <1>1, <2>2, BecomeCalm DEF ClaimSelect
    <2>4. QED
      BY <1>1, <2>3, SameCalm DEF ClaimSelect, Calm, reqs, db
  <1>2. CASE ClaimMiss(p) \/ ReapRow(p) \/ ClaimLost(p)
    <2>1. \A q \in Procs : WorkerCalm(w[q], w'[q])
      BY <1>2, GotoCalm, IdleCalm DEF ClaimMiss, ReapRow, ClaimLost, Return, PCs, Held, ClaimPC,
                                      OwnPC, StreamPC, FinishPC, Waiting, Quiet, LoopPC
    <2>2. QED
      BY <1>2, <2>1, SameCalm DEF ClaimMiss, ReapRow, ClaimLost, Calm, reqs, db
  <1>3. CASE ReapJob(p)
    <2>1. \A q \in Procs : WorkerCalm(w[q], w'[q])
      BY <1>3, GotoCalm DEF ReapJob, PCs, Held, ClaimPC, OwnPC, StreamPC, FinishPC, Waiting, Quiet, LoopPC
    <2>2. w[p].pc \in Held
      BY <1>3 DEF ReapJob, Held, ClaimPC
    <2>3. w[p].job \in Jobs /\ job[w[p].job].status # "none"
      BY <2>2, JobInHand DEF SafetyInv, ReadFromTable
    <2>4. \A i \in Jobs : JobCalm(job[i], job'[i])
      BY <1>3, <2>3, MarkCalm DEF ReapJob, Terminal
    <2>5. QED
      BY <1>3, <2>1, <2>4, SameCalm DEF ReapJob, Calm, reqs
  <1>4. QED
    BY <1>1, <1>2, <1>3

\* Streaming is calm after the pre-check.
LEMMA StreamCalm ==
    ASSUME TypeInv, NEW p \in Procs,
           \/ ExecuteRow(p) \/ ExecuteEvents(p) \/ StreamBoundary(p) \/ FetchChunk(p)
           \/ FetchEnd(p) \/ Decide(p)
    PROVE  Calm
  <1>0. w[p] \in Worker
    BY DEF TypeInv, TypeOK
  <1>1. w[p].pc \in StreamPC /\ w[p].pc \in OwnPC /\ w[p].pc \in Held
    BY DEF ExecuteRow, ExecuteEvents, StreamBoundary, FetchChunk, FetchEnd, Decide, StreamPC,
           OwnPC, Held
  <1>2. UNCHANGED <<job, enq, wake>>
    BY DEF ExecuteRow, ExecuteEvents, StreamBoundary, FetchChunk, FetchEnd, Decide, db, reqs
  <1> DEFINE u == [w[p] EXCEPT !.pc = "decide", !.run = "cancelled"]
             v == [w[p] EXCEPT !.pc = "stream", !.chunks = @ + 1]
  <1>3. WorkerCalm(w[p], u) /\ WorkerCalm(w[p], v)
    BY <1>0, <1>1 DEF Worker, WorkerCalm, Held, OwnPC, StreamPC, Waiting, Quiet, LoopPC, ClaimPC, FinishPC
  <1>4. \/ \E l \in {"created", "stream", "decide", "fetch"} : Goto(p, l)
        \/ \E s \in Terminal : Finish(p, s)
        \/ Become(p, u) \/ Become(p, v)
    BY DEF ExecuteRow, ExecuteEvents, StreamBoundary, FetchChunk, FetchEnd, Decide, Terminal
  <1>5. ASSUME NEW l \in {"created", "stream", "decide", "fetch"}, Goto(p, l)
        PROVE  \A q \in Procs : WorkerCalm(w[q], w'[q])
    <2>1. l \in PCs \ {"check"} /\ l \notin Waiting /\ l \notin Quiet
      BY <1>5 DEF PCs, OwnPC, StreamPC, Waiting, Quiet, LoopPC, ClaimPC, FinishPC
    <2>2. QED
      BY <1>1, <1>5, <2>1, GotoCalm
  <1>6. ASSUME NEW s \in Terminal, Finish(p, s)
        PROVE  \A q \in Procs : WorkerCalm(w[q], w'[q])
    BY <1>1, <1>6, FinishCalm
  <1>7. \A q \in Procs : WorkerCalm(w[q], w'[q])
    <2> HIDE DEF u, v
    <2> QED
      BY <1>3, <1>4, <1>5, <1>6, BecomeCalm
  <1>8. QED
    BY <1>2, <1>7, SameCalm DEF Calm

\* Writing the terminal state is calm.
LEMMA SettleCalm ==
    ASSUME TypeInv, SafetyInv, NEW p \in Procs, Settle(p)
    PROVE  Calm
  <1>0. w[p] \in Worker
    BY DEF TypeInv, TypeOK
  <1>1. w[p].pc \in OwnPC /\ w[p].pc \in Held /\ UNCHANGED <<enq, wake>>
    BY DEF Settle, CloseItems, FinishRow, PersistTerminal, FinishJob, FinishPC, OwnPC, Held, reqs
  <1>2. CASE CloseItems(p)
    <2> DEFINE u == [w[p] EXCEPT !.pc = "finrow", !.chunks = 0]
    <2>1. WorkerCalm(w[p], u)
      BY <1>0, <1>1 DEF Worker, WorkerCalm, Held, OwnPC, StreamPC, FinishPC, Waiting, Quiet, LoopPC, ClaimPC
    <2>2. \A q \in Procs : WorkerCalm(w[q], w'[q])
      BY <1>2, <2>1, BecomeCalm DEF CloseItems
    <2>3. QED
      BY <1>1, <1>2, <2>2, SameCalm DEF CloseItems, Calm
  <1>3. CASE FinishRow(p) \/ PersistTerminal(p)
    <2>1. \A q \in Procs : WorkerCalm(w[q], w'[q])
      BY <1>1, <1>3, GotoCalm DEF FinishRow, PersistTerminal, PCs, OwnPC, StreamPC, FinishPC, Waiting, Quiet, LoopPC, ClaimPC
    <2>2. QED
      BY <1>1, <1>3, <2>1, SameCalm DEF FinishRow, PersistTerminal, Calm
  <1>4. CASE FinishJob(p)
    <2>1. \A q \in Procs : WorkerCalm(w[q], w'[q])
      BY <1>4, IdleCalm DEF FinishJob, Return
    <2>2. w[p].job \in Jobs /\ job[w[p].job].status # "none" /\ w[p].out \in Terminal
      BY <1>0, <1>1, JobInHand DEF SafetyInv, ReadFromTable, Worker
    <2>3. \A i \in Jobs : JobCalm(job[i], job'[i])
      BY <1>4, <2>2, MarkCalm DEF FinishJob
    <2>4. QED
      BY <1>1, <2>1, <2>3, SameCalm DEF Calm
  <1>5. QED
    BY <1>2, <1>3, <1>4 DEF Settle

\* The heartbeat is calm: it extends a live lease only.
LEMMA HeartbeatCalm ==
    ASSUME TypeInv, SafetyInv, NEW p \in Procs, Heartbeat(p)
    PROVE  Calm
  <1>0. w[p] \in Worker /\ w[p].pc \in OwnPC
    BY DEF TypeInv, TypeOK, Heartbeat, Renew, RenewRefused, Beating
  <1>b. w[p].pc \notin Quiet
    BY DEF SafetyInv, BeatsLater, Heartbeat, Renew, RenewRefused, Beating
  <1>1. CASE Renew(p)
    <2>1. w[p].job \in Jobs
      BY <1>0, JobInHand DEF Held
    <2>2. job[w[p].job] \in JobRow /\ job[w[p].job].lease > 0
      BY <1>1, <2>1 DEF TypeInv, TypeOK, Renew, Renewable
    <2>3. JobCalm(job[w[p].job], [job[w[p].job] EXCEPT !.lease = LeaseTicks])
      BY <2>2, ConstAssumption DEF JobCalm, JobRow
    <2>4. \A i \in Jobs : JobCalm(job[i], job'[i])
      BY <1>1, <2>1, <2>3, SetJobCalm DEF Renew
    <2>5. QED
      BY <1>1, <2>4, SameCalm DEF Renew, Calm, reqs
  <1>2. CASE RenewRefused(p)
    <2> DEFINE u == [w[p] EXCEPT !.beat = "lost", !.run = IF @ = "run" THEN "cancelled" ELSE @]
    <2>1. WorkerCalm(w[p], u)
      BY <1>0, <1>b DEF Worker, WorkerCalm, Kept
    <2>2. \A q \in Procs : WorkerCalm(w[q], w'[q])
      BY <1>2, <2>1, BecomeCalm DEF RenewRefused
    <2>3. QED
      BY <1>2, <2>2, SameCalm DEF RenewRefused, Calm, reqs, db
  <1>3. QED
    BY <1>1, <1>2 DEF Heartbeat

\* Requests are calm, except the INSERT and the notify of an enqueue.
LEMMA RequestCalm ==
    ASSUME TypeInv, NEW j \in Jobs, NEW p \in Procs,
           \/ EnqueueRow(j, p) \/ EnqueueEvent(j, p)
           \/ CancelFlag(j, p) \/ CancelFlagFails(j, p) \/ Cancel(j, p) \/ RequestFails(j, p)
    PROVE  Calm
  <1>1. CASE EnqueueRow(j, p) \/ EnqueueEvent(j, p)
    <2>1. enq[j] \in Requests(EnqPC) /\ enq \in [Jobs -> Requests(EnqPC)]
      BY DEF TypeInv, TypeOK
    <2>2. enq'[j].pc \in {"row", "event"} /\ enq[j].pc \in Unborn
      BY <1>1, <2>1 DEF EnqueueRow, EnqueueEvent, At, Unborn, Requests
    <2>3. \A i \in Jobs \ {j} : enq'[i] = enq[i]
      BY <1>1, <2>1 DEF EnqueueRow, EnqueueEvent
    <2>4. \A i \in Jobs : EnqCalm(enq[i], enq'[i])
      BY <2>2, <2>3 DEF EnqCalm, Unborn
    <2>5. QED
      BY <1>1, <2>4, SameCalm DEF EnqueueRow, EnqueueEvent, Calm
  <1>2. CASE CancelFlag(j, p) \/ CancelFlagFails(j, p) \/ CancelRow(j, p)
    <2>1. \A i \in Jobs : JobCalm(job[i], job'[i])
      BY <1>2, CancelCalm, SameCalm DEF CancelFlag, CancelFlagFails, CancelRow, db
    <2>2. QED
      BY <1>2, <2>1, SameCalm DEF CancelFlag, CancelFlagFails, CancelRow, Calm
  <1>3. CASE CancelHook(j, p)
    <2>1. \A i \in Jobs : JobCalm(job[i], job'[i])
      BY <1>3, CancelCalm DEF CancelHook
    <2>2. w[p] \in Worker
      BY DEF TypeInv, TypeOK
    <2>3. WorkerCalm(w[p], [w[p] EXCEPT !.run = "stopped"])
      BY <2>2 DEF Worker, WorkerCalm
    <2>4. \A q \in Procs : WorkerCalm(w[q], w'[q])
      BY <1>3, <2>3, BecomeCalm, SameCalm DEF CancelHook
    <2>5. QED
      BY <1>3, <2>1, <2>4, SameCalm DEF CancelHook, Calm
  <1>4. CASE RequestFails(j, p)
    <2>1. enq \in [Jobs -> Requests(EnqPC)]
      BY DEF TypeInv, TypeOK
    <2>2. ASSUME NEW i \in Jobs PROVE EnqCalm(enq[i], enq'[i])
      <3>1. enq'[i] = enq[i] \/ enq'[i] = [enq[i] EXCEPT !.pc = "lost"]
        BY <1>4, <2>1 DEF RequestFails
      <3>2. enq[i] \in Requests(EnqPC)
        BY <2>1
      <3>3. QED
        BY <3>1, <3>2 DEF EnqCalm, Requests, Unborn
    <2>3. QED
      BY <1>4, <2>2, SameCalm DEF RequestFails, Calm, db
  <1>5. QED
    BY <1>1, <1>2, <1>3, <1>4 DEF Cancel

\* Store errors, crashes and restarts are calm.
LEMMA FailureCalm ==
    ASSUME TypeInv, SafetyInv, NEW p \in Procs,
           RunRaises(p) \/ LoopDies(p) \/ HeartbeatDies(p) \/ Crash(p) \/ Restart(p)
    PROVE  Calm
  <1>0. w[p] \in Worker
    BY DEF TypeInv, TypeOK
  <1>1. CASE RunRaises(p)
    <2>1. w[p].pc \in OwnPC /\ w[p].pc \in Held
      BY <1>1 DEF RunRaises, Guarded, OwnPC, Held
    <2>2. \A q \in Procs : WorkerCalm(w[q], w'[q])
      BY <1>1, <2>1, FinishCalm, GotoCalm DEF RunRaises, Terminal, PCs, OwnPC, StreamPC, FinishPC, Waiting, Quiet, LoopPC, ClaimPC
    <2>3. QED
      BY <1>1, <2>2, SameCalm DEF RunRaises, Calm, db, reqs
  <1>2. CASE LoopDies(p)
    <2>1. \A q \in Procs : WorkerCalm(w[q], w'[q])
      BY <1>2, IdleCalm DEF LoopDies
    <2>2. QED
      BY <1>2, <2>1, SameCalm DEF LoopDies, Calm, db, reqs
  <1>3. CASE HeartbeatDies(p)
    <2>0. w[p].pc \notin Quiet
      BY <1>3 DEF SafetyInv, BeatsLater, HeartbeatDies, Beating
    <2>1. WorkerCalm(w[p], [w[p] EXCEPT !.beat = "dead"])
      BY <1>0, <2>0 DEF Worker, WorkerCalm, Kept
    <2>2. \A q \in Procs : WorkerCalm(w[q], w'[q])
      BY <1>3, <2>1, BecomeCalm DEF HeartbeatDies
    <2>3. QED
      BY <1>3, <2>2, SameCalm DEF HeartbeatDies, Calm, db, reqs
  <1>4. CASE Crash(p)
    <2>1. \A q \in Procs : WorkerCalm(w[q], w'[q])
      BY <1>4, IdleCalm DEF Crash
    <2>2. ASSUME NEW i \in Jobs PROVE EnqCalm(enq[i], enq'[i])
      <3>1. enq[i] \in Requests(EnqPC)
        BY DEF TypeInv, TypeOK
      <3>2. enq'[i] = enq[i] \/ enq'[i] = [enq[i] EXCEPT !.pc = "lost"]
        BY <1>4 DEF Crash, Lost
      <3>3. QED
        BY <3>1, <3>2 DEF EnqCalm, Requests, Unborn
    <2>3. ASSUME NEW q \in Procs, w'[q].pc \in Waiting, wake[q] PROVE wake'[q]
      <3>1. w'[p].pc = "down"
        BY <1>4 DEF Crash, Become, Idle, TypeInv, TypeOK
      <3>2. QED
        BY <1>4, <2>3, <3>1 DEF Crash, Waiting, Quiet, LoopPC, ClaimPC, FinishPC, TypeInv, TypeOK
    <2>4. QED
      BY <1>4, <2>1, <2>2, <2>3, SameCalm DEF Crash, Calm, db
  <1>5. CASE Restart(p)
    <2>1. \A q \in Procs : WorkerCalm(w[q], w'[q])
      BY <1>5, GotoCalm DEF Restart, PCs, LoopPC, Held, ClaimPC, OwnPC, StreamPC, FinishPC, Waiting, Quiet
    <2>2. QED
      BY <1>5, <2>1, SameCalm DEF Restart, Calm, db, reqs
  <1>6. QED
    BY <1>1, <1>2, <1>3, <1>4, <1>5

(***************************************************************************)
(* The eight steps that are not calm.                                      *)
(***************************************************************************)
\* A worker that changes outside the owning and the waiting part, with the
\* tables untouched, disturbs ReadFromTable at most.
LEMMA ReaderKeeps ==
    ASSUME TypeInv, SafetyInv, NEW p \in Procs, NEW v, Become(p, v),
           v.pc \notin OwnPC, v.pc \notin Waiting, UNCHANGED <<job, enq, wake>>,
           v.pc \in Held => job[v.job].status # "none",
           \A j \in v.todo \cup v.fin : job[j].status # "none",
           v.beat = "none"
    PROVE  SafetyInv'
  <1>1. w'[p] = v /\ \A q \in Procs \ {p} : w'[q] = w[q]
    BY DEF Become, TypeInv, TypeOK
  <1>2. StreamPC \subseteq OwnPC /\ "check" \in OwnPC
    BY DEF OwnPC
  <1>3. Inserted' /\ QueuedIsFresh'
    BY DEF SafetyInv, Inserted, QueuedIsFresh
  <1>4. ReadFromTable'
    BY <1>1 DEF SafetyInv, ReadFromTable
  <1>5. Awake'
    BY <1>1 DEF SafetyInv, Awake
  <1>6. CancelSeen'
    BY <1>1, <1>2 DEF SafetyInv, CancelSeen
  <1>7. LeaseHeld'
    BY <1>1 DEF SafetyInv, LeaseHeld
  <1>8. AttemptsDistinct'
    BY <1>1 DEF SafetyInv, AttemptsDistinct, Owns
  <1>9. ExclusiveRun'
    BY <1>1 DEF SafetyInv, ExclusiveRun, Owns
  <1>10. BeatsLater'
    BY <1>1 DEF SafetyInv, BeatsLater
  <1>11. QED
    BY <1>3, <1>4, <1>5, <1>6, <1>7, <1>8, <1>9, <1>10 DEF SafetyInv

\* Peeking a job and selecting the past-deadline jobs read them from the table.
LEMMA ReadersSafe ==
    ASSUME TypeInv, SafetyInv, NEW p \in Procs, PeekHit(p) \/ ExpireSelect(p)
    PROVE  SafetyInv'
  <1>0. w[p] \in Worker
    BY DEF TypeInv, TypeOK
  <1>1. CASE PeekHit(p)
    <2> DEFINE u(j) == [w[p] EXCEPT !.pc = "expire", !.job = j]
    <2>1. PICK j \in Jobs : Claimable(j) /\ Become(p, u(j))
      BY <1>1 DEF PeekHit
    <2>2. /\ u(j).pc = "expire" /\ u(j).job = j /\ u(j).todo = w[p].todo /\ u(j).fin = w[p].fin
          /\ u(j).beat = "none"
      BY <1>0, <1>1 DEF Worker, PeekHit, SafetyInv, BeatsLater, Quiet, LoopPC
    <2>3. job[j].status # "none"
      BY <2>1 DEF Claimable, Active
    <2> HIDE DEF u
    <2>4. u(j).pc \notin OwnPC /\ u(j).pc \notin Waiting
      BY <2>2 DEF OwnPC, StreamPC, FinishPC, Waiting
    <2>5. \A i \in u(j).todo \cup u(j).fin : job[i].status # "none"
      BY <2>2 DEF SafetyInv, ReadFromTable
    <2>6. UNCHANGED <<job, enq, wake>>
      BY <1>1 DEF PeekHit, db, reqs
    <2>7. QED
      BY <2>1, <2>2, <2>3, <2>4, <2>5, <2>6, ReaderKeeps
  <1>2. CASE ExpireSelect(p)
    <2> DEFINE u == [w[p] EXCEPT !.pc = IF PastDeadline = {} THEN "claim" ELSE "mark",
                                 !.todo = PastDeadline,
                                 !.ripe = (job[w[p].job].lease = 0)]
    <2>1. /\ u.pc \in {"claim", "mark"} /\ u.job = w[p].job /\ u.todo = PastDeadline
          /\ u.fin = w[p].fin /\ u.beat = "none"
      BY <1>0, <1>2 DEF Worker, ExpireSelect, SafetyInv, BeatsLater, Quiet, ClaimPC
    <2>2. Become(p, u) /\ UNCHANGED <<job, enq, wake>>
      BY <1>2 DEF ExpireSelect, db, reqs
    <2> HIDE DEF u
    <2>3. u.pc \notin OwnPC /\ u.pc \notin Waiting
      BY <2>1 DEF OwnPC, StreamPC, FinishPC, Waiting
    <2>4. job[u.job].status # "none"
      BY <1>2, <2>1 DEF ExpireSelect, SafetyInv, ReadFromTable, Held, ClaimPC
    <2>5. \A i \in u.todo \cup u.fin : job[i].status # "none"
      BY <2>1 DEF PastDeadline, Active, SafetyInv, ReadFromTable
    <2>6. QED
      BY <2>1, <2>2, <2>3, <2>4, <2>5, ReaderKeeps
  <1>3. QED
    BY <1>1, <1>2

\* An empty peek means no announced job is fresh: this is where clearing the
\* wake event before the peek matters.
LEMMA PeekMissSafe ==
    ASSUME TypeInv, SafetyInv, NEW p \in Procs, PeekMiss(p)
    PROVE  SafetyInv'
  <1>0. w[p] \in Worker
    BY DEF TypeInv, TypeOK
  <1>1. /\ w'[p].pc = "missed" /\ w'[p].todo = w[p].todo /\ w'[p].fin = w[p].fin
        /\ w'[p].beat = w[p].beat /\ w[p].pc = "peek"
        /\ \A q \in Procs \ {p} : w'[q] = w[q]
        /\ UNCHANGED <<job, enq, wake>>
    BY <1>0 DEF PeekMiss, Goto, Become, TypeInv, TypeOK, Worker, db, reqs
  <1>2. "missed" \notin OwnPC /\ "missed" \notin Held /\ StreamPC \subseteq OwnPC /\ "check" \in OwnPC
    BY DEF Held, ClaimPC, OwnPC, StreamPC, FinishPC
  <1>3. Inserted' /\ QueuedIsFresh'
    BY <1>1 DEF SafetyInv, Inserted, QueuedIsFresh
  <1>4. ReadFromTable'
    BY <1>1, <1>2 DEF SafetyInv, ReadFromTable
  <1>5. Awake'
    <2>1. ASSUME NEW j \in Jobs, job[j].status = "queued" PROVE job[j].ttl = 0
      <3>1. job[j].lease = 0 /\ job[j].attempt = 0
        BY <2>1 DEF SafetyInv, QueuedIsFresh
      <3>2. ~Claimable(j)
        BY DEF PeekMiss
      <3>3. QED
        BY <2>1, <3>1, <3>2, ConstAssumption DEF Claimable, Active
    <2>2. QED
      BY <1>1, <2>1 DEF SafetyInv, Awake
  <1>6. CancelSeen' /\ LeaseHeld'
    BY <1>1, <1>2 DEF SafetyInv, CancelSeen, LeaseHeld
  <1>7. AttemptsDistinct'
    BY <1>1, <1>2 DEF SafetyInv, AttemptsDistinct, Owns
  <1>8. ExclusiveRun'
    BY <1>1, <1>2 DEF SafetyInv, ExclusiveRun, Owns
  <1>9. BeatsLater'
    BY <1>1 DEF SafetyInv, BeatsLater, Quiet, LoopPC
  <1>10. QED
    BY <1>3, <1>4, <1>5, <1>6, <1>7, <1>8, <1>9 DEF SafetyInv

\* The INSERT of an enqueue touches a job nobody has read, and announces nothing yet.
LEMMA EnqueueJobSafe ==
    ASSUME TypeInv, SafetyInv, NEW j \in Jobs, NEW p \in Procs, EnqueueJob(j, p)
    PROVE  SafetyInv'
  <1>1. enq[j] \in Requests(EnqPC) /\ enq \in [Jobs -> Requests(EnqPC)] /\ job \in [Jobs -> JobRow]
    BY DEF TypeInv, TypeOK
  <1>2. enq[j].pc = "event" /\ enq'[j].pc = "inserted" /\ \A i \in Jobs \ {j} : enq'[i] = enq[i]
    BY <1>1 DEF EnqueueJob, At, Requests
  <1>3. /\ job'[j].status = "queued" /\ job'[j].lease = 0 /\ job'[j].attempt = 0
        /\ \A i \in Jobs \ {j} : job'[i] = job[i]
    BY <1>1 DEF EnqueueJob, SetJob
  <1>4. job[j].status = "none" /\ UNCHANGED <<w, wake>>
    BY <1>2 DEF SafetyInv, Inserted, Unborn, EnqueueJob
  <1>5. ASSUME NEW q \in Procs, w[q].pc \in Held PROVE w[q].job \in Jobs /\ w[q].job # j
    BY <1>4, <1>5, JobInHand DEF SafetyInv, ReadFromTable
  <1>6. ASSUME NEW q \in Procs, w[q].pc \in OwnPC
        PROVE  w[q].job \in Jobs /\ job'[w[q].job] = job[w[q].job]
    BY <1>3, <1>5, <1>6 DEF Held
  <1>7. Inserted'
    BY <1>2, <1>3 DEF SafetyInv, Inserted, Unborn
  <1>8. ReadFromTable'
    <2>1. ASSUME NEW q \in Procs, NEW i \in w[q].todo \cup w[q].fin PROVE i \in Jobs
      BY <2>1 DEF TypeInv, TypeOK, Worker
    <2>2. QED
      BY <1>3, <1>4, <1>5, <2>1 DEF SafetyInv, ReadFromTable
  <1>9. QueuedIsFresh'
    BY <1>3 DEF SafetyInv, QueuedIsFresh
  <1>10. Awake'
    BY <1>2, <1>3, <1>4 DEF SafetyInv, Awake
  <1>11. CancelSeen' /\ LeaseHeld'
    BY <1>4, <1>6 DEF SafetyInv, CancelSeen, LeaseHeld, OwnPC
  <1>12. AttemptsDistinct'
    BY <1>4, <1>6 DEF SafetyInv, AttemptsDistinct, Owns
  <1>13. ExclusiveRun' /\ BeatsLater'
    BY <1>4 DEF SafetyInv, ExclusiveRun, BeatsLater, Owns
  <1>14. QED
    BY <1>7, <1>8, <1>9, <1>10, <1>11, <1>12, <1>13 DEF SafetyInv

\* notify() sets the event of the process it announces the job to.
LEMMA NotifySafe ==
    ASSUME TypeInv, SafetyInv, NEW j \in Jobs, NEW p \in Procs, Notify(j, p)
    PROVE  SafetyInv'
  <1>1. enq[j] \in Requests(EnqPC) /\ enq \in [Jobs -> Requests(EnqPC)] /\ wake \in [Procs -> BOOLEAN]
    BY DEF TypeInv, TypeOK
  <1>2. enq'[j] = [pc |-> "done", at |-> p] /\ \A i \in Jobs \ {j} : enq'[i] = enq[i]
    BY <1>1 DEF Notify, At, Requests
  <1>3. wake'[p] /\ \A q \in Procs \ {p} : wake'[q] = wake[q]
    BY <1>1 DEF Notify
  <1>4. UNCHANGED <<job, w>>
    BY DEF Notify, db
  <1>5. Inserted'
    BY <1>2, <1>4 DEF SafetyInv, Inserted, Unborn
  <1>6. Awake'
    BY <1>2, <1>3, <1>4 DEF SafetyInv, Awake
  <1>7. ReadFromTable' /\ QueuedIsFresh' /\ CancelSeen' /\ LeaseHeld'
    BY <1>4 DEF SafetyInv, ReadFromTable, QueuedIsFresh, CancelSeen, LeaseHeld
  <1>8. AttemptsDistinct' /\ ExclusiveRun' /\ BeatsLater'
    BY <1>4 DEF SafetyInv, AttemptsDistinct, ExclusiveRun, BeatsLater, Owns
  <1>9. QED
    BY <1>5, <1>6, <1>7, <1>8 DEF SafetyInv

\* The claim's UPDATE: the attempt it restates is one no run holds, and the
\* expired lease it restates means no run with a live heartbeat is left.
LEMMA ClaimUpdateSafe ==
    ASSUME TypeInv, SafetyInv, NEW p \in Procs, ClaimUpdate(p)
    PROVE  SafetyInv'
  <1> DEFINE k == w[p].job
  <1>0. w[p] \in Worker /\ w[p].pc = "take"
    BY DEF TypeInv, TypeOK, ClaimUpdate
  <1>1. w[p].pc \in Held /\ k \in Jobs /\ job[k] \in JobRow /\ job[k].status # "none"
    <2>1. w[p].pc \in Held
      BY <1>0 DEF Held, ClaimPC
    <2>2. QED
      BY <2>1, JobInHand DEF SafetyInv, ReadFromTable, TypeInv, TypeOK
  <1>2. /\ w'[p].pc = "check" /\ w'[p].job = k /\ w'[p].seen = w[p].seen
        /\ w'[p].todo = w[p].todo /\ w'[p].fin = w[p].fin /\ w'[p].beat = w[p].beat
        /\ w'[p].early = job[k].cancel
        /\ \A q \in Procs \ {p} : w'[q] = w[q]
    BY <1>0 DEF ClaimUpdate, Become, TypeInv, TypeOK, Worker
  <1>3. /\ job'[k].status = "in_progress" /\ job'[k].lease = LeaseTicks
        /\ job'[k].attempt = w[p].seen + 1 /\ job'[k].cancel = job[k].cancel
        /\ \A i \in Jobs \ {k} : job'[i] = job[i]
    BY <1>1 DEF ClaimUpdate, SetJob, TypeInv, TypeOK, JobRow
  <1>4. job[k].attempt = w[p].seen /\ job[k].lease = 0 /\ UNCHANGED <<enq, wake>>
    BY DEF ClaimUpdate, ClaimGuard, reqs
  <1>5. w[p].seen \in Nat /\ LeaseTicks \in Nat /\ LeaseTicks > 0
    BY <1>0, ConstAssumption DEF Worker
  <1>6. "check" \in OwnPC /\ "check" \notin StreamPC /\ "check" \notin Waiting /\ OwnPC \subseteq Held
    BY DEF OwnPC, StreamPC, Waiting, Held
  <1>7. ASSUME NEW q \in Procs, q # p, w[q].pc \in OwnPC
        PROVE  /\ w'[q] = w[q] /\ w[q].job \in Jobs
               /\ w[q].seen \in Nat /\ job[w[q].job].attempt \in Nat
               /\ w[q].seen < job[w[q].job].attempt
    <2>1. w'[q] = w[q] /\ w[q].job \in Jobs
      BY <1>2, <1>6, <1>7, JobInHand
    <2>2. w[q] \in Worker /\ job[w[q].job] \in JobRow
      BY <2>1 DEF TypeInv, TypeOK
    <2>3. QED
      BY <1>7, <2>1, <2>2 DEF SafetyInv, AttemptsDistinct, Worker, JobRow
  <1> HIDE DEF k
  <1>8. Inserted'
    BY <1>1, <1>3, <1>4 DEF SafetyInv, Inserted
  <1>9. ReadFromTable'
    <2>1. ASSUME NEW q \in Procs, w'[q].pc \in Held PROVE job'[w'[q].job].status # "none"
      <3>1. w[q].pc \in Held /\ w'[q].job = w[q].job /\ w[q].job \in Jobs
        BY <1>1, <1>2, <2>1, JobInHand DEF k
      <3>2. QED
        BY <1>3, <3>1 DEF SafetyInv, ReadFromTable
    <2>2. ASSUME NEW q \in Procs, NEW j \in w'[q].todo \cup w'[q].fin PROVE job'[j].status # "none"
      <3>1. j \in w[q].todo \cup w[q].fin /\ j \in Jobs
        BY <1>2, <2>2 DEF TypeInv, TypeOK, Worker
      <3>2. QED
        BY <1>3, <3>1 DEF SafetyInv, ReadFromTable
    <2>3. QED
      BY <2>1, <2>2 DEF ReadFromTable
  <1>10. QueuedIsFresh'
    BY <1>3 DEF SafetyInv, QueuedIsFresh
  <1>11. Awake'
    BY <1>2, <1>3, <1>4, <1>6 DEF SafetyInv, Awake
  <1>12. CancelSeen'
    <2>1. ASSUME NEW q \in Procs, w'[q].pc \in StreamPC PROVE ~w'[q].early
      BY <1>2, <1>6, <2>1 DEF SafetyInv, CancelSeen
    <2>2. ASSUME NEW q \in Procs, w'[q].pc = "check", w'[q].early PROVE job'[w'[q].job].cancel
      BY <1>2, <1>3, <1>6, <1>7, <2>2 DEF SafetyInv, CancelSeen
    <2>3. QED
      BY <2>1, <2>2 DEF CancelSeen
  <1>13. LeaseHeld'
    <2> SUFFICES ASSUME Timely, NEW q \in Procs, w'[q].pc \in OwnPC, w'[q].beat \in Kept
                 PROVE  job'[w'[q].job].lease > 0
      BY DEF LeaseHeld
    <2>1. CASE q = p
      BY <1>2, <1>3, <1>5, <2>1
    <2>2. CASE q # p
      BY <1>2, <1>3, <1>5, <1>7, <2>2 DEF SafetyInv, LeaseHeld
    <2>3. QED
      BY <2>1, <2>2
  <1>14. AttemptsDistinct'
    <2>1. ASSUME NEW q \in Procs, w'[q].pc \in OwnPC
          PROVE  w'[q].seen < job'[w'[q].job].attempt
      <3>1. CASE q = p
        BY <1>2, <1>3, <1>5, <3>1
      <3>2. CASE q # p
        BY <1>2, <1>3, <1>4, <1>5, <1>7, <2>1, <3>2
      <3>3. QED
        BY <3>1, <3>2
    <2>2. ASSUME NEW q \in Procs, q # p, w'[q].pc \in OwnPC, w'[q].job = k
          PROVE  w'[q].seen # w'[p].seen
      BY <1>2, <1>4, <1>5, <1>7, <2>2
    <2>3. ASSUME NEW q \in Procs, NEW r \in Procs, q # p, r # p, q # r,
                 w'[q].pc \in OwnPC, w'[r].pc \in OwnPC, w'[q].job = w'[r].job
          PROVE  w'[q].seen # w'[r].seen
      BY <1>2, <2>3 DEF SafetyInv, AttemptsDistinct, Owns
    <2>4. QED
      BY <1>2, <2>1, <2>2, <2>3 DEF AttemptsDistinct, Owns
  <1>15. ExclusiveRun'
    <2> SUFFICES ASSUME Timely, NEW q \in Procs, NEW r \in Procs, NEW j \in Jobs,
                        q # r, Owns(q, j)', Owns(r, j)',
                        w'[q].beat \notin {"lost", "dead"}, w'[r].beat \notin {"lost", "dead"}
                 PROVE  FALSE
      BY DEF ExclusiveRun
    <2>1. ASSUME NEW s \in Procs, s # p, w'[s].pc \in OwnPC, w'[s].job = k,
                 w'[s].beat \notin {"lost", "dead"}
          PROVE  FALSE
      <3>1. w[s].beat \in Kept /\ w[s].pc \in OwnPC /\ w[s].job = k
        BY <1>2, <2>1 DEF TypeInv, TypeOK, Worker, Kept
      <3>2. job[k].lease > 0
        BY <3>1 DEF SafetyInv, LeaseHeld
      <3>3. QED
        BY <1>4, <3>2
    <2>2. CASE q = p \/ r = p
      BY <1>2, <2>1, <2>2 DEF Owns
    <2>3. CASE q # p /\ r # p
      BY <1>2, <2>3 DEF SafetyInv, ExclusiveRun, Owns
    <2>4. QED
      BY <2>2, <2>3
  <1>16. BeatsLater'
    BY <1>0, <1>2 DEF SafetyInv, BeatsLater, Quiet, ClaimPC
  <1>17. QED
    BY <1>8, <1>9, <1>10, <1>11, <1>12, <1>13, <1>14, <1>15, <1>16 DEF SafetyInv

\* The pre-check lets a job stream only if it saw the cancel flag down.
LEMMA PreCheckSafe ==
    ASSUME TypeInv, SafetyInv, NEW p \in Procs, PreCheck(p)
    PROVE  SafetyInv'
  <1>0. w[p] \in Worker /\ w[p].pc = "check"
    BY DEF TypeInv, TypeOK, PreCheck
  <1>1. w[p].pc \in Held /\ w[p].pc \in OwnPC
    BY <1>0 DEF Held, OwnPC
  <1>2. /\ w'[p].job = w[p].job /\ w'[p].seen = w[p].seen /\ w'[p].early = w[p].early
        /\ w'[p].todo = w[p].todo /\ w'[p].fin = w[p].fin
        /\ \A q \in Procs \ {p} : w'[q] = w[q]
        /\ \/ w'[p].pc = "close" /\ w'[p].beat = w[p].beat
           \/ w'[p].pc = "start" /\ w'[p].beat = "on" /\ ~job[w[p].job].cancel
    <2> DEFINE u == [w[p] EXCEPT !.pc = "close", !.run = "cancelled", !.out = "cancelled"]
               v == [w[p] EXCEPT !.pc = "start", !.beat = "on"]
    <2>1. /\ u.job = w[p].job /\ u.seen = w[p].seen /\ u.early = w[p].early
          /\ u.todo = w[p].todo /\ u.fin = w[p].fin /\ u.pc = "close" /\ u.beat = w[p].beat
      BY <1>0 DEF Worker
    <2>2. /\ v.job = w[p].job /\ v.seen = w[p].seen /\ v.early = w[p].early
          /\ v.todo = w[p].todo /\ v.fin = w[p].fin /\ v.pc = "start" /\ v.beat = "on"
      BY <1>0 DEF Worker
    <2>3. Become(p, u) \/ (Become(p, v) /\ ~job[w[p].job].cancel)
      BY DEF PreCheck
    <2> HIDE DEF u, v
    <2>4. QED
      BY <2>1, <2>2, <2>3 DEF Become, TypeInv, TypeOK
  <1>3. UNCHANGED <<job, enq, wake>>
    BY DEF PreCheck, db, reqs
  <1>4. "close" \notin StreamPC /\ "close" \notin Waiting /\ "start" \notin Waiting
    BY DEF StreamPC, Waiting
  <1>5. w[p].beat = "none"
    BY <1>0 DEF SafetyInv, BeatsLater, Quiet
  <1>6. Inserted' /\ QueuedIsFresh'
    BY <1>3 DEF SafetyInv, Inserted, QueuedIsFresh
  <1>7. ReadFromTable'
    BY <1>1, <1>2, <1>3 DEF SafetyInv, ReadFromTable
  <1>8. Awake'
    BY <1>2, <1>3, <1>4 DEF SafetyInv, Awake
  <1>9. CancelSeen'
    BY <1>0, <1>2, <1>3, <1>4 DEF SafetyInv, CancelSeen
  <1>10. AttemptsDistinct'
    BY <1>1, <1>2, <1>3 DEF SafetyInv, AttemptsDistinct, Owns
  <1>11. LeaseHeld' /\ ExclusiveRun'
    BY <1>1, <1>2, <1>3, <1>5 DEF SafetyInv, LeaseHeld, ExclusiveRun, Owns, Kept
  <1>12. BeatsLater'
    BY <1>2 DEF SafetyInv, BeatsLater, Quiet, LoopPC, ClaimPC
  <1>13. QED
    BY <1>6, <1>7, <1>8, <1>9, <1>10, <1>11, <1>12 DEF SafetyInv

\* Time passes only while no live run is on its last tick.
LEMMA TickSafe ==
    ASSUME TypeInv, SafetyInv, Tick
    PROVE  SafetyInv'
  <1>0. UNCHANGED <<w, wake, enq>> /\ job \in [Jobs -> JobRow]
    BY DEF Tick, reqs, TypeInv, TypeOK
  <1>1. ASSUME NEW j \in Jobs
        PROVE  /\ job'[j].status = job[j].status /\ job'[j].attempt = job[j].attempt
               /\ job'[j].cancel = job[j].cancel
               /\ job'[j].lease = Dec(job[j].lease) /\ job'[j].ttl = Dec(job[j].ttl)
               /\ job[j].lease \in Nat
    <2>1. job[j] \in JobRow
      BY <1>0
    <2>2. job'[j] = [job[j] EXCEPT !.lease = Dec(@), !.ttl = Dec(@)]
      BY DEF Tick
    <2>3. QED
      BY <2>1, <2>2, ConstAssumption DEF JobRow
  <1>2. ASSUME NEW p \in Procs, w[p].pc \in Held PROVE w[p].job \in Jobs
    BY <1>2, JobInHand
  <1>o. OwnPC \subseteq Held /\ "check" \in OwnPC
    BY DEF Held, OwnPC
  <1>3. Inserted'
    BY <1>0, <1>1 DEF SafetyInv, Inserted
  <1>4. ReadFromTable'
    <2>1. ASSUME NEW p \in Procs, NEW j \in w[p].todo \cup w[p].fin PROVE j \in Jobs
      BY <2>1 DEF TypeInv, TypeOK, Worker
    <2>2. QED
      BY <1>0, <1>1, <1>2, <2>1 DEF SafetyInv, ReadFromTable
  <1>5. QueuedIsFresh'
    BY <1>1 DEF SafetyInv, QueuedIsFresh, Dec
  <1>6. Awake'
    BY <1>0, <1>1 DEF SafetyInv, Awake, Dec
  <1>7. CancelSeen' /\ BeatsLater'
    BY <1>0, <1>1, <1>2, <1>o DEF SafetyInv, CancelSeen, BeatsLater
  <1>8. LeaseHeld'
    <2> SUFFICES ASSUME Timely, NEW p \in Procs, w[p].pc \in OwnPC, w[p].beat \in Kept
                 PROVE  job'[w[p].job].lease > 0
      BY <1>0 DEF LeaseHeld
    <2>1. w[p].job \in Jobs /\ job[w[p].job].lease > 0 /\ job[w[p].job].lease # 1
      BY <1>2, <1>o DEF SafetyInv, LeaseHeld, Tick, LeaseSafe, Kept
    <2>2. QED
      BY <1>1, <2>1 DEF Dec
  <1>9. AttemptsDistinct' /\ ExclusiveRun'
    BY <1>0, <1>1, <1>2, <1>o DEF SafetyInv, AttemptsDistinct, ExclusiveRun, Owns
  <1>10. QED
    BY <1>3, <1>4, <1>5, <1>6, <1>7, <1>8, <1>9 DEF SafetyInv

(***************************************************************************)
(* The theorems.                                                           *)
(***************************************************************************)
\* The initial state satisfies the invariant.
LEMMA InitSafe == Init => SafetyInv
  <1> SUFFICES ASSUME Init PROVE SafetyInv
    OBVIOUS
  <1>1. \A p \in Procs : /\ w[p].pc = "top" /\ w[p].todo = {} /\ w[p].fin = {}
                         /\ w[p].beat = "none"
    BY DEF Init, Idle
  <1>2. "top" \notin Held /\ "top" \notin OwnPC /\ "top" \notin StreamPC /\ "top" \notin Waiting
    BY DEF Held, ClaimPC, OwnPC, StreamPC, FinishPC, Waiting
  <1>3. Inserted /\ QueuedIsFresh
    BY DEF Init, Inserted, QueuedIsFresh
  <1>4. ReadFromTable /\ Awake /\ CancelSeen /\ BeatsLater /\ LeaseHeld
    BY <1>1, <1>2 DEF ReadFromTable, Awake, CancelSeen, BeatsLater, LeaseHeld
  <1>5. AttemptsDistinct /\ ExclusiveRun
    BY <1>1, <1>2 DEF AttemptsDistinct, ExclusiveRun, Owns
  <1>6. QED
    BY <1>3, <1>4, <1>5 DEF SafetyInv

\* Every step keeps the invariant.
LEMMA NextSafe == TypeInv /\ TypeInv' /\ SafetyInv /\ [Next]_vars => SafetyInv'
  <1> SUFFICES ASSUME TypeInv, TypeInv', SafetyInv, [Next]_vars PROVE SafetyInv'
    OBVIOUS
  <1>1. CASE UNCHANGED vars
    <2>1. Calm
      BY <1>1, SameCalm DEF Calm, vars
    <2>2. QED
      BY <2>1, CalmKeeps
  <1>2. ASSUME NEW j \in Jobs, NEW p \in Procs,
               \/ EnqueueRow(j, p) \/ Enqueue(j, p)
               \/ CancelFlag(j, p) \/ CancelFlagFails(j, p) \/ Cancel(j, p) \/ RequestFails(j, p)
        PROVE  SafetyInv'
    BY <1>2, RequestCalm, EnqueueJobSafe, NotifySafe, CalmKeeps DEF Enqueue
  <1>3. ASSUME NEW p \in Procs, Poll(p) \/ Expire(p) PROVE SafetyInv'
    BY <1>3, PollCalm, ReadersSafe, PeekMissSafe, ExpireCalm, CalmKeeps DEF Poll, Expire
  <1>4. ASSUME NEW p \in Procs, Claim(p) PROVE SafetyInv'
    BY <1>4, ClaimCalm, ClaimUpdateSafe, CalmKeeps DEF Claim
  <1>5. ASSUME NEW p \in Procs, Stream(p) PROVE SafetyInv'
    BY <1>5, PreCheckSafe, StreamCalm, CalmKeeps DEF Stream
  <1>6. ASSUME NEW p \in Procs, Settle(p) \/ Heartbeat(p) PROVE SafetyInv'
    BY <1>6, SettleCalm, HeartbeatCalm, CalmKeeps
  <1>7. ASSUME NEW p \in Procs,
               RunRaises(p) \/ LoopDies(p) \/ HeartbeatDies(p) \/ Crash(p) \/ Restart(p)
        PROVE  SafetyInv'
    BY <1>7, FailureCalm, CalmKeeps
  <1>8. QED
    BY <1>1, <1>2, <1>3, <1>4, <1>5, <1>6, <1>7, TickSafe DEF Next, WorkerStep

\* The inductive invariant holds in every reachable state.
LEMMA AlwaysSafe == Spec => []SafetyInv
  BY InitType, NextType, InitSafe, NextSafe, PTL DEF Spec

\* However many processes share the database, whatever crashes and whatever
\* store statement fails, two runs of one job hold different attempt numbers and
\* none holds a number the table has not counted.
THEOREM AttemptsDistinctAlways == Spec => []AttemptsDistinct
  <1>1. SafetyInv => AttemptsDistinct
    BY DEF SafetyInv
  <1>2. QED
    BY AlwaysSafe, <1>1, PTL

\* While heartbeats are timely, claim_job gives a job to one live run at a time.
THEOREM ExclusiveRunAlways == Spec => []ExclusiveRun
  <1>1. SafetyInv => ExclusiveRun
    BY DEF SafetyInv
  <1>2. QED
    BY AlwaysSafe, <1>1, PTL

\* A worker loop never sleeps on a fresh job its own process has announced.
THEOREM NoLostWakeupAlways == Spec => []NoLostWakeup
  <1>1. SafetyInv => NoLostWakeup
    BY DEF SafetyInv, Awake, NoLostWakeup, Waiting
  <1>2. QED
    BY AlwaysSafe, <1>1, PTL

\* A job that was cancelled before it was claimed never streams.
THEOREM CancelledNeverStreamsAlways == Spec => []CancelledBeforeClaimNeverStreams
  <1>1. SafetyInv => CancelledBeforeClaimNeverStreams
    BY DEF SafetyInv, CancelSeen, CancelledBeforeClaimNeverStreams
  <1>2. QED
    BY AlwaysSafe, <1>1, PTL

(***************************************************************************)
(* How background jobs end.                                                *)
(*                                                                         *)
(* A heartbeat that a store error killed lets the lease of a live run end, *)
(* a second run starts, and the two write row, log and job in any order.   *)
(* Without that accident a job has one run at a time; what the run writes  *)
(* in three steps can be read as one, and the job table implements         *)
(* JobLifecycle.                                                           *)
(***************************************************************************)
\* No store error has killed the heartbeat of a live run.
Healthy == \A p \in Procs : w'[p].beat # "dead"

\* Spec without that error: crashes, stops, cancels and all other store errors
\* remain.
HealthySpec == Init /\ [][Next /\ Healthy]_vars

\* The job row was ended by a run: not by an expiry, nor by the reaper.
Over(r) == r.status \in Terminal \ {"expired"} /\ ~(r.status = "failed" /\ r.attempt = MaxRecoveryAttempts)

\* The log is closed by the event of status s, or an expiry has written to it.
EndsWith(l, s) == (\E i \in 1..Len(l) : l[i] = "expired") \/ (l # <<>> /\ l[Len(l)] = s)

\* No process runs the job.
Orphan(j) == \A p \in Procs : ~Owns(p, j)

\* What is known of a process: a run has the latest attempt and a job that is
\* not active once its heartbeat was refused; a claim that may still succeed
\* has no rival; what a run writes last rests on what it wrote before.
Sound(p) ==
    /\ w[p].pc \in OwnPC =>
          /\ job[w[p].job].attempt = w[p].seen + 1
          /\ w[p].beat # "dead" /\ (w[p].beat = "lost" => job[w[p].job].status \notin Active)
    /\ w[p].pc = "take" =>
          /\ w[p].seen <= job[w[p].job].attempt
          /\ w[p].seen = job[w[p].job].attempt => Orphan(w[p].job)
    /\ w[p].pc = "reap" => job[w[p].job].attempt = MaxRecoveryAttempts
    /\ w[p].pc \in {"finevent", "finjob"} => row[w[p].job] \in Terminal
    /\ w[p].pc = "finjob" => EndsWith(log[w[p].job], w[p].out)

\* A job ended by its run can be read, and nobody will write to it any more.
Readable(j) == Over(job[j]) => Orphan(j) /\ row[j] \in Terminal /\ EndsWith(log[j], job[j].status)

Settling == (\A p \in Procs : Sound(p)) /\ (\A j \in Jobs : Readable(j))

(***************************************************************************)
(* Most steps are tame: they end no job, and write row and log of a job    *)
(* only where its run has not got to.                                      *)
(***************************************************************************)
Marked == {"take", "reap", "finevent", "finjob"}

WorkerTame(a, b) ==
    /\ b.pc \in OwnPC => a.pc \in OwnPC /\ b.job = a.job /\ b.seen = a.seen
    /\ b.pc \in OwnPC /\ b.beat \in {"lost", "dead"} => b.beat = a.beat
    /\ b.pc \in Marked => b.pc = a.pc /\ b.job = a.job /\ b.seen = a.seen /\ b.out = a.out
    /\ b.todo \cup b.fin \subseteq a.todo \cup a.fin \cup PastDeadline
    /\ b.out = "expired" => a.out = "expired"

JobTame(a, b) ==
    \/ a.status = "none" /\ b.status \notin Terminal
    \/ /\ b.attempt = a.attempt
       /\ b.status = a.status \/ (b.status \in Terminal /\ ~Over(b))

Untouched(j, done) == job[j].status = "none" \/ \E p \in Procs : Owns(p, j) /\ w[p].pc \notin done

RowTame(j) == row'[j] = row[j] \/ row'[j] \in Terminal \/ Untouched(j, {"finevent", "finjob"})

LogTame(j) ==
    \/ log'[j] = log[j] \/ Untouched(j, {"finjob"})
    \/ log'[j] # <<>> /\ log'[j][Len(log'[j])] = "expired"

TableTame(j) == JobTame(job[j], job'[j]) /\ RowTame(j) /\ LogTame(j)

Tables == \A j \in Jobs : TableTame(j)

NoNewOwner == \A p \in Procs, j \in Jobs : Owns(p, j)' => Owns(p, j)

\* A job has one run at a time.
LEMMA OneRun ==
    ASSUME TypeInv, SafetyInv, Settling, NEW p \in Procs, NEW q \in Procs, NEW j \in Jobs, Owns(p, j), Owns(q, j)
    PROVE  p = q
  <1>1. job[j].attempt = w[p].seen + 1 /\ job[j].attempt = w[q].seen + 1
    BY DEF Settling, Sound, Owns
  <1>2. w[p].seen \in Nat /\ w[q].seen \in Nat
    BY DEF TypeInv, TypeOK, Worker
  <1>3. p # q => w[p].seen # w[q].seen
    BY DEF SafetyInv, AttemptsDistinct, Owns
  <1>4. QED
    BY <1>1, <1>2, <1>3

\* A job that its run has not finished is not over, and none of its runs is further.
LEMMA UntouchedIs ==
    ASSUME TypeInv, SafetyInv, Settling, NEW j \in Jobs, NEW done, Untouched(j, done)
    PROVE  /\ ~Over(job[j])
           /\ \A p \in Procs : w[p].pc \in Held /\ w[p].job = j /\ w[p].pc \in done => w[p].pc \notin OwnPC
  <1>1. CASE job[j].status = "none"
    <2>1. ASSUME NEW p \in Procs, w[p].pc \in Held, w[p].job = j PROVE FALSE
      BY <1>1, <2>1 DEF SafetyInv, ReadFromTable
    <2>2. ~Over(job[j])
      BY <1>1 DEF Over, Terminal
    <2>3. QED
      BY <2>1, <2>2
  <1>2. CASE \E p \in Procs : Owns(p, j) /\ w[p].pc \notin done
    <2>1. PICK p \in Procs : Owns(p, j) /\ w[p].pc \notin done
      BY <1>2
    <2>2. ~Over(job[j])
      BY <2>1 DEF Settling, Readable, Orphan
    <2>3. ASSUME NEW q \in Procs, w[q].pc \in OwnPC, w[q].job = j PROVE q = p
      BY <2>1, <2>3, OneRun DEF Owns
    <2>4. QED
      BY <2>1, <2>2, <2>3
  <1>3. QED
    BY <1>1, <1>2 DEF Untouched

\* A process that moves tamely beside tame tables stays sound.
LEMMA SoundKept ==
    ASSUME TypeInv, TypeInv', SafetyInv, Settling, Tables, NoNewOwner, NEW p \in Procs,
           WorkerTame(w[p], w'[p])
    PROVE  Sound(p)'
  <1>k. PICK k : k = w[p].job
    OBVIOUS
  <1>0. OwnPC \subseteq Held /\ "take" \in Held /\ "reap" \in Held /\ "finevent" \in OwnPC /\ "finjob" \in OwnPC
    BY DEF Held, ClaimPC, OwnPC, FinishPC
  <1>1. ASSUME w'[p].pc \in OwnPC \/ w'[p].pc \in Marked
        PROVE  /\ w'[p].job = k /\ w'[p].seen = w[p].seen /\ k \in Jobs /\ w[p].pc \in Held
               /\ job[k].status # "none" /\ job'[k].attempt = job[k].attempt
    <2>1. w'[p].job = k /\ w'[p].seen = w[p].seen /\ w[p].pc \in Held
      BY <1>0, <1>1, <1>k DEF WorkerTame, Marked
    <2>2. k \in Jobs /\ job[k].status # "none"
      BY <1>k, <2>1, JobInHand DEF SafetyInv, ReadFromTable
    <2>3. job'[k].attempt = job[k].attempt
      BY <2>2 DEF Tables, TableTame, JobTame
    <2>4. QED
      BY <2>1, <2>2, <2>3
  <1>s. Sound(p)
    BY DEF Settling
  <1>2. ASSUME w'[p].pc \in OwnPC
        PROVE  /\ job'[w'[p].job].attempt = w'[p].seen + 1
               /\ w'[p].beat # "dead" /\ (w'[p].beat = "lost" => job'[w'[p].job].status \notin Active)
    <2>1. w[p].pc \in OwnPC /\ job[k].attempt = w[p].seen + 1
      BY <1>2, <1>s, <1>k DEF Sound, WorkerTame
    <2>2. w'[p].beat # "dead"
      BY <1>2, <1>s, <1>k, <2>1 DEF Sound, WorkerTame
    <2>3. ASSUME w'[p].beat = "lost" PROVE job'[k].status \notin Active
      <3>1. job[k].status \notin Active
        BY <1>2, <1>s, <1>k, <2>1, <2>3 DEF Sound, WorkerTame
      <3>2. job'[k].status = job[k].status \/ job'[k].status \in Terminal
        BY <1>1, <1>2 DEF Tables, TableTame, JobTame
      <3>3. QED
        BY <3>1, <3>2 DEF Active, Terminal
    <2>4. QED
      BY <1>1, <1>2, <2>1, <2>2, <2>3
  <1>3. ASSUME w'[p].pc = "take"
        PROVE  /\ w'[p].seen <= job'[w'[p].job].attempt
               /\ w'[p].seen = job'[w'[p].job].attempt => Orphan(w[p].job)'
    <2>1. w[p].pc = "take" /\ w'[p].pc \in Marked
      BY <1>3 DEF WorkerTame, Marked
    <2>2. Orphan(k) => Orphan(k)'
      BY <1>1, <2>1 DEF NoNewOwner, Orphan
    <2>3. w[p].seen <= job[k].attempt /\ (w[p].seen = job[k].attempt => Orphan(k))
      BY <2>1, <1>s, <1>k DEF Sound
    <2>4. w'[p].job = k /\ w'[p].seen = w[p].seen /\ job'[k].attempt = job[k].attempt
      BY <1>1, <2>1
    <2>5. Orphan(k)' => Orphan(w[p].job)'
      BY <2>4 DEF Orphan, Owns
    <2>6. QED
      BY <2>2, <2>3, <2>4, <2>5
  <1>4. ASSUME w'[p].pc = "reap" PROVE job'[w'[p].job].attempt = MaxRecoveryAttempts
    BY <1>1, <1>4, <1>s, <1>k DEF Sound, WorkerTame, Marked
  <1>5. ASSUME w'[p].pc \in {"finevent", "finjob"} PROVE row'[w'[p].job] \in Terminal
    <2>1. w[p].pc = w'[p].pc /\ w[p].pc \in OwnPC /\ w[p].pc \in Held /\ w'[p].job = k /\ k \in Jobs
      BY <1>0, <1>1, <1>5 DEF WorkerTame, Marked
    <2>2. ~Untouched(k, {"finevent", "finjob"})
      BY <1>5, <1>k, <2>1, UntouchedIs
    <2>3. row[k] \in Terminal
      BY <1>5, <1>s, <1>k, <2>1 DEF Sound
    <2>4. QED
      BY <2>1, <2>2, <2>3 DEF Tables, TableTame, RowTame
  <1>6. ASSUME w'[p].pc = "finjob" PROVE EndsWith(log'[w'[p].job], w'[p].out)
    <2>1. /\ w[p].pc = "finjob" /\ w[p].pc \in OwnPC /\ w[p].pc \in Held /\ w'[p].job = k /\ k \in Jobs
          /\ w'[p].out = w[p].out
      BY <1>0, <1>1, <1>6 DEF WorkerTame, Marked
    <2>2. ~Untouched(k, {"finjob"})
      BY <1>k, <2>1, UntouchedIs
    <2>3. EndsWith(log[k], w[p].out)
      BY <1>s, <1>k, <2>1 DEF Sound
    <2>4. log'[k] \in Seq(Events)
      BY <2>1 DEF TypeInv, TypeOK
    <2>5. CASE log'[k] = log[k]
      BY <2>1, <2>3, <2>5
    <2>6. CASE log'[k] # <<>> /\ log'[k][Len(log'[k])] = "expired"
      BY <2>1, <2>4, <2>6 DEF EndsWith
    <2>7. QED
      BY <2>1, <2>2, <2>5, <2>6 DEF Tables, TableTame, LogTame
  <1>7. QED
    BY <1>2, <1>3, <1>4, <1>5, <1>6 DEF Sound

\* What can be read of a job that is over stays so beside tame tables.
LEMMA ReadableKept ==
    ASSUME TypeInv, TypeInv', SafetyInv, Settling, NoNewOwner, NEW j \in Jobs, TableTame(j)
    PROVE  Readable(j)'
  <1> SUFFICES ASSUME Over(job'[j])
               PROVE  Orphan(j)' /\ row'[j] \in Terminal /\ EndsWith(log'[j], job'[j].status)
    BY DEF Readable
  <1>1. job'[j].status = job[j].status /\ job'[j].attempt = job[j].attempt
    BY DEF TableTame, JobTame, Over
  <1>2. Over(job[j])
    BY <1>1 DEF Over
  <1>3. Orphan(j) /\ row[j] \in Terminal /\ EndsWith(log[j], job[j].status)
    BY <1>2 DEF Settling, Readable
  <1>4. \A done : ~Untouched(j, done)
    BY <1>2, UntouchedIs
  <1>5. Orphan(j)'
    BY <1>3 DEF Orphan, NoNewOwner
  <1>6. row'[j] \in Terminal
    BY <1>3, <1>4 DEF TableTame, RowTame
  <1>7. EndsWith(log'[j], job'[j].status)
    <2>1. log'[j] \in Seq(Events)
      BY DEF TypeInv, TypeOK
    <2>2. CASE log'[j] = log[j]
      BY <1>1, <1>3, <2>2
    <2>3. CASE log'[j] # <<>> /\ log'[j][Len(log'[j])] = "expired"
      BY <2>1, <2>3 DEF EndsWith
    <2>4. QED
      BY <1>4, <2>2, <2>3 DEF TableTame, LogTame
  <1>8. QED
    BY <1>5, <1>6, <1>7

Tame == Tables /\ \A p \in Procs : WorkerTame(w[p], w'[p])

\* A tame step keeps the invariant.
LEMMA TameKeeps ==
    ASSUME TypeInv, TypeInv', SafetyInv, Settling, Tame
    PROVE  Settling'
  <1>1. NoNewOwner
    BY DEF Tame, WorkerTame, NoNewOwner, Owns
  <1>2. QED
    BY <1>1, SoundKept, ReadableKept DEF Tame, Tables, Settling

(***************************************************************************)
(* Which steps are tame.  Those that also leave status and attempt of      *)
(* every job alone are still.                                              *)
(***************************************************************************)
StillJob(a, b) == b.status = a.status /\ b.attempt = a.attempt /\ (a.ttl = -1 => b.ttl = -1)

Still == \A j \in Jobs : StillJob(job[j], job'[j])

\* What does not change is tame.
LEMMA SameTame ==
    /\ UNCHANGED job => Still
    /\ UNCHANGED row => \A j \in Jobs : RowTame(j)
    /\ UNCHANGED log => \A j \in Jobs : LogTame(j)
    /\ UNCHANGED w => \A p \in Procs : WorkerTame(w[p], w'[p])
    /\ Still => \A j \in Jobs : JobTame(job[j], job'[j])
  BY DEF Still, StillJob, RowTame, LogTame, WorkerTame, JobTame

\* One worker moving tamely is a tame move of all workers.
LEMMA BecomeTame ==
    ASSUME TypeInv, NEW p \in Procs, NEW v, Become(p, v), WorkerTame(w[p], v)
    PROVE  \A q \in Procs : WorkerTame(w[q], w'[q])
  <1>1. ASSUME NEW q \in Procs PROVE WorkerTame(w[q], w[q])
    BY DEF WorkerTame
  <1>2. w'[p] = v /\ \A q \in Procs \ {p} : w'[q] = w[q]
    BY DEF Become, TypeInv, TypeOK
  <1>3. QED
    BY <1>1, <1>2

\* Moving within the run, or within the rest of the loop, is tame.
LEMMA GotoTame ==
    ASSUME TypeInv, NEW p \in Procs, NEW l \in PCs \ Marked, Goto(p, l), l \in OwnPC => w[p].pc \in OwnPC
    PROVE  \A q \in Procs : WorkerTame(w[q], w'[q])
  <1>1. w[p] \in Worker
    BY DEF TypeInv, TypeOK
  <1>2. WorkerTame(w[p], [w[p] EXCEPT !.pc = l])
    BY <1>1 DEF WorkerTame, Worker
  <1>3. QED
    BY <1>2, BecomeTame DEF Goto

\* Leaving run_job is tame for the workers.
LEMMA IdleTame ==
    ASSUME TypeInv, NEW p \in Procs, NEW l \in {"top", "dead", "down"}, Become(p, Idle(l))
    PROVE  \A q \in Procs : WorkerTame(w[q], w'[q])
  <1>1. WorkerTame(w[p], Idle(l))
    BY DEF WorkerTame, Idle, OwnPC, StreamPC, FinishPC, Marked
  <1>2. QED
    BY <1>1, BecomeTame

\* Deciding how a run ends is tame.
LEMMA FinishTame ==
    ASSUME TypeInv, NEW p \in Procs, NEW s \in Terminal \ {"expired"}, w[p].pc \in OwnPC, Finish(p, s)
    PROVE  \A q \in Procs : WorkerTame(w[q], w'[q])
  <1>1. w[p] \in Worker
    BY DEF TypeInv, TypeOK
  <1>2. WorkerTame(w[p], [w[p] EXCEPT !.pc = "close", !.out = s])
    BY <1>1 DEF WorkerTame, Worker, Marked
  <1>3. QED
    BY <1>2, BecomeTame DEF Finish

\* Writing a terminal status, or the row of a job whose run has not got there.
LEMMA RowIsTame ==
    ASSUME TypeInv, NEW j \in Jobs, NEW s, SetRow(j, s),
           s \in Terminal \/ Untouched(j, {"finevent", "finjob"})
    PROVE  \A i \in Jobs : RowTame(i)
  BY DEF SetRow, RowTame, TypeInv, TypeOK

\* Appending the event of an expiry, or to the log of a job whose run has not got there.
LEMMA LogIsTame ==
    ASSUME TypeInv, NEW j \in Jobs, NEW e \in Events, AppendEvent(j, e),
           e = "expired" \/ Untouched(j, {"finjob"})
    PROVE  \A i \in Jobs : LogTame(i)
  <1>1. log'[j] = Append(log[j], e) /\ log[j] \in Seq(Events) /\ \A i \in Jobs \ {j} : log'[i] = log[i]
    BY DEF AppendEvent, TypeInv, TypeOK
  <1>2. Append(log[j], e) # <<>> /\ Append(log[j], e)[Len(Append(log[j], e))] = e
    BY <1>1
  <1>3. QED
    BY <1>1, <1>2 DEF LogTame

\* A write of one job row that leaves status and attempt alone.
LEMMA SetJobStill ==
    ASSUME TypeInv, NEW j \in Jobs, NEW r, SetJob(j, r), StillJob(job[j], r)
    PROVE  Still
  BY DEF SetJob, TypeInv, TypeOK, Still, StillJob

\* Raising the cancel flag is still.
LEMMA CancelStill ==
    ASSUME TypeInv, NEW j \in Jobs, RequestCancel(j)
    PROVE  Still
  <1>1. job[j] \in JobRow
    BY DEF TypeInv, TypeOK
  <1>2. StillJob(job[j], [job[j] EXCEPT !.cancel = TRUE])
    BY <1>1 DEF StillJob, JobRow
  <1>3. QED
    BY <1>2, SetJobStill DEF RequestCancel

\* The four parts of a still and tame step.
LEMMA TameParts ==
    ASSUME Still, \A j \in Jobs : RowTame(j), \A j \in Jobs : LogTame(j),
           \A p \in Procs : WorkerTame(w[p], w'[p])
    PROVE  Still /\ Tame
  BY SameTame DEF Tame, Tables, TableTame

\* Requests are tame; all but the INSERT of an enqueue are still.
LEMMA RequestTame ==
    ASSUME TypeInv, SafetyInv, NEW j \in Jobs, NEW p \in Procs,
           \/ EnqueueRow(j, p) \/ EnqueueEvent(j, p) \/ Notify(j, p)
           \/ CancelFlag(j, p) \/ CancelFlagFails(j, p) \/ Cancel(j, p) \/ RequestFails(j, p)
    PROVE  Still /\ Tame
  <1>1. CASE EnqueueRow(j, p) \/ EnqueueEvent(j, p)
    <2>1. enq[j].pc \in Unborn
      BY <1>1 DEF EnqueueRow, EnqueueEvent, At, Unborn
    <2>2. \A done : Untouched(j, done)
      BY <2>1 DEF SafetyInv, Inserted, Untouched
    <2>3. \A i \in Jobs : RowTame(i)
      BY <1>1, <2>2, RowIsTame, SameTame DEF EnqueueRow, EnqueueEvent
    <2>4. \A i \in Jobs : LogTame(i)
      BY <1>1, <2>2, LogIsTame, SameTame DEF EnqueueRow, EnqueueEvent, Events
    <2>5. QED
      BY <1>1, <2>3, <2>4, SameTame, TameParts DEF EnqueueRow, EnqueueEvent
  <1>2. CASE Notify(j, p) \/ CancelFlagFails(j, p) \/ RequestFails(j, p)
    BY <1>2, SameTame, TameParts DEF Notify, CancelFlagFails, RequestFails, db
  <1>3. CASE CancelFlag(j, p)
    BY <1>3, CancelStill, SameTame, TameParts DEF CancelFlag
  <1>4. CASE CancelRow(j, p)
    <2>1. \A i \in Jobs : RowTame(i)
      BY <1>4, RowIsTame DEF CancelRow, Terminal
    <2>2. QED
      BY <1>4, <2>1, SameTame, TameParts DEF CancelRow
  <1>5. CASE CancelHook(j, p)
    <2>1. w[p] \in Worker
      BY DEF TypeInv, TypeOK
    <2>2. WorkerTame(w[p], [w[p] EXCEPT !.run = "stopped"])
      BY <2>1 DEF Worker, WorkerTame
    <2>3. \A q \in Procs : WorkerTame(w[q], w'[q])
      BY <1>5, <2>2, BecomeTame, SameTame DEF CancelHook
    <2>4. QED
      BY <1>5, <2>3, CancelStill, SameTame, TameParts DEF CancelHook
  <1>6. QED
    BY <1>1, <1>2, <1>3, <1>4, <1>5 DEF Cancel

\* The INSERT of an enqueue is tame.
LEMMA InsertTame ==
    ASSUME TypeInv, SafetyInv, NEW j \in Jobs, NEW p \in Procs, EnqueueJob(j, p)
    PROVE  Tame
  <1>1. job[j].status = "none"
    BY DEF SafetyInv, Inserted, EnqueueJob, At, Unborn
  <1>2. job'[j].status = "queued" /\ \A i \in Jobs \ {j} : job'[i] = job[i]
    BY DEF EnqueueJob, SetJob, TypeInv, TypeOK
  <1>3. \A i \in Jobs : JobTame(job[i], job'[i])
    BY <1>1, <1>2 DEF JobTame, Terminal
  <1>4. UNCHANGED <<row, log, w>>
    BY DEF EnqueueJob
  <1>5. QED
    BY <1>3, <1>4, SameTame DEF Tame, Tables, TableTame

\* The worker loop is still.
LEMMA PollTame ==
    ASSUME TypeInv, NEW p \in Procs, Poll(p)
    PROVE  Still /\ Tame
  <1>0. w[p] \in Worker
    BY DEF TypeInv, TypeOK
  <1>1. UNCHANGED <<job, row, log>>
    BY DEF Poll, ClearWake, PeekHit, PeekMiss, Sleep, Woken, PollTimeout, db
  <1>2. CASE PeekHit(p)
    <2> DEFINE u(j) == [w[p] EXCEPT !.pc = "expire", !.job = j]
    <2>1. PICK j \in Jobs : Become(p, u(j))
      BY <1>2 DEF PeekHit
    <2>2. /\ u(j).pc = "expire" /\ u(j).todo = w[p].todo /\ u(j).fin = w[p].fin
          /\ u(j).out = w[p].out
      BY <1>0 DEF Worker
    <2>3. WorkerTame(w[p], u(j))
      <3> HIDE DEF u
      <3> QED
        BY <2>2 DEF WorkerTame, OwnPC, StreamPC, FinishPC, Marked
    <2>4. \A q \in Procs : WorkerTame(w[q], w'[q])
      BY <2>1, <2>3, BecomeTame
    <2>5. QED
      BY <1>1, <2>4, SameTame, TameParts
  <1>3. CASE ~PeekHit(p)
    <2>1. \A q \in Procs : WorkerTame(w[q], w'[q])
      BY <1>3, GotoTame DEF Poll, ClearWake, PeekMiss, Sleep, Woken, PollTimeout, PCs, LoopPC, OwnPC,
                            StreamPC, FinishPC, Marked
    <2>2. QED
      BY <1>1, <2>1, SameTame, TameParts
  <1>4. QED
    BY <1>2, <1>3

\* Selecting the past-deadline jobs, and telling readers of an expiry, are still.
LEMMA ExpireTame ==
    ASSUME TypeInv, NEW p \in Procs, ExpireSelect(p) \/ FinalizeRow(p) \/ FinalizeEvent(p)
    PROVE  Still /\ Tame
  <1>0. w[p] \in Worker
    BY DEF TypeInv, TypeOK
  <1>1. CASE ExpireSelect(p)
    <2> DEFINE u == [w[p] EXCEPT !.pc = IF PastDeadline = {} THEN "claim" ELSE "mark",
                                 !.todo = PastDeadline,
                                 !.ripe = (job[w[p].job].lease = 0)]
    <2>1. /\ u.pc \in {"claim", "mark"} /\ u.todo = PastDeadline /\ u.fin = w[p].fin
          /\ u.out = w[p].out
      BY <1>0 DEF Worker
    <2>2. WorkerTame(w[p], u)
      <3> HIDE DEF u
      <3> QED
        BY <2>1 DEF WorkerTame, OwnPC, StreamPC, FinishPC, Marked
    <2>3. \A q \in Procs : WorkerTame(w[q], w'[q])
      BY <1>1, <2>2, BecomeTame DEF ExpireSelect
    <2>4. QED
      BY <1>1, <2>3, SameTame, TameParts DEF ExpireSelect, db
  <1>2. CASE FinalizeRow(p)
    <2> DEFINE u(j) == [w[p] EXCEPT !.pc = "finalized", !.todo = {j}, !.fin = @ \ {j}]
    <2>1. PICK j \in w[p].fin : SetRow(j, "expired") /\ Become(p, u(j))
      BY <1>2 DEF FinalizeRow
    <2>2. /\ u(j).todo = {j} /\ u(j).fin = w[p].fin \ {j} /\ u(j).pc = "finalized"
          /\ u(j).out = w[p].out
      BY <1>0 DEF Worker
    <2>3. WorkerTame(w[p], u(j))
      <3> HIDE DEF u
      <3> QED
        BY <2>2 DEF WorkerTame, OwnPC, StreamPC, FinishPC, Marked
    <2>4. \A q \in Procs : WorkerTame(w[q], w'[q])
      BY <2>1, <2>3, BecomeTame
    <2>5. j \in Jobs
      BY <1>0 DEF Worker
    <2>6. \A i \in Jobs : RowTame(i)
      BY <2>1, <2>5, RowIsTame DEF Terminal
    <2>7. QED
      BY <1>2, <2>4, <2>6, SameTame, TameParts DEF FinalizeRow
  <1>3. CASE FinalizeEvent(p)
    <2> DEFINE u == [w[p] EXCEPT !.pc = IF w[p].fin = {} THEN "claim" ELSE "finalize", !.todo = {}]
    <2>1. PICK j \in w[p].todo : AppendEvent(j, "expired") /\ (Return(p) \/ Become(p, u))
      BY <1>3 DEF FinalizeEvent
    <2>2. u.todo = {} /\ u.fin = w[p].fin /\ u.pc \in {"claim", "finalize"} /\ u.out = w[p].out
      BY <1>0 DEF Worker
    <2>3. WorkerTame(w[p], u)
      <3> HIDE DEF u
      <3> QED
        BY <2>2 DEF WorkerTame, OwnPC, StreamPC, FinishPC, Marked
    <2>4. \A q \in Procs : WorkerTame(w[q], w'[q])
      BY <2>1, <2>3, BecomeTame, IdleTame DEF Return
    <2>5. j \in Jobs
      BY <1>0 DEF Worker
    <2>6. \A i \in Jobs : LogTame(i)
      BY <2>1, <2>5, LogIsTame DEF Events, Terminal
    <2>7. QED
      BY <1>3, <2>4, <2>6, SameTame, TameParts DEF FinalizeEvent
  <1>4. QED
    BY <1>1, <1>2, <1>3

\* mark_terminal of a job that nobody then takes for ended by its run is tame.
LEMMA MarkTame ==
    ASSUME TypeInv, NEW j \in Jobs, NEW s \in Terminal, MarkTerminal(j, s),
           s = "expired" \/ (s = "failed" /\ job[j].attempt = MaxRecoveryAttempts)
    PROVE  \A i \in Jobs : JobTame(job[i], job'[i])
  <1>1. job[j] \in JobRow
    BY DEF TypeInv, TypeOK
  <1>2. JobTame(job[j], [job[j] EXCEPT !.status = s])
    BY <1>1 DEF JobTame, JobRow, Over
  <1>3. \A i \in Jobs : JobTame(job[i], job[i])
    BY DEF JobTame
  <1>4. QED
    BY <1>2, <1>3 DEF MarkTerminal, SetJob, TypeInv, TypeOK

\* Marking a job expired, or an exhausted one failed, is tame.
LEMMA MarkersTame ==
    ASSUME TypeInv, Settling, NEW p \in Procs, ExpireMark(p) \/ ReapJob(p)
    PROVE  Tame
  <1>0. w[p] \in Worker
    BY DEF TypeInv, TypeOK
  <1>1. CASE ExpireMark(p)
    <2> DEFINE u(j) == [w[p] EXCEPT !.pc = IF w[p].todo = {j} THEN "finalize" ELSE "mark",
                                    !.todo = @ \ {j}, !.fin = @ \cup {j}]
    <2>1. PICK j \in w[p].todo : MarkTerminal(j, "expired") /\ Become(p, u(j))
      BY <1>1 DEF ExpireMark
    <2>2. /\ u(j).todo = w[p].todo \ {j} /\ u(j).fin = w[p].fin \cup {j} /\ u(j).pc \in {"finalize", "mark"}
          /\ u(j).out = w[p].out
      BY <1>0 DEF Worker
    <2>3. WorkerTame(w[p], u(j))
      <3> HIDE DEF u
      <3> QED
        BY <2>2 DEF WorkerTame, OwnPC, StreamPC, FinishPC, Marked
    <2>4. \A q \in Procs : WorkerTame(w[q], w'[q])
      BY <2>1, <2>3, BecomeTame
    <2>5. j \in Jobs
      BY <1>0 DEF Worker
    <2>6. \A i \in Jobs : JobTame(job[i], job'[i])
      BY <2>1, <2>5, MarkTame DEF Terminal
    <2>7. QED
      BY <1>1, <2>4, <2>6, SameTame DEF ExpireMark, Tame, Tables, TableTame
  <1>2. CASE ReapJob(p)
    <2>1. w[p].job \in Jobs /\ job[w[p].job].attempt = MaxRecoveryAttempts
      BY <1>2, JobInHand DEF ReapJob, Held, ClaimPC, Settling, Sound
    <2>2. \A i \in Jobs : JobTame(job[i], job'[i])
      BY <1>2, <2>1, MarkTame DEF ReapJob, Terminal
    <2>3. \A q \in Procs : WorkerTame(w[q], w'[q])
      BY <1>2, GotoTame DEF ReapJob, PCs, ClaimPC, OwnPC, StreamPC, FinishPC, Marked
    <2>4. QED
      BY <1>2, <2>2, <2>3, SameTame DEF ReapJob, Tame, Tables, TableTame
  <1>3. QED
    BY <1>1, <1>2

\* Giving a claim up is still.
LEMMA ClaimTame ==
    ASSUME TypeInv, NEW p \in Procs, (ClaimMiss(p) /\ Return(p)) \/ ReapRow(p) \/ ClaimLost(p)
    PROVE  Still /\ Tame
  <1>1. \A q \in Procs : WorkerTame(w[q], w'[q])
    BY IdleTame DEF ReapRow, ClaimLost, Return
  <1>2. CASE ReapRow(p)
    <2>1. w[p].job \in Jobs
      BY <1>2, JobInHand DEF ReapRow, Held, ClaimPC
    <2>2. \A i \in Jobs : RowTame(i)
      BY <1>2, <2>1, RowIsTame DEF ReapRow, Terminal
    <2>3. QED
      BY <1>1, <1>2, <2>2, SameTame, TameParts DEF ReapRow
  <1>3. CASE ClaimMiss(p) \/ ClaimLost(p)
    BY <1>1, <1>3, SameTame, TameParts DEF ClaimMiss, ClaimLost, db
  <1>4. QED
    BY <1>2, <1>3

\* A run up to its last row is still.
LEMMA StreamTame ==
    ASSUME TypeInv, NEW p \in Procs, Stream(p) \/ CloseItems(p)
    PROVE  Still /\ Tame
  <1>0. w[p] \in Worker
    BY DEF TypeInv, TypeOK
  <1>1. w[p].pc \in OwnPC /\ w[p].pc \notin {"finevent", "finjob"} /\ w[p].pc # "finjob"
    BY DEF Stream, PreCheck, ExecuteRow, ExecuteEvents, StreamBoundary, FetchChunk, FetchEnd, Decide, CloseItems,
           StreamPC, FinishPC, OwnPC
  <1>2. w[p].job \in Jobs
    BY <1>1, JobInHand DEF Held
  <1>3. Untouched(w[p].job, {"finevent", "finjob"}) /\ Untouched(w[p].job, {"finjob"})
    BY <1>1, <1>2 DEF Untouched, Owns
  <1>4. UNCHANGED job
    BY DEF Stream, PreCheck, ExecuteRow, ExecuteEvents, StreamBoundary, FetchChunk, FetchEnd, Decide, CloseItems, db
  <1>5. \A i \in Jobs : RowTame(i)
    BY <1>2, <1>3, RowIsTame, SameTame
       DEF Stream, PreCheck, ExecuteRow, ExecuteEvents, StreamBoundary, FetchChunk, FetchEnd, Decide, CloseItems, db
  <1>6. \A i \in Jobs : LogTame(i)
    BY <1>2, <1>3, LogIsTame, SameTame
       DEF Stream, PreCheck, ExecuteRow, ExecuteEvents, StreamBoundary, FetchChunk, FetchEnd, Decide, CloseItems, db,
           Events
  <1> DEFINE u == [w[p] EXCEPT !.pc = "decide", !.run = "cancelled"]
             v == [w[p] EXCEPT !.pc = "stream", !.chunks = @ + 1]
             x == [w[p] EXCEPT !.pc = "start", !.beat = "on"]
             y == [w[p] EXCEPT !.pc = "close", !.run = "cancelled", !.out = "cancelled"]
             z == [w[p] EXCEPT !.pc = "finrow", !.chunks = 0]
  <1>7. WorkerTame(w[p], u) /\ WorkerTame(w[p], v)
    BY <1>0, <1>1 DEF Worker, WorkerTame, Marked
  <1>8. WorkerTame(w[p], x) /\ WorkerTame(w[p], y) /\ WorkerTame(w[p], z)
    BY <1>0, <1>1 DEF Worker, WorkerTame, Marked
  <1>9. \/ \E l \in {"created", "stream", "decide", "fetch"} : Goto(p, l)
        \/ \E s \in Terminal \ {"expired"} : Finish(p, s)
        \/ Become(p, u) \/ Become(p, v) \/ Become(p, x) \/ Become(p, y) \/ Become(p, z)
    BY DEF Stream, PreCheck, ExecuteRow, ExecuteEvents, StreamBoundary, FetchChunk, FetchEnd, Decide, CloseItems, Terminal
  <1>10. ASSUME NEW l \in {"created", "stream", "decide", "fetch"}, Goto(p, l)
         PROVE  \A q \in Procs : WorkerTame(w[q], w'[q])
    <2>1. l \in PCs \ Marked
      BY DEF PCs, OwnPC, StreamPC, Marked
    <2>2. QED
      BY <1>1, <1>10, <2>1, GotoTame
  <1>11. ASSUME NEW s \in Terminal \ {"expired"}, Finish(p, s)
         PROVE  \A q \in Procs : WorkerTame(w[q], w'[q])
    BY <1>1, <1>11, FinishTame
  <1>12. \A q \in Procs : WorkerTame(w[q], w'[q])
    <2> HIDE DEF u, v, x, y, z
    <2> QED
      BY <1>7, <1>8, <1>9, <1>10, <1>11, BecomeTame
  <1>13. QED
    BY <1>4, <1>5, <1>6, <1>12, SameTame, TameParts

\* A renewal, store errors, crashes and restarts are still.
LEMMA FailureTame ==
    ASSUME TypeInv, NEW p \in Procs, Renew(p) \/ RunRaises(p) \/ LoopDies(p) \/ Crash(p) \/ Restart(p)
    PROVE  Still /\ Tame
  <1>1. CASE Renew(p)
    <2>1. w[p].job \in Jobs
      BY <1>1, JobInHand DEF Renew, Beating, Held
    <2>2. job[w[p].job] \in JobRow
      BY <2>1 DEF TypeInv, TypeOK
    <2>3. StillJob(job[w[p].job], [job[w[p].job] EXCEPT !.lease = LeaseTicks])
      BY <2>2 DEF StillJob, JobRow
    <2>4. Still
      BY <1>1, <2>1, <2>3, SetJobStill DEF Renew
    <2>5. QED
      BY <1>1, <2>4, SameTame, TameParts DEF Renew
  <1>2. CASE RunRaises(p)
    <2>1. w[p].pc \in OwnPC
      BY <1>2 DEF RunRaises, Guarded, OwnPC
    <2>2. Finish(p, "failed") \/ Goto(p, "finrow")
      BY <1>2 DEF RunRaises
    <2>3. "failed" \in Terminal \ {"expired"} /\ "finrow" \in PCs \ Marked
      BY DEF Terminal, PCs, OwnPC, FinishPC, Marked
    <2>4. \A q \in Procs : WorkerTame(w[q], w'[q])
      BY <2>1, <2>2, <2>3, FinishTame, GotoTame
    <2>5. QED
      BY <1>2, <2>4, SameTame, TameParts DEF RunRaises, db
  <1>3. CASE LoopDies(p) \/ Crash(p)
    <2>1. \A q \in Procs : WorkerTame(w[q], w'[q])
      BY <1>3, IdleTame DEF LoopDies, Crash
    <2>2. QED
      BY <1>3, <2>1, SameTame, TameParts DEF LoopDies, Crash, db
  <1>4. CASE Restart(p)
    <2>1. \A q \in Procs : WorkerTame(w[q], w'[q])
      BY <1>4, GotoTame DEF Restart, PCs, LoopPC, OwnPC, StreamPC, FinishPC, Marked
    <2>2. QED
      BY <1>4, <2>1, SameTame, TameParts DEF Restart, db
  <1>5. QED
    BY <1>1, <1>2, <1>3, <1>4

\* Time is still.
LEMMA TickTame ==
    ASSUME TypeInv, Tick
    PROVE  Still /\ Tame
  <1>1. ASSUME NEW j \in Jobs PROVE StillJob(job[j], job'[j])
    <2>1. job[j] \in JobRow
      BY DEF TypeInv, TypeOK
    <2>2. job'[j] = [job[j] EXCEPT !.lease = Dec(@), !.ttl = Dec(@)]
      BY DEF Tick
    <2>3. QED
      BY <2>1, <2>2 DEF JobRow, StillJob, Dec
  <1>2. QED
    BY <1>1, SameTame, TameParts DEF Still, Tick

(***************************************************************************)
(* The steps that are not tame.                                            *)
(***************************************************************************)
\* An active job without a lease has no run.
LEMMA Deserted ==
    ASSUME Timely, TypeInv, SafetyInv, Settling, NEW j \in Jobs, job[j].status \in Active, job[j].lease = 0
    PROVE  Orphan(j)
  <1> SUFFICES ASSUME NEW p \in Procs, Owns(p, j) PROVE FALSE
    BY DEF Orphan
  <1>1. w[p].beat \notin {"lost", "dead"}
    BY DEF Settling, Sound, Owns
  <1>2. w[p].beat \in Kept
    BY <1>1 DEF TypeInv, TypeOK, Worker, Kept
  <1>3. QED
    BY <1>2 DEF SafetyInv, LeaseHeld, Owns

\* A step of one process beside tame tables, which starts no run.
LEMMA LoneStep ==
    ASSUME TypeInv, TypeInv', SafetyInv, Settling, Tables, NEW p \in Procs, NEW v, Become(p, v),
           v.pc \in OwnPC => w[p].pc \in OwnPC /\ v.job = w[p].job, Sound(p)'
    PROVE  Settling'
  <1>1. w'[p] = v /\ \A q \in Procs \ {p} : w'[q] = w[q]
    BY DEF Become, TypeInv, TypeOK
  <1>2. NoNewOwner
    BY <1>1 DEF NoNewOwner, Owns
  <1>3. ASSUME NEW q \in Procs PROVE Sound(q)'
    <2>1. CASE q = p
      BY <2>1
    <2>2. CASE q # p
      <3>1. WorkerTame(w[q], w'[q])
        BY <1>1, <2>2 DEF WorkerTame
      <3>2. QED
        BY <1>2, <3>1, SoundKept
    <2>3. QED
      BY <2>1, <2>2
  <1>4. QED
    BY <1>2, <1>3, ReadableKept DEF Settling, Tables

\* The SELECT of a claim finds a job without a run.
LEMMA ClaimSelectSettles ==
    ASSUME Timely, TypeInv, TypeInv', SafetyInv, Settling, NEW p \in Procs, ClaimSelect(p)
    PROVE  Settling'
  <1>0. w[p] \in Worker /\ w[p].pc = "claim"
    BY DEF TypeInv, TypeOK, ClaimSelect
  <1>1. PICK k : k = w[p].job
    OBVIOUS
  <1>2. k \in Jobs /\ job[k].status \in Active /\ job[k].lease = 0
    BY <1>0, <1>1, JobInHand DEF ClaimSelect, Eligible, Held, ClaimPC
  <1>3. Orphan(k) /\ job[k].attempt \in Nat
    BY <1>2, Deserted, ConstAssumption, SMTT(30) DEF TypeInv, TypeOK, JobRow
  <1>4. PICK v : v = [w[p] EXCEPT !.pc = "take", !.seen = job[w[p].job].attempt]
    OBVIOUS
  <1>5. v.pc = "take" /\ v.job = k /\ v.seen = job[k].attempt
    BY <1>0, <1>1, <1>4 DEF Worker
  <1>6. Become(p, v) /\ UNCHANGED <<job, row, log>>
    BY <1>4 DEF ClaimSelect, db
  <1>7. w'[p] = v /\ \A q \in Procs \ {p} : w'[q] = w[q]
    BY <1>6 DEF Become, TypeInv, TypeOK
  <1>8. "take" \notin OwnPC
    BY DEF OwnPC, StreamPC, FinishPC
  <1>9. Orphan(k)'
    BY <1>3, <1>5, <1>7, <1>8 DEF Orphan, Owns
  <1>10. Orphan(w[p].job)'
    BY <1>5, <1>7, <1>9 DEF Orphan, Owns
  <1>11. Sound(p)'
    BY <1>3, <1>5, <1>6, <1>7, <1>8, <1>10 DEF Sound
  <1>12. Tables
    BY <1>6, SameTame DEF Tables, TableTame
  <1>13. QED
    BY <1>5, <1>6, <1>8, <1>11, <1>12, LoneStep

\* A claim that finds nothing reaps a job that has used up its attempts.
LEMMA ClaimMissSettles ==
    ASSUME TypeInv, TypeInv', SafetyInv, Settling, NEW p \in Procs, ClaimMiss(p)
    PROVE  Settling'
  <1>0. w[p] \in Worker /\ w[p].pc = "claim"
    BY DEF TypeInv, TypeOK, ClaimMiss
  <1>1. CASE Return(p)
    BY <1>1, ClaimTame, TameKeeps
  <1>2. CASE Goto(p, "reap") /\ Exhausted(w[p].job)
    <2>1. PICK v : v = [w[p] EXCEPT !.pc = "reap"]
      OBVIOUS
    <2>2. v.pc = "reap" /\ v.job = w[p].job
      BY <1>0, <2>1 DEF Worker
    <2>3. Become(p, v) /\ UNCHANGED <<job, row, log>>
      BY <1>2, <2>1 DEF ClaimMiss, Goto, db
    <2>4. w'[p] = v
      BY <2>3 DEF Become, TypeInv, TypeOK
    <2>5. w[p].job \in Jobs
      BY <1>0, JobInHand DEF Held, ClaimPC
    <2>6. job[w[p].job].attempt = MaxRecoveryAttempts
      BY <1>2, <2>5, ConstAssumption DEF Exhausted, TypeInv, TypeOK, JobRow
    <2>7. "reap" \notin OwnPC
      BY DEF OwnPC, StreamPC, FinishPC
    <2>8. Sound(p)'
      BY <2>2, <2>3, <2>4, <2>6, <2>7 DEF Sound
    <2>9. Tables
      BY <2>3, SameTame DEF Tables, TableTame
    <2>10. QED
      BY <2>2, <2>3, <2>7, <2>8, <2>9, LoneStep
  <1>3. QED
    BY <1>1, <1>2 DEF ClaimMiss

\* A refused renewal: the lease is live, so the job is no longer active.
LEMMA RefusedSettles ==
    ASSUME Timely, TypeInv, TypeInv', SafetyInv, Settling, NEW p \in Procs, RenewRefused(p)
    PROVE  Settling'
  <1>0. w[p] \in Worker /\ w[p].pc \in OwnPC /\ w[p].beat = "on"
    BY DEF TypeInv, TypeOK, RenewRefused, Beating
  <1>1. PICK v : v = [w[p] EXCEPT !.beat = "lost", !.run = IF @ = "run" THEN "cancelled" ELSE @]
    OBVIOUS
  <1>2. v.pc = w[p].pc /\ v.job = w[p].job /\ v.seen = w[p].seen /\ v.out = w[p].out /\ v.beat = "lost"
    BY <1>0, <1>1 DEF Worker
  <1>3. Become(p, v) /\ UNCHANGED <<job, row, log>>
    BY <1>1 DEF RenewRefused, db
  <1>4. w'[p] = v
    BY <1>3 DEF Become, TypeInv, TypeOK
  <1>5. job[w[p].job].lease > 0
    BY <1>0 DEF SafetyInv, LeaseHeld, Kept
  <1>6. job[w[p].job].status \notin Active
    BY <1>5 DEF RenewRefused, Renewable
  <1>7. w[p].pc # "take" /\ w[p].pc # "reap"
    BY <1>0 DEF OwnPC, StreamPC, FinishPC
  <1>8. Sound(p)
    BY DEF Settling
  <1>9. Sound(p)'
    BY <1>0, <1>2, <1>3, <1>4, <1>6, <1>7, <1>8 DEF Sound
  <1>10. Tables
    BY <1>3, SameTame DEF Tables, TableTame
  <1>11. QED
    BY <1>0, <1>2, <1>3, <1>9, <1>10, LoneStep

\* The terminal row and the terminal event of a run.
LEMMA LastWritesSettle ==
    ASSUME TypeInv, TypeInv', SafetyInv, Settling, NEW p \in Procs, FinishRow(p) \/ PersistTerminal(p)
    PROVE  Settling'
  <1>0. w[p] \in Worker /\ w[p].pc \in {"finrow", "finevent"} /\ w[p].pc \in OwnPC
    BY DEF TypeInv, TypeOK, FinishRow, PersistTerminal, OwnPC, FinishPC
  <1>1. PICK k : k = w[p].job
    OBVIOUS
  <1>2. k \in Jobs /\ w[p].out \in Terminal /\ log[k] \in Seq(Events)
    BY <1>0, <1>1, JobInHand DEF Held, Worker, TypeInv, TypeOK
  <1>3. Sound(p)
    BY DEF Settling
  <1>4. CASE FinishRow(p)
    <2>1. PICK v : v = [w[p] EXCEPT !.pc = "finevent"]
      OBVIOUS
    <2>2. v.pc = "finevent" /\ v.job = k /\ v.seen = w[p].seen /\ v.beat = w[p].beat
      BY <1>0, <1>1, <2>1 DEF Worker
    <2>3. Become(p, v) /\ UNCHANGED <<job, log>> /\ SetRow(k, w[p].out)
      BY <1>1, <1>4, <2>1 DEF FinishRow, Goto
    <2>4. w'[p] = v /\ row'[k] = w[p].out
      BY <1>2, <2>3 DEF Become, SetRow, TypeInv, TypeOK
    <2>5. Sound(p)'
      BY <1>0, <1>1, <1>2, <1>3, <2>2, <2>3, <2>4 DEF Sound
    <2>6. \A i \in Jobs : RowTame(i)
      BY <1>2, <2>3, RowIsTame
    <2>7. Tables
      BY <2>3, <2>6, SameTame DEF Tables, TableTame
    <2>8. QED
      BY <1>0, <1>1, <2>2, <2>3, <2>5, <2>7, LoneStep
  <1>5. CASE PersistTerminal(p)
    <2>1. PICK v : v = [w[p] EXCEPT !.pc = "finjob"]
      OBVIOUS
    <2>2. v.pc = "finjob" /\ v.job = k /\ v.seen = w[p].seen /\ v.beat = w[p].beat /\ v.out = w[p].out
      BY <1>0, <1>1, <2>1 DEF Worker
    <2>3. Become(p, v) /\ UNCHANGED <<job, row>> /\ AppendEvent(k, w[p].out) /\ w[p].pc = "finevent"
      BY <1>1, <1>5, <2>1 DEF PersistTerminal, Goto
    <2>4. w'[p] = v /\ log'[k] = Append(log[k], w[p].out)
      BY <1>2, <2>3 DEF Become, AppendEvent, TypeInv, TypeOK
    <2>5. EndsWith(log'[k], w[p].out)
      BY <1>2, <2>4 DEF EndsWith
    <2>6. Sound(p)'
      BY <1>0, <1>1, <1>2, <1>3, <2>2, <2>3, <2>4, <2>5 DEF Sound
    <2>7. Untouched(k, {"finjob"}) /\ w[p].out \in Events
      BY <1>0, <1>1, <1>2, <2>3 DEF Untouched, Owns, Events
    <2>8. \A i \in Jobs : LogTame(i)
      BY <1>2, <2>3, <2>7, LogIsTame
    <2>9. Tables
      BY <2>3, <2>8, SameTame DEF Tables, TableTame
    <2>10. QED
      BY <1>0, <1>1, <2>2, <2>3, <2>6, <2>9, LoneStep
  <1>6. QED
    BY <1>4, <1>5

\* A run makes its job terminal once row and log are in place, and is the only one.
LEMMA FinishJobSettles ==
    ASSUME TypeInv, TypeInv', SafetyInv, Settling, NEW p \in Procs, FinishJob(p)
    PROVE  Settling'
  <1>0. w[p] \in Worker /\ w[p].pc = "finjob" /\ w[p].pc \in OwnPC
    BY DEF TypeInv, TypeOK, FinishJob, OwnPC, FinishPC
  <1>1. PICK k : k = w[p].job
    OBVIOUS
  <1>2. PICK s : s = w[p].out
    OBVIOUS
  <1>3. k \in Jobs /\ s \in Terminal /\ job[k] \in JobRow /\ Owns(p, k)
    BY <1>0, <1>1, <1>2, JobInHand DEF Held, Worker, TypeInv, TypeOK, Owns
  <1>4. /\ job'[k].status = s /\ job'[k].attempt = job[k].attempt
        /\ \A i \in Jobs \ {k} : job'[i] = job[i]
    BY <1>1, <1>2, <1>3 DEF FinishJob, MarkTerminal, SetJob, TypeInv, TypeOK, JobRow
  <1>5. w'[p].pc = "top" /\ (\A q \in Procs \ {p} : w'[q] = w[q]) /\ UNCHANGED <<row, log>>
    BY DEF FinishJob, Return, Become, Idle, TypeInv, TypeOK
  <1>6. "top" \notin OwnPC /\ OwnPC \subseteq Held /\ "take" \in Held /\ "reap" \in Held
    BY DEF OwnPC, StreamPC, FinishPC, Held, ClaimPC
  <1>7. \A q \in Procs, j \in Jobs : Owns(q, j)' => Owns(q, j) /\ q # p
    BY <1>5, <1>6 DEF Owns
  <1>8. Orphan(k)'
    BY <1>3, <1>7, OneRun DEF Orphan
  <1>9. row[k] \in Terminal /\ EndsWith(log[k], s)
    BY <1>0, <1>1, <1>2 DEF Settling, Sound
  <1>10. ASSUME NEW j \in Jobs PROVE Readable(j)'
    <2>1. CASE j = k
      BY <1>4, <1>5, <1>8, <1>9, <2>1 DEF Readable
    <2>2. CASE j # k
      <3>1. Orphan(j) => Orphan(j)'
        BY <1>7 DEF Orphan
      <3>2. Readable(j)
        BY DEF Settling
      <3>3. QED
        BY <1>4, <1>5, <2>2, <3>1, <3>2 DEF Readable
    <2>3. QED
      BY <2>1, <2>2
  <1>11. ASSUME NEW q \in Procs PROVE Sound(q)'
    <2>1. CASE q = p
      BY <1>5, <1>6, <2>1 DEF Sound, OwnPC, StreamPC, FinishPC
    <2>2. CASE q # p
      <3>1. PICK m : m = w[q].job
        OBVIOUS
      <3>2. w'[q] = w[q] /\ Sound(q)
        BY <1>5, <2>2 DEF Settling
      <3>3. w[q].pc \in Held => m \in Jobs /\ job'[m].attempt = job[m].attempt
        BY <1>4, <3>1, JobInHand
      <3>4. w[q].pc \in OwnPC => m # k
        BY <1>3, <2>2, <3>1, OneRun DEF Owns
      <3>5. w[q].pc \in OwnPC => job'[m] = job[m]
        BY <1>4, <1>6, <3>3, <3>4
      <3>6. w[q].pc \in Held => (Orphan(m) => Orphan(m)')
        BY <1>7, <3>3 DEF Orphan
      <3>7. Orphan(m)' => Orphan(w[q].job)'
        BY <3>1, <3>2 DEF Orphan, Owns
      <3>8. /\ w'[q].pc \in OwnPC =>
                  /\ job'[w'[q].job].attempt = w'[q].seen + 1
                  /\ w'[q].beat # "dead" /\ (w'[q].beat = "lost" => job'[w'[q].job].status \notin Active)
        BY <3>1, <3>2, <3>5 DEF Sound
      <3>9. w'[q].pc = "take" =>
                  /\ w'[q].seen <= job'[w'[q].job].attempt
                  /\ w'[q].seen = job'[w'[q].job].attempt => Orphan(w[q].job)'
        BY <1>6, <3>1, <3>2, <3>3, <3>6, <3>7 DEF Sound
      <3>10. w'[q].pc = "reap" => job'[w'[q].job].attempt = MaxRecoveryAttempts
        BY <1>6, <3>1, <3>2, <3>3 DEF Sound
      <3>11. /\ w'[q].pc \in {"finevent", "finjob"} => row'[w'[q].job] \in Terminal
             /\ w'[q].pc = "finjob" => EndsWith(log'[w'[q].job], w'[q].out)
        BY <1>5, <3>2 DEF Sound
      <3>12. QED
        BY <3>8, <3>9, <3>10, <3>11 DEF Sound
    <2>3. QED
      BY <2>1, <2>2
  <1>12. QED
    BY <1>10, <1>11 DEF Settling

\* The UPDATE of a claim restates an attempt that no run has, and that is not the last.
LEMMA ClaimUpdateSettles ==
    ASSUME TypeInv, TypeInv', SafetyInv, SafetyInv', Settling, NEW p \in Procs, ClaimUpdate(p)
    PROVE  Settling'
  <1>0. w[p] \in Worker /\ w[p].pc = "take"
    BY DEF TypeInv, TypeOK, ClaimUpdate
  <1>1. PICK k : k = w[p].job
    OBVIOUS
  <1>2. PICK n : n = w[p].seen
    OBVIOUS
  <1>3. k \in Jobs /\ job[k] \in JobRow /\ n \in Nat /\ n < MaxRecoveryAttempts /\ job[k].attempt = n
    <2>1. k \in Jobs /\ n \in Nat
      BY <1>0, <1>1, <1>2, JobInHand DEF Held, ClaimPC, Worker
    <2>2. n < MaxRecoveryAttempts
      BY <1>0, <1>2 DEF TypeInv, GoodWorker
    <2>3. QED
      BY <1>1, <1>2, <2>1, <2>2 DEF ClaimUpdate, ClaimGuard, TypeInv, TypeOK
  <1>4. /\ job'[k].status = "in_progress" /\ job'[k].attempt = n + 1
        /\ \A i \in Jobs \ {k} : job'[i] = job[i]
    BY <1>1, <1>2, <1>3 DEF ClaimUpdate, SetJob, TypeInv, TypeOK, JobRow
  <1>5. /\ w'[p].pc = "check" /\ w'[p].job = k /\ w'[p].seen = n
        /\ \A q \in Procs \ {p} : w'[q] = w[q]
    BY <1>0, <1>1, <1>2 DEF ClaimUpdate, Become, TypeInv, TypeOK, Worker
  <1>6. UNCHANGED <<row, log>>
    BY DEF ClaimUpdate
  <1>7. w'[p].beat = "none"
    BY <1>5 DEF SafetyInv, BeatsLater, Quiet
  <1>8. Orphan(k)
    BY <1>0, <1>1, <1>2, <1>3 DEF Settling, Sound
  <1>9. OwnPC \subseteq Held /\ "take" \in Held /\ "reap" \in Held
    BY DEF Held, ClaimPC
  <1>10. ASSUME NEW j \in Jobs PROVE Readable(j)'
    <2>1. CASE j = k
      BY <1>4, <2>1 DEF Readable, Over, Terminal
    <2>2. CASE j # k
      <3>1. Orphan(j) => Orphan(j)'
        BY <1>5, <2>2 DEF Orphan, Owns
      <3>2. Readable(j)
        BY DEF Settling
      <3>3. QED
        BY <1>4, <1>6, <2>2, <3>1, <3>2 DEF Readable
    <2>3. QED
      BY <2>1, <2>2
  <1>11. ASSUME NEW q \in Procs PROVE Sound(q)'
    <2>1. CASE q = p
      BY <1>4, <1>5, <1>7, <2>1 DEF Sound
    <2>2. CASE q # p
      <3>1. PICK m : m = w[q].job
        OBVIOUS
      <3>2. w'[q] = w[q] /\ Sound(q)
        BY <1>5, <2>2 DEF Settling
      <3>3. w[q].pc \in Held => m \in Jobs
        BY <3>1, JobInHand
      <3>4. w[q].pc \in OwnPC => job'[m] = job[m]
        BY <1>4, <1>8, <1>9, <3>1, <3>3 DEF Orphan, Owns
      <3>5. /\ w'[q].pc \in OwnPC =>
                  /\ job'[w'[q].job].attempt = w'[q].seen + 1
                  /\ w'[q].beat # "dead" /\ (w'[q].beat = "lost" => job'[w'[q].job].status \notin Active)
        BY <3>1, <3>2, <3>4 DEF Sound
      <3>6. w'[q].pc = "take" =>
                  /\ w'[q].seen <= job'[w'[q].job].attempt
                  /\ w'[q].seen = job'[w'[q].job].attempt => Orphan(w[q].job)'
        <4>1. CASE m = k
          <5>1. w[q].seen \in Nat
            BY DEF TypeInv, TypeOK, Worker
          <5>2. QED
            BY <1>3, <1>4, <3>1, <3>2, <4>1, <5>1 DEF Sound
        <4>2. CASE m # k
          <5>1. Orphan(m) => Orphan(w[q].job)'
            BY <1>5, <3>1, <3>2, <4>2 DEF Orphan, Owns
          <5>2. QED
            BY <1>4, <1>9, <3>1, <3>2, <3>3, <4>2, <5>1 DEF Sound
        <4>3. QED
          BY <4>1, <4>2
      <3>7. w'[q].pc = "reap" => job'[w'[q].job].attempt = MaxRecoveryAttempts
        BY <1>3, <1>4, <1>9, <3>1, <3>2, <3>3 DEF Sound
      <3>8. /\ w'[q].pc \in {"finevent", "finjob"} => row'[w'[q].job] \in Terminal
            /\ w'[q].pc = "finjob" => EndsWith(log'[w'[q].job], w'[q].out)
        BY <1>6, <3>2 DEF Sound
      <3>9. QED
        BY <3>5, <3>6, <3>7, <3>8 DEF Sound
    <2>3. QED
      BY <2>1, <2>2
  <1>12. QED
    BY <1>10, <1>11 DEF Settling

\* Healthy behaviours have no step of this kind.
LEMMA NoDeath ==
    ASSUME TypeInv, NEW p \in Procs, HeartbeatDies(p), Healthy
    PROVE  FALSE
  <1>1. w[p] \in Worker
    BY DEF TypeInv, TypeOK
  <1>2. [w[p] EXCEPT !.beat = "dead"].beat = "dead"
    BY <1>1 DEF Worker
  <1>3. QED
    BY <1>2 DEF HeartbeatDies, Become, Healthy, TypeInv, TypeOK

\* Every step of healthy processes keeps the invariant.
LEMMA NextSettles ==
    ASSUME Timely, TypeInv, TypeInv', SafetyInv, SafetyInv', Settling, [Next /\ Healthy]_vars
    PROVE  Settling'
  <1>1. CASE UNCHANGED vars
    <2>1. Tame
      BY <1>1, SameTame, TameParts DEF vars
    <2>2. QED
      BY <2>1, TameKeeps
  <1>2. ASSUME NEW j \in Jobs, NEW p \in Procs,
               \/ EnqueueRow(j, p) \/ Enqueue(j, p)
               \/ CancelFlag(j, p) \/ CancelFlagFails(j, p) \/ Cancel(j, p) \/ RequestFails(j, p)
        PROVE  Settling'
    BY <1>2, RequestTame, InsertTame, TameKeeps DEF Enqueue
  <1>3. ASSUME NEW p \in Procs, Poll(p) \/ Expire(p) PROVE Settling'
    BY <1>3, PollTame, ExpireTame, MarkersTame, TameKeeps DEF Expire
  <1>4. ASSUME NEW p \in Procs, Claim(p) PROVE Settling'
    BY <1>4, ClaimSelectSettles, ClaimMissSettles, ClaimUpdateSettles, ClaimTame, MarkersTame, TameKeeps DEF Claim
  <1>5. ASSUME NEW p \in Procs, Stream(p) \/ Settle(p) PROVE Settling'
    BY <1>5, StreamTame, LastWritesSettle, FinishJobSettles, TameKeeps DEF Settle
  <1>6. ASSUME NEW p \in Procs, Heartbeat(p) PROVE Settling'
    BY <1>6, RefusedSettles, FailureTame, TameKeeps DEF Heartbeat
  <1>7. ASSUME NEW p \in Procs, RunRaises(p) \/ LoopDies(p) \/ Crash(p) \/ Restart(p) PROVE Settling'
    BY <1>7, FailureTame, TameKeeps
  <1>8. ASSUME NEW p \in Procs, HeartbeatDies(p), Healthy PROVE FALSE
    BY <1>8, NoDeath
  <1>9. CASE Tick
    BY <1>9, TickTame, TameKeeps
  <1>10. QED
    BY <1>1, <1>2, <1>3, <1>4, <1>5, <1>6, <1>7, <1>8, <1>9 DEF Next, WorkerStep

\* Before any job the invariant holds.
LEMMA InitSettles == Init => Settling
  <1> SUFFICES ASSUME Init PROVE Settling
    OBVIOUS
  <1>1. \A p \in Procs : w[p].pc = "top"
    BY DEF Init, Idle
  <1>2. \A p \in Procs : Sound(p)
    BY <1>1 DEF Sound, OwnPC, StreamPC, FinishPC
  <1>3. \A j \in Jobs : job[j].status = "none"
    BY DEF Init
  <1>4. QED
    BY <1>2, <1>3 DEF Settling, Readable, Over, Terminal

\* A healthy behaviour is a behaviour.
LEMMA HealthyIsSpec == HealthySpec => Spec
  <1>1. [Next /\ Healthy]_vars => [Next]_vars
    OBVIOUS
  <1>2. QED
    BY <1>1, PTL DEF HealthySpec, Spec

\* The invariant holds in every state that healthy processes reach.
LEMMA AlwaysSettling ==
    ASSUME Timely
    PROVE  HealthySpec => [](TypeInv /\ SafetyInv /\ Settling)
  <1>1. Init => TypeInv /\ SafetyInv /\ Settling
    BY InitType, InitSafe, InitSettles
  <1>2. TypeInv /\ SafetyInv /\ Settling /\ [Next /\ Healthy]_vars => (TypeInv /\ SafetyInv /\ Settling)'
    BY NextType, NextSafe, NextSettles
  <1>3. QED
    BY <1>1, <1>2, PTL DEF HealthySpec

\* The order row, event, job in which a run ends, for any number of processes,
\* crashes and store errors that kill no heartbeat: whoever finds a job ended
\* by its run finds its row terminal and its log closed by the same status.
THEOREM SettledJobIsReadableAlways == Timely => (HealthySpec => []SettledJobIsReadable)
  <1> SUFFICES ASSUME Timely PROVE HealthySpec => []SettledJobIsReadable
    OBVIOUS
  <1>1. TypeInv /\ SafetyInv /\ Settling => SettledJobIsReadable
    BY DEF Settling, Readable, Over, EndsWith, SettledJobIsReadable
  <1>2. QED
    BY <1>1, AlwaysSettling, PTL

(***************************************************************************)
(* Jobs without deadlines move along JobLifecycle.                         *)
(***************************************************************************)
\* What is known of a process when no job has a deadline: the job of a run is
\* in progress, a claim that may still succeed was not overtaken by an end, and
\* nobody runs the job that is being reaped.
Plain(p) ==
    /\ w[p].todo \cup w[p].fin = {}
    /\ w[p].out # "expired"
    /\ w[p].pc \in OwnPC => job[w[p].job].status = "in_progress"
    /\ w[p].pc = "take" /\ w[p].seen = job[w[p].job].attempt => job[w[p].job].status \in Active
    /\ w[p].pc = "reap" => job[w[p].job].status \in {"in_progress", "failed"} /\ Orphan(w[p].job)

Undated(r) == r.ttl = -1 /\ (r.status = "none" => r.attempt = 0)

Dateless == (\A p \in Procs : Plain(p)) /\ (\A j \in Jobs : Undated(job[j]))

\* The job a process deals with is left alone, and so is the process.
LEMMA PlainKept ==
    ASSUME TypeInv, SafetyInv, Dateless, NEW p \in Procs, WorkerTame(w[p], w'[p]),
           \A q \in Procs, j \in Jobs : j = w[p].job /\ Owns(q, j)' => Owns(q, j),
           w[p].pc \in Held => StillJob(job[w[p].job], job'[w[p].job])
    PROVE  Plain(p)'
  <1>k. PICK k : k = w[p].job
    OBVIOUS
  <1>0. OwnPC \subseteq Held /\ "take" \in Held /\ "reap" \in Held
    BY DEF Held, ClaimPC
  <1>1. PastDeadline = {} /\ Plain(p)
    BY DEF Dateless, PastDeadline, Undated
  <1>2. w'[p].todo \cup w'[p].fin = {} /\ w'[p].out # "expired"
    BY <1>1 DEF Plain, WorkerTame
  <1>3. ASSUME w'[p].pc \in OwnPC \/ w'[p].pc \in {"take", "reap"}
        PROVE  /\ w'[p].job = k /\ w'[p].seen = w[p].seen /\ k \in Jobs /\ StillJob(job[k], job'[k])
               /\ w[p].pc \in Held
    BY <1>k, <1>0, <1>3, JobInHand DEF WorkerTame, Marked
  <1>4. ASSUME w'[p].pc \in OwnPC PROVE job'[w'[p].job].status = "in_progress"
    BY <1>k, <1>1, <1>3, <1>4 DEF Plain, WorkerTame, StillJob
  <1>5. ASSUME w'[p].pc = "take", w'[p].seen = job'[w'[p].job].attempt PROVE job'[w'[p].job].status \in Active
    BY <1>k, <1>1, <1>3, <1>5 DEF Plain, WorkerTame, Marked, StillJob
  <1>6. ASSUME w'[p].pc = "reap"
        PROVE  job'[w'[p].job].status \in {"in_progress", "failed"} /\ Orphan(w[p].job)'
    <2>1. w[p].pc = "reap" /\ job[k].status \in {"in_progress", "failed"} /\ Orphan(k)
      BY <1>k, <1>1, <1>6 DEF Plain, WorkerTame, Marked
    <2>2. Orphan(k)'
      BY <1>k, <1>3, <1>6, <2>1 DEF Orphan
    <2>3. Orphan(w[p].job)'
      BY <1>3, <1>6, <2>2 DEF Orphan, Owns
    <2>4. QED
      BY <1>3, <1>6, <2>1, <2>3 DEF StillJob
  <1>7. QED
    BY <1>2, <1>4, <1>5, <1>6 DEF Plain

\* A still and tame step.
LEMMA StillKeeps ==
    ASSUME TypeInv, SafetyInv, Dateless, Still, Tame
    PROVE  Dateless'
  <1>1. NoNewOwner
    BY DEF Tame, WorkerTame, NoNewOwner, Owns
  <1>2. ASSUME NEW p \in Procs PROVE Plain(p)'
    <2>1. w[p].pc \in Held => StillJob(job[w[p].job], job'[w[p].job])
      BY JobInHand DEF Still
    <2>2. QED
      BY <1>1, <2>1, PlainKept DEF Tame, NoNewOwner
  <1>3. \A j \in Jobs : Undated(job'[j])
    BY DEF Dateless, Still, StillJob, Undated
  <1>4. QED
    BY <1>2, <1>3 DEF Dateless

\* A step of one process that leaves the jobs alone and starts no run.
LEMMA LonePlain ==
    ASSUME TypeInv, SafetyInv, Dateless, NEW p \in Procs, NEW v, Become(p, v), UNCHANGED job,
           v.pc \in OwnPC => w[p].pc \in OwnPC /\ v.job = w[p].job, Plain(p)'
    PROVE  Dateless'
  <1>1. w'[p] = v /\ \A q \in Procs \ {p} : w'[q] = w[q]
    BY DEF Become, TypeInv, TypeOK
  <1>2. NoNewOwner
    BY <1>1 DEF NoNewOwner, Owns
  <1>3. ASSUME NEW q \in Procs, q # p PROVE Plain(q)'
    <2>1. WorkerTame(w[q], w'[q]) /\ StillJob(job[w[q].job], job'[w[q].job])
      BY <1>1, <1>3 DEF WorkerTame, StillJob
    <2>2. QED
      BY <1>2, <2>1, PlainKept DEF NoNewOwner
  <1>4. QED
    BY <1>3 DEF Dateless

\* Selecting a job for a claim, or an exhausted one for the reaper.
LEMMA ClaimSelectPlain ==
    ASSUME Timely, TypeInv, SafetyInv, Settling, Dateless, NEW p \in Procs,
           ClaimSelect(p) \/ (ClaimMiss(p) /\ ~Return(p))
    PROVE  Dateless'
  <1>0. w[p] \in Worker /\ w[p].pc = "claim"
    BY DEF TypeInv, TypeOK, ClaimSelect, ClaimMiss
  <1>1. PICK k : k = w[p].job
    OBVIOUS
  <1>2. k \in Jobs /\ job[k].status \in Active /\ job[k].lease = 0 /\ UNCHANGED job
    BY <1>0, <1>1, JobInHand DEF ClaimSelect, ClaimMiss, Eligible, Exhausted, Held, ClaimPC, db
  <1>3. Orphan(k) /\ Plain(p)
    BY <1>2, Deserted DEF Dateless
  <1>4. PICK v : /\ Become(p, v) /\ v.job = k /\ v.todo = w[p].todo /\ v.fin = w[p].fin /\ v.out = w[p].out
                 /\ v.pc = "take" \/ (v.pc = "reap" /\ Exhausted(k))
    <2>1. CASE ClaimSelect(p)
      <3>1. PICK v : v = [w[p] EXCEPT !.pc = "take", !.seen = job[w[p].job].attempt]
        OBVIOUS
      <3>2. v.job = k /\ v.todo = w[p].todo /\ v.fin = w[p].fin /\ v.out = w[p].out /\ v.pc = "take"
        BY <1>0, <1>1, <3>1 DEF Worker
      <3>3. QED
        BY <2>1, <3>1, <3>2 DEF ClaimSelect
    <2>2. CASE Goto(p, "reap") /\ Exhausted(k)
      <3>1. PICK v : v = [w[p] EXCEPT !.pc = "reap"]
        OBVIOUS
      <3>2. v.job = k /\ v.todo = w[p].todo /\ v.fin = w[p].fin /\ v.out = w[p].out /\ v.pc = "reap"
        BY <1>0, <1>1, <3>1 DEF Worker
      <3>3. QED
        BY <2>2, <3>1, <3>2 DEF Goto
    <2>3. QED
      BY <1>1, <2>1, <2>2 DEF ClaimMiss
  <1>5. w'[p] = v /\ \A q \in Procs \ {p} : w'[q] = w[q]
    BY <1>4 DEF Become, TypeInv, TypeOK
  <1>6. "take" \notin OwnPC /\ "reap" \notin OwnPC
    BY DEF OwnPC, StreamPC, FinishPC
  <1>7. Orphan(k)'
    BY <1>3, <1>4, <1>5, <1>6 DEF Orphan, Owns
  <1>8. Orphan(w[p].job)'
    BY <1>4, <1>5, <1>7 DEF Orphan, Owns
  <1>9. Exhausted(k) => job[k].status = "in_progress"
    BY <1>2, ConstAssumption DEF Exhausted, Active, SafetyInv, QueuedIsFresh
  <1>10. Plain(p)'
    BY <1>2, <1>3, <1>4, <1>5, <1>6, <1>8, <1>9 DEF Plain
  <1>11. QED
    BY <1>2, <1>4, <1>6, <1>10, LonePlain

\* A refused renewal and the last writes of a run leave its job in progress.
LEMMA RunPlain ==
    ASSUME TypeInv, SafetyInv, Dateless, NEW p \in Procs, RenewRefused(p) \/ FinishRow(p) \/ PersistTerminal(p)
    PROVE  Dateless'
  <1>0. w[p] \in Worker /\ w[p].pc \in OwnPC /\ UNCHANGED job
    BY DEF TypeInv, TypeOK, RenewRefused, Beating, FinishRow, PersistTerminal, OwnPC, FinishPC, db
  <1>1. PICK v : /\ Become(p, v) /\ v.job = w[p].job /\ v.todo = w[p].todo /\ v.fin = w[p].fin
                 /\ v.out = w[p].out /\ v.pc \in OwnPC
    <2>1. CASE RenewRefused(p)
      <3>1. PICK v : v = [w[p] EXCEPT !.beat = "lost", !.run = IF @ = "run" THEN "cancelled" ELSE @]
        OBVIOUS
      <3>2. v.job = w[p].job /\ v.todo = w[p].todo /\ v.fin = w[p].fin /\ v.out = w[p].out /\ v.pc = w[p].pc
        BY <1>0, <3>1 DEF Worker
      <3>3. QED
        BY <1>0, <2>1, <3>1, <3>2 DEF RenewRefused
    <2>2. CASE FinishRow(p) \/ PersistTerminal(p)
      <3>1. PICK l \in {"finevent", "finjob"} : Goto(p, l)
        BY <2>2 DEF FinishRow, PersistTerminal
      <3>2. PICK v : v = [w[p] EXCEPT !.pc = l]
        OBVIOUS
      <3>3. v.job = w[p].job /\ v.todo = w[p].todo /\ v.fin = w[p].fin /\ v.out = w[p].out /\ v.pc = l
        BY <1>0, <3>2 DEF Worker
      <3>4. l \in OwnPC
        BY DEF OwnPC, FinishPC
      <3>5. QED
        BY <3>1, <3>2, <3>3, <3>4 DEF Goto
    <2>3. QED
      BY <2>1, <2>2
  <1>2. w'[p] = v
    BY <1>1 DEF Become, TypeInv, TypeOK
  <1>3. Plain(p) /\ "take" \notin OwnPC /\ "reap" \notin OwnPC
    BY DEF Dateless, OwnPC, StreamPC, FinishPC
  <1>4. Plain(p)'
    BY <1>0, <1>1, <1>2, <1>3 DEF Plain
  <1>5. QED
    BY <1>0, <1>1, <1>4, LonePlain

\* A step on one job and by one process leaves the processes with other jobs alone.
LEMMA ElsewherePlain ==
    ASSUME TypeInv, SafetyInv, Dateless, NEW p \in Procs, NEW k \in Jobs,
           \A i \in Jobs \ {k} : job'[i] = job[i], \A q \in Procs \ {p} : w'[q] = w[q],
           w'[p].pc \in OwnPC => w'[p].job = k,
           Plain(p)', Undated(job'[k]),
           \A q \in Procs \ {p} : w[q].pc \in Held /\ w[q].job = k => Plain(q)'
    PROVE  Dateless'
  <1>1. ASSUME NEW q \in Procs \ {p}, ~(w[q].pc \in Held /\ w[q].job = k) PROVE Plain(q)'
    <2>1. WorkerTame(w[q], w'[q])
      BY DEF WorkerTame
    <2>2. w[q].pc \in Held => StillJob(job[w[q].job], job'[w[q].job])
      BY <1>1, JobInHand DEF StillJob
    <2>3. CASE w[q].pc \in Held
      <3>1. \A r \in Procs, j \in Jobs : j = w[q].job /\ Owns(r, j)' => Owns(r, j)
        BY <1>1, <2>3 DEF Owns
      <3>2. QED
        BY <2>1, <2>2, <3>1, PlainKept
    <2>4. CASE w[q].pc \notin Held
      <3>1. w[q].pc \notin OwnPC /\ w[q].pc # "take" /\ w[q].pc # "reap"
        BY <2>4 DEF Held, ClaimPC
      <3>2. Plain(q) /\ w'[q] = w[q]
        BY DEF Dateless
      <3>3. QED
        BY <3>1, <3>2 DEF Plain
    <2>5. QED
      BY <2>3, <2>4
  <1>2. \A j \in Jobs : Undated(job'[j])
    BY DEF Dateless
  <1>3. QED
    BY <1>1, <1>2 DEF Dateless

\* The abstract view of a step.
LStatus == [j \in Jobs |-> job[j].status]
LAttempt == [j \in Jobs |-> job[j].attempt]

\* A still step does not show in JobLifecycle.
LEMMA StillStutters ==
    ASSUME Still
    PROVE  UNCHANGED Lifecycle!vars
  BY DEF Still, StillJob, Lifecycle!vars

\* A step on one job, as JobLifecycle sees it.
LEMMA ShownAs ==
    ASSUME TypeInv, NEW k \in Jobs, NEW s, job'[k].status = s, \A i \in Jobs \ {k} : job'[i] = job[i]
    PROVE  /\ LStatus' = [LStatus EXCEPT ![k] = s]
           /\ LAttempt' = [LAttempt EXCEPT ![k] = job'[k].attempt]
  BY DEF LStatus, LAttempt

\* The INSERT of an enqueue submits a job.
LEMMA InsertSubmits ==
    ASSUME TypeInv, SafetyInv, Dateless, TTLs = {-1}, NEW j \in Jobs, NEW p \in Procs, EnqueueJob(j, p)
    PROVE  Dateless' /\ Lifecycle!Submit(j)
  <1>1. job[j].status = "none"
    BY DEF SafetyInv, Inserted, EnqueueJob, At, Unborn
  <1>2. /\ job'[j].status = "queued" /\ job'[j].attempt = 0 /\ job'[j].ttl = -1
        /\ \A i \in Jobs \ {j} : job'[i] = job[i]
    BY DEF EnqueueJob, SetJob, TypeInv, TypeOK
  <1>3. UNCHANGED w
    BY DEF EnqueueJob
  <1>4. job[j].attempt = 0
    BY <1>1 DEF Dateless, Undated
  <1>5. ASSUME NEW q \in Procs, w[q].pc \in Held PROVE w[q].job # j /\ w[q].job \in Jobs
    BY <1>1, <1>5, JobInHand DEF SafetyInv, ReadFromTable
  <1>6. ASSUME NEW q \in Procs PROVE Plain(q)'
    <2>1. WorkerTame(w[q], w'[q])
      BY <1>3 DEF WorkerTame
    <2>2. w[q].pc \in Held => StillJob(job[w[q].job], job'[w[q].job])
      BY <1>2, <1>5 DEF StillJob
    <2>3. \A r \in Procs, i \in Jobs : i = w[q].job /\ Owns(r, i)' => Owns(r, i)
      BY <1>3 DEF Owns
    <2>4. QED
      BY <2>1, <2>2, <2>3, PlainKept
  <1>7. Dateless'
    BY <1>2, <1>6 DEF Dateless, Undated
  <1>8. LStatus' = [LStatus EXCEPT ![j] = "queued"] /\ LAttempt' = [LAttempt EXCEPT ![j] = 0]
    BY <1>2, ShownAs
  <1>9. LStatus[j] = "none" /\ LAttempt' = LAttempt
    BY <1>1, <1>4, <1>8 DEF LStatus, LAttempt
  <1>10. Lifecycle!Submit(j)
    BY <1>8, <1>9 DEF LStatus, LAttempt, Lifecycle!Submit
  <1>11. QED
    BY <1>7, <1>10

\* The UPDATE of a claim hands a job out.
LEMMA ClaimHandsOut ==
    ASSUME TypeInv, SafetyInv, Settling, Dateless, NEW p \in Procs, ClaimUpdate(p)
    PROVE  Dateless' /\ \E k \in Jobs : Lifecycle!HandOut(k)
  <1>0. w[p] \in Worker /\ w[p].pc = "take"
    BY DEF TypeInv, TypeOK, ClaimUpdate
  <1>1. PICK k : k = w[p].job
    OBVIOUS
  <1>2. PICK n : n = w[p].seen
    OBVIOUS
  <1>3. k \in Jobs /\ job[k] \in JobRow /\ n \in Nat /\ n < MaxRecoveryAttempts /\ job[k].attempt = n
    <2>1. k \in Jobs /\ n \in Nat
      BY <1>0, <1>1, <1>2, JobInHand DEF Held, ClaimPC, Worker
    <2>2. n < MaxRecoveryAttempts
      BY <1>0, <1>2 DEF TypeInv, GoodWorker
    <2>3. QED
      BY <1>1, <1>2, <2>1, <2>2 DEF ClaimUpdate, ClaimGuard, TypeInv, TypeOK
  <1>4. /\ job'[k].status = "in_progress" /\ job'[k].attempt = n + 1 /\ job'[k].ttl = job[k].ttl
        /\ \A i \in Jobs \ {k} : job'[i] = job[i]
    BY <1>1, <1>2, <1>3 DEF ClaimUpdate, SetJob, TypeInv, TypeOK, JobRow
  <1>5. PICK v : v = [w[p] EXCEPT !.pc = "check", !.early = job[w[p].job].cancel]
    OBVIOUS
  <1>6. v.pc = "check" /\ v.job = k /\ v.todo = w[p].todo /\ v.fin = w[p].fin /\ v.out = w[p].out
    BY <1>0, <1>1, <1>5 DEF Worker
  <1>7. w'[p] = v /\ \A q \in Procs \ {p} : w'[q] = w[q]
    BY <1>5 DEF ClaimUpdate, Become, TypeInv, TypeOK
  <1>8. Orphan(k) /\ job[k].status \in Active /\ Plain(p)
    BY <1>0, <1>1, <1>2, <1>3 DEF Settling, Sound, Dateless, Plain
  <1>9. Plain(p)'
    BY <1>4, <1>6, <1>7, <1>8 DEF Plain
  <1>10. ASSUME NEW q \in Procs \ {p}, w[q].pc \in Held, w[q].job = k PROVE Plain(q)'
    <2>1. w'[q] = w[q] /\ Plain(q) /\ Sound(q)
      BY <1>7, <1>10 DEF Dateless, Settling
    <2>2. w[q].pc \notin OwnPC
      BY <1>8, <1>10 DEF Orphan, Owns
    <2>3. w[q].pc # "reap"
      BY <1>3, <1>10, <2>1 DEF Sound
    <2>4. w[q].pc = "take" => w[q].seen # job'[k].attempt
      <3>1. w[q].seen \in Nat
        BY <1>10 DEF TypeInv, TypeOK, Worker
      <3>2. QED
        BY <1>3, <1>4, <1>10, <2>1, <3>1 DEF Sound
    <2>5. QED
      BY <1>10, <2>1, <2>2, <2>3, <2>4 DEF Plain
  <1>11. Undated(job'[k])
    BY <1>3, <1>4 DEF Dateless, Undated
  <1>12. Dateless'
    BY <1>3, <1>4, <1>6, <1>7, <1>9, <1>10, <1>11, ElsewherePlain
  <1>13. LStatus' = [LStatus EXCEPT ![k] = "in_progress"] /\ LAttempt' = [LAttempt EXCEPT ![k] = n + 1]
    BY <1>3, <1>4, ShownAs
  <1>14. LStatus[k] \in Active /\ LAttempt[k] = n
    BY <1>3, <1>8 DEF LStatus, LAttempt
  <1>15. Lifecycle!Active = Active
    BY DEF Lifecycle!Active, Active
  <1>16. Lifecycle!HandOut(k)
    BY <1>3, <1>13, <1>14, <1>15 DEF LStatus, LAttempt, Lifecycle!HandOut
  <1>17. QED
    BY <1>3, <1>12, <1>16

\* A run ends its job.
LEMMA FinishEnds ==
    ASSUME TypeInv, SafetyInv, Settling, Dateless, NEW p \in Procs, FinishJob(p)
    PROVE  Dateless' /\ \E k \in Jobs : Lifecycle!End(k)
  <1>0. w[p] \in Worker /\ w[p].pc = "finjob" /\ w[p].pc \in OwnPC
    BY DEF TypeInv, TypeOK, FinishJob, OwnPC, FinishPC
  <1>1. PICK k : k = w[p].job
    OBVIOUS
  <1>2. PICK s : s = w[p].out
    OBVIOUS
  <1>3. k \in Jobs /\ s \in Terminal \ {"expired"} /\ job[k] \in JobRow /\ Owns(p, k)
    BY <1>0, <1>1, <1>2, JobInHand DEF Held, Worker, TypeInv, TypeOK, Owns, Dateless, Plain
  <1>4. /\ job'[k].status = s /\ job'[k].attempt = job[k].attempt /\ job'[k].ttl = job[k].ttl
        /\ \A i \in Jobs \ {k} : job'[i] = job[i]
    BY <1>1, <1>2, <1>3 DEF FinishJob, MarkTerminal, SetJob, TypeInv, TypeOK, JobRow
  <1>5. w'[p] = Idle("top") /\ (\A q \in Procs \ {p} : w'[q] = w[q])
    BY DEF FinishJob, Return, Become, TypeInv, TypeOK
  <1>6. "top" \notin OwnPC /\ job[k].status = "in_progress"
    BY <1>0, <1>1 DEF OwnPC, StreamPC, FinishPC, Dateless, Plain
  <1>7. Plain(p)'
    BY <1>5, <1>6 DEF Plain, Idle
  <1>8. ASSUME NEW q \in Procs \ {p}, w[q].pc \in Held, w[q].job = k PROVE Plain(q)'
    <2>1. w'[q] = w[q] /\ Plain(q) /\ Sound(q) /\ ~Orphan(k)
      BY <1>3, <1>5, <1>8 DEF Dateless, Settling, Orphan
    <2>2. w[q].pc \notin OwnPC
      BY <1>3, <1>8, OneRun DEF Owns
    <2>3. w[q].pc # "reap" /\ (w[q].pc = "take" => w[q].seen # job[k].attempt)
      BY <1>8, <2>1 DEF Sound, Plain
    <2>4. QED
      BY <1>4, <1>8, <2>1, <2>2, <2>3 DEF Plain
  <1>9. Undated(job'[k])
    BY <1>3, <1>4 DEF Dateless, Undated, Terminal
  <1>10. w'[p].pc \notin OwnPC
    BY <1>5, <1>6 DEF Idle
  <1>11. Dateless'
    BY <1>3, <1>4, <1>5, <1>7, <1>8, <1>9, <1>10, ElsewherePlain
  <1>12. LStatus' = [LStatus EXCEPT ![k] = s] /\ LAttempt' = [LAttempt EXCEPT ![k] = job[k].attempt]
    BY <1>3, <1>4, ShownAs
  <1>13. LStatus[k] = "in_progress" /\ LAttempt' = LAttempt
    BY <1>3, <1>6, <1>12 DEF LStatus, LAttempt
  <1>14. s \in Lifecycle!Ended
    BY <1>3 DEF Terminal, Lifecycle!Ended
  <1>15. Lifecycle!End(k)
    BY <1>12, <1>13, <1>14 DEF LStatus, LAttempt, Lifecycle!End
  <1>16. QED
    BY <1>3, <1>11, <1>15

\* The reaper ends a job, or finds that another one did.
LEMMA ReapEnds ==
    ASSUME TypeInv, SafetyInv, Settling, Dateless, NEW p \in Procs, ReapJob(p)
    PROVE  Dateless' /\ ((\E k \in Jobs : Lifecycle!End(k)) \/ UNCHANGED Lifecycle!vars)
  <1>0. w[p] \in Worker /\ w[p].pc = "reap"
    BY DEF TypeInv, TypeOK, ReapJob
  <1>1. PICK k : k = w[p].job
    OBVIOUS
  <1>2. k \in Jobs /\ job[k] \in JobRow
    BY <1>0, <1>1, JobInHand DEF Held, ClaimPC, TypeInv, TypeOK
  <1>3. /\ job[k].attempt = MaxRecoveryAttempts /\ job[k].status \in {"in_progress", "failed"}
        /\ Orphan(k) /\ Plain(p)
    BY <1>0, <1>1 DEF Settling, Sound, Dateless, Plain
  <1>4. /\ job'[k].status = "failed" /\ job'[k].attempt = job[k].attempt /\ job'[k].ttl = job[k].ttl
        /\ \A i \in Jobs \ {k} : job'[i] = job[i]
    BY <1>1, <1>2 DEF ReapJob, MarkTerminal, SetJob, TypeInv, TypeOK, JobRow
  <1>5. PICK v : v = [w[p] EXCEPT !.pc = "reaprow"]
    OBVIOUS
  <1>6. v.pc = "reaprow" /\ v.todo = w[p].todo /\ v.fin = w[p].fin /\ v.out = w[p].out
    BY <1>0, <1>5 DEF Worker
  <1>7. w'[p] = v /\ (\A q \in Procs \ {p} : w'[q] = w[q])
    BY <1>5 DEF ReapJob, Goto, Become, TypeInv, TypeOK
  <1>8. "reaprow" \notin OwnPC
    BY DEF OwnPC, StreamPC, FinishPC
  <1>9. Plain(p)'
    BY <1>3, <1>6, <1>7, <1>8 DEF Plain
  <1>10. ASSUME NEW q \in Procs \ {p}, w[q].pc \in Held, w[q].job = k PROVE Plain(q)'
    <2>1. w'[q] = w[q] /\ Plain(q)
      BY <1>7, <1>10 DEF Dateless
    <2>2. w[q].pc \notin OwnPC
      BY <1>3, <1>10 DEF Orphan, Owns
    <2>3. w[q].pc = "take" => w[q].seen # job[k].attempt
      <3>1. w[q].pc = "take" => w[q].seen < MaxRecoveryAttempts
        BY <1>10 DEF TypeInv, GoodWorker
      <3>2. QED
        BY <1>3, <3>1, ConstAssumption
    <2>4. Orphan(k)'
      BY <1>3, <1>6, <1>7, <1>8 DEF Orphan, Owns
    <2>5. Orphan(w[q].job)'
      BY <1>10, <2>1, <2>4 DEF Orphan, Owns
    <2>6. QED
      BY <1>4, <1>10, <2>1, <2>2, <2>3, <2>5 DEF Plain
  <1>11. Undated(job'[k])
    BY <1>2, <1>4 DEF Dateless, Undated
  <1>12. Dateless'
    BY <1>2, <1>4, <1>6, <1>7, <1>8, <1>9, <1>10, <1>11, ElsewherePlain
  <1>13. LStatus' = [LStatus EXCEPT ![k] = "failed"] /\ LAttempt' = [LAttempt EXCEPT ![k] = job[k].attempt]
    BY <1>2, <1>4, ShownAs
  <1>14. LStatus[k] = job[k].status /\ LAttempt' = LAttempt
    BY <1>2, <1>13 DEF LStatus, LAttempt
  <1>15. CASE job[k].status = "in_progress"
    <2>1. "failed" \in Lifecycle!Ended
      BY DEF Lifecycle!Ended
    <2>2. Lifecycle!End(k)
      BY <1>13, <1>14, <1>15, <2>1 DEF LStatus, LAttempt, Lifecycle!End
    <2>3. QED
      BY <1>2, <1>12, <2>2
  <1>16. CASE job[k].status = "failed"
    <2>1. LStatus' = LStatus
      BY <1>2, <1>13, <1>14, <1>16 DEF LStatus
    <2>2. QED
      BY <1>12, <1>14, <2>1 DEF LStatus, LAttempt, Lifecycle!vars
  <1>17. QED
    BY <1>3, <1>15, <1>16

\* Every step of healthy processes is a step of JobLifecycle or does not show there.
LEMMA NextIsLifecycle ==
    ASSUME Timely, TTLs = {-1}, TypeInv, SafetyInv, Settling, Dateless, [Next /\ Healthy]_vars
    PROVE  Dateless' /\ [Lifecycle!Next]_(Lifecycle!vars)
  <1>s. ASSUME Still, Tame PROVE Dateless' /\ UNCHANGED Lifecycle!vars
    BY <1>s, StillKeeps, StillStutters
  <1>u. ASSUME UNCHANGED job PROVE UNCHANGED Lifecycle!vars
    BY <1>u DEF Lifecycle!vars
  <1>1. CASE UNCHANGED vars
    <2>1. Still /\ Tame
      BY <1>1, SameTame, TameParts DEF vars
    <2>2. QED
      BY <1>s, <2>1
  <1>2. ASSUME NEW j \in Jobs, NEW p \in Procs,
               \/ EnqueueRow(j, p) \/ Enqueue(j, p)
               \/ CancelFlag(j, p) \/ CancelFlagFails(j, p) \/ Cancel(j, p) \/ RequestFails(j, p)
        PROVE  Dateless' /\ [Lifecycle!Next]_(Lifecycle!vars)
    <2>1. CASE EnqueueJob(j, p)
      BY <2>1, InsertSubmits DEF Lifecycle!Next
    <2>2. CASE ~EnqueueJob(j, p)
      BY <1>2, <1>s, <2>2, RequestTame DEF Enqueue
    <2>3. QED
      BY <2>1, <2>2
  <1>3. ASSUME NEW p \in Procs, Poll(p) \/ Expire(p) PROVE Dateless' /\ [Lifecycle!Next]_(Lifecycle!vars)
    <2>1. ~ExpireMark(p)
      BY DEF ExpireMark, Dateless, Plain
    <2>2. QED
      BY <1>3, <1>s, <2>1, PollTame, ExpireTame DEF Expire
  <1>4. ASSUME NEW p \in Procs, Claim(p) PROVE Dateless' /\ [Lifecycle!Next]_(Lifecycle!vars)
    <2>1. CASE ClaimSelect(p) \/ (ClaimMiss(p) /\ ~Return(p))
      <3>1. UNCHANGED job
        BY <2>1 DEF ClaimSelect, ClaimMiss, db
      <3>2. QED
        BY <1>u, <2>1, <3>1, ClaimSelectPlain
    <2>2. CASE (ClaimMiss(p) /\ Return(p)) \/ ReapRow(p) \/ ClaimLost(p)
      BY <1>s, <2>2, ClaimTame
    <2>3. CASE ReapJob(p)
      BY <2>3, ReapEnds DEF Lifecycle!Next
    <2>4. CASE ClaimUpdate(p)
      BY <2>4, ClaimHandsOut DEF Lifecycle!Next
    <2>5. QED
      BY <1>4, <2>1, <2>2, <2>3, <2>4 DEF Claim
  <1>5. ASSUME NEW p \in Procs, Stream(p) \/ Settle(p) PROVE Dateless' /\ [Lifecycle!Next]_(Lifecycle!vars)
    <2>1. CASE Stream(p) \/ CloseItems(p)
      BY <1>s, <2>1, StreamTame
    <2>2. CASE FinishRow(p) \/ PersistTerminal(p)
      <3>1. UNCHANGED job
        BY <2>2 DEF FinishRow, PersistTerminal
      <3>2. QED
        BY <1>u, <2>2, <3>1, RunPlain
    <2>3. CASE FinishJob(p)
      BY <2>3, FinishEnds DEF Lifecycle!Next
    <2>4. QED
      BY <1>5, <2>1, <2>2, <2>3 DEF Settle
  <1>6. ASSUME NEW p \in Procs, Heartbeat(p) PROVE Dateless' /\ [Lifecycle!Next]_(Lifecycle!vars)
    <2>1. CASE RenewRefused(p)
      <3>1. UNCHANGED job
        BY <2>1 DEF RenewRefused, db
      <3>2. QED
        BY <1>u, <2>1, <3>1, RunPlain
    <2>2. CASE Renew(p)
      BY <1>s, <2>2, FailureTame
    <2>3. QED
      BY <1>6, <2>1, <2>2 DEF Heartbeat
  <1>7. ASSUME NEW p \in Procs, RunRaises(p) \/ LoopDies(p) \/ Crash(p) \/ Restart(p)
        PROVE  Dateless' /\ [Lifecycle!Next]_(Lifecycle!vars)
    BY <1>s, <1>7, FailureTame
  <1>8. ASSUME NEW p \in Procs, HeartbeatDies(p), Healthy PROVE FALSE
    BY <1>8, NoDeath
  <1>9. CASE Tick
    BY <1>s, <1>9, TickTame
  <1>10. QED
    BY <1>1, <1>2, <1>3, <1>4, <1>5, <1>6, <1>7, <1>8, <1>9 DEF Next, WorkerStep

\* Before any job the table is that of JobLifecycle, and no job has a deadline.
LEMMA InitIsLifecycle == Init => Dateless /\ Lifecycle!Init
  <1> SUFFICES ASSUME Init PROVE Dateless /\ Lifecycle!Init
    OBVIOUS
  <1>1. \A p \in Procs : w[p].pc = "top" /\ w[p].todo = {} /\ w[p].fin = {} /\ w[p].out = "completed"
    BY DEF Init, Idle
  <1>2. \A p \in Procs : Plain(p)
    BY <1>1 DEF Plain, OwnPC, StreamPC, FinishPC
  <1>3. \A j \in Jobs : job[j].status = "none" /\ job[j].attempt = 0 /\ job[j].ttl = -1
    BY DEF Init
  <1>4. Dateless
    BY <1>2, <1>3 DEF Dateless, Undated
  <1>5. Lifecycle!Init
    BY <1>3 DEF Lifecycle!Init
  <1>6. QED
    BY <1>4, <1>5

\* The background_jobs table implements JobLifecycle for any number of
\* processes, jobs, attempts, crashes and store errors that kill no heartbeat:
\* a job is queued, handed out at most MAX_RECOVERY_ATTEMPTS times and ended
\* once, although claim_job reads and writes in two statements and
\* mark_terminal tests nothing.
THEOREM ImplementsLifecycleAlways == Timely /\ TTLs = {-1} => (HealthySpec => ImplementsLifecycle)
  <1> SUFFICES ASSUME Timely, TTLs = {-1} PROVE HealthySpec => ImplementsLifecycle
    OBVIOUS
  <1>1. Init => Dateless /\ Lifecycle!Init
    BY InitIsLifecycle
  <1>2. TypeInv /\ SafetyInv /\ Settling /\ Dateless /\ [Next /\ Healthy]_vars
        => Dateless' /\ [Lifecycle!Next]_(Lifecycle!vars)
    BY NextIsLifecycle
  <1>3. HealthySpec => [](TypeInv /\ SafetyInv /\ Settling)
    BY AlwaysSettling
  <1>4. QED
    BY <1>1, <1>2, <1>3, PTL DEF HealthySpec, ImplementsLifecycle, Lifecycle!Spec
===============================================================================
