------------------------------ MODULE JobStream ------------------------------
(***************************************************************************)
(* One attempt of a background job, chunk by chunk: the BudgetLedger that  *)
(* charges it, the output items it opens, the events it appends to the     *)
(* durable log and the output it leaves in the row.  BackgroundJobs has    *)
(* the attempts, leases and workers around it.                             *)
(*                                                                         *)
(* Any append or update may fail; a failure during the salvage of a failed *)
(* job is survived, one after it ends the attempt without a terminal event. *)
(***************************************************************************)
EXTENDS Integers, Sequences, FiniteSets

CONSTANTS
    Indexes,        \* source indexes of tool calls, integers; all of one tool
    MaxRepeats,     \* max_identical_call_repeats
    MaxCalls,       \* max_total_tool_calls (and max_calls_per_tool: there is one tool)
    MaxBackground,  \* max_background_calls
    MaxTokens,      \* max_output_tokens_total, one token per delta
    MaxRounds,      \* max_tool_rounds
    MaxChunks,      \* bound: chunks of the upstream
    MaxFaults       \* bound: failing statements

VARIABLES
    run,       \* _JobRun: [msg, msgdone, next, calls, bg]
    ledger,    \* BudgetLedger: [rounds, total, same, failures, tokens]
    log,       \* the events appended
    todo,      \* events the current handler still has to append
    phase,     \* "stream", "close", "persist", "status", "terminal", "ended" or "aborted"
    outcome,   \* status the attempt ends with, "none" while it streams
    emitter,   \* terminal status of the live emitter, or "live"
    items,     \* output items rebuilt for the row
    stored,    \* the output column
    chunks, faults

jobvars == <<run, ledger, log, todo, phase, outcome, emitter, items, stored, chunks, faults>>

NoCall == [index |-> -1, args |-> "none", added |-> FALSE, valid |-> FALSE, done |-> FALSE]
Signatures == {"none", "partial", "whole"}

FreshRun == [msg |-> -1, msgdone |-> FALSE, next |-> 0, calls |-> [i \in Indexes |-> NoCall], bg |-> 0]
FreshLedger == [rounds |-> 0, total |-> 0, same |-> [s \in Signatures |-> 0], failures |-> 0, tokens |-> 0]

Init ==
    /\ run = FreshRun /\ ledger = FreshLedger
    /\ log = <<>> /\ todo = <<>> /\ phase = "stream" /\ outcome = "none" /\ emitter = "live"
    /\ items = {} /\ stored = {} /\ chunks = 0 /\ faults = 0

AtRest ==
    /\ run = FreshRun /\ ledger = FreshLedger
    /\ log = <<>> /\ todo = <<>> /\ phase = "aborted" /\ outcome = "none" /\ emitter = "live"
    /\ items = {} /\ stored = {} /\ chunks = 0 /\ faults = 0

---------------------------------------------------------------------------
(* Closing *)

\* _close_tool_item: arguments.done only for arguments that are a whole object.
\* The done event carries the item: its status and its arguments.
CloseCall(c) ==
    (IF c.args = "whole" THEN <<<<"args_done", c.index>>>> ELSE <<>>)
       \o <<<<"done", c.index, IF c.args = "whole" THEN "completed" ELSE "incomplete", c.args>>>>

\* The calls that are open, in the order they were opened.
CloseCalls(r) ==
    LET open == {i \in Indexes : r.calls[i].added /\ ~r.calls[i].done}
        at(n) == {i \in open : r.calls[i].index = n}
        upto[n \in -1..r.next] ==
          IF n = -1 THEN <<>>
          ELSE IF at(n) = {} THEN upto[n - 1]
          ELSE upto[n - 1] \o CloseCall(r.calls[CHOOSE i \in at(n) : TRUE])
    IN  upto[r.next]

MessageStatus(status) == IF status = "completed" THEN "completed" ELSE "incomplete"


\* _close_open_items.
CloseOpenItems(status) ==
    (IF run.msg >= 0 /\ ~run.msgdone THEN <<<<"done", run.msg, MessageStatus(status), "none">>>> ELSE <<>>)
       \o CloseCalls(run)

\* _trip, _finish_completed, _finish_cancelled, _finish_failed: they begin by closing.
End(status) ==
    /\ phase' = "close" /\ outcome' = status
    /\ todo' = CloseOpenItems(status)

\* Marked before its event is written.
MessageClosed(r) == [r EXCEPT !.msgdone = @ \/ r.msg >= 0]

---------------------------------------------------------------------------
(* Charging: first the count, then the comparison *)

\* charge_tool_call, for the arguments as they stand; TRUE when a ceiling is crossed.
ChargedCall(args) == [ledger EXCEPT !.total = @ + 1, !.same[args] = @ + 1]
CallCrosses(l, args) == l.same[args] > MaxRepeats \/ l.total > MaxCalls

\* charge_output_tokens.
TokensCross(l) == l.tokens > MaxTokens

\* append_arguments: whole is a JSON object, and nothing may follow it.
Appended(args, fragment) ==
    IF fragment = "part" \/ args = "whole" THEN "partial" ELSE "whole"

Chunk ==
    /\ phase = "stream" /\ todo = <<>>
    /\ chunks < MaxChunks /\ chunks' = chunks + 1
    /\ UNCHANGED <<log, emitter, items, stored, faults>>

Go(r, l, evs) == run' = r /\ ledger' = l /\ todo' = evs /\ UNCHANGED <<phase, outcome>>
Trip(r, l) == run' = MessageClosed(r) /\ ledger' = l /\ End("incomplete")

\* _charge_text.
Text ==
    /\ Chunk
    /\ LET l == [ledger EXCEPT !.tokens = @ + 1]
       IN  IF TokensCross(l) THEN Trip(run, l)
           ELSE IF run.msg >= 0 THEN Go(run, l, <<<<"delta", run.msg>>>>)
           ELSE Go([run EXCEPT !.msg = run.next, !.next = @ + 1], l, <<<<"added", run.next>>, <<"delta", run.next>>>>)

\* _charge_tool_call for a fragment of a streamed call, which ends with Settle.  It
\* does not ask whether the call is closed: a late fragment is appended and logged
\* like any other, behind the done event of its item.
Fragment(i, args) ==
    /\ Chunk
    /\ LET new == run.calls[i].index = -1
           call == [run.calls[i] EXCEPT !.index = IF new THEN run.next ELSE @, !.args = Appended(@, args)]
           r == [run EXCEPT !.calls[i] = call, !.bg = @ + 1, !.next = @ + 1]
       IN  IF ~new THEN Go([run EXCEPT !.calls[i] = call], ledger, <<<<"delta", call.index>>>>)
           ELSE IF r.bg > MaxBackground THEN Trip([run EXCEPT !.bg = @ + 1], ledger)
           ELSE Go(r, ledger, <<<<"added", call.index>>, <<"delta", call.index>>>>)

\* _charge_tool_call for a call that comes in one piece: charged first, closed at once.
OnePiece(i, args) ==
    /\ Chunk
    /\ run.calls[i].index = -1
    /\ LET l == ChargedCall(args)
           call == [NoCall EXCEPT !.index = run.next, !.args = args]
           r == [run EXCEPT !.calls[i] = call, !.bg = @ + 1, !.next = @ + 1]
       IN  IF CallCrosses(l, args) THEN Trip(run, l)
           ELSE IF r.bg > MaxBackground THEN Trip([run EXCEPT !.bg = @ + 1], l)
           ELSE Go(r, l, <<<<"added", call.index>>, <<"delta", call.index>>>> \o CloseCall(call))

\* _settle_tool_call; a second tool_call_done is not charged again.
Settle(i) ==
    /\ Chunk
    /\ LET call == run.calls[i]
           l == ChargedCall(call.args)
       IN  IF call.index = -1 \/ call.done THEN Go(run, ledger, <<>>)
           ELSE IF CallCrosses(l, call.args) THEN Trip(run, l)
           ELSE Go(run, l, CloseCall(call))

\* charge_round.
Round ==
    /\ Chunk
    /\ LET l == [ledger EXCEPT !.rounds = @ + 1]
       IN  IF l.rounds > MaxRounds THEN Trip(run, l) ELSE Go(run, l, <<>>)

\* charge_tool_result, for a failure seen before.
FailedResult ==
    /\ Chunk
    /\ LET l == [ledger EXCEPT !.failures = @ + 1]
       IN  IF l.failures > MaxRepeats THEN Trip(run, l) ELSE Go(run, l, <<>>)

---------------------------------------------------------------------------
(* The end of the stream, and of the attempt *)

\* EOF, a cancel request, the wall clock, an error of the upstream.
StreamEnds(status) ==
    /\ phase = "stream" /\ todo = <<>>
    /\ End(status)
    /\ run' = MessageClosed(run)
    /\ UNCHANGED <<ledger, log, emitter, items, stored, chunks, faults>>

\* What an event changes in the accumulators: validate_arguments before
\* arguments.done, item_added and mark_item_done after the append.
Marked(r, e, ok) ==
    [r EXCEPT !.calls = [i \in Indexes |->
        IF r.calls[i].index # e[2] THEN r.calls[i]
        ELSE [r.calls[i] EXCEPT !.added = @ \/ (ok /\ e[1] = "added"),
                                !.valid = @ \/ e[1] = "args_done",
                                !.done  = @ \/ (ok /\ e[1] = "done")]]]

\* _emit: one append of what the handler has to write.
Write ==
    /\ phase \in {"stream", "close"} /\ todo # <<>>
    /\ log' = Append(log, Head(todo))
    /\ todo' = Tail(todo)
    /\ run' = Marked(run, Head(todo), TRUE)
    /\ UNCHANGED <<ledger, phase, outcome, emitter, items, stored, chunks, faults>>

\* Everything is closed; a trip runs the six steps of the breaker now.
Closed ==
    /\ phase = "close" /\ todo = <<>>
    /\ phase' = "persist"
    /\ emitter' = IF outcome = "incomplete" /\ emitter = "live" THEN "incomplete" ELSE emitter
    /\ UNCHANGED <<run, ledger, log, todo, outcome, items, stored, chunks, faults>>

\* output_items: the status is what validation found when the call was closed, the
\* arguments are what has arrived since.
OutputItems(status) ==
    (IF run.msg >= 0 THEN {<<run.msg, MessageStatus(status), "none">>} ELSE {})
       \cup {<<c.index, IF c.valid THEN "completed" ELSE "incomplete", c.args>> :
                c \in {run.calls[i] : i \in {j \in Indexes : run.calls[j].added}}}

\* _persist_output.
PersistOutput ==
    /\ phase = "persist"
    /\ items' = OutputItems(outcome)
    /\ phase' = "status"
    /\ UNCHANGED <<run, ledger, log, todo, outcome, emitter, stored, chunks, faults>>

\* update_status, then the emitter's terminal event.
UpdateStatus ==
    /\ phase = "status"
    /\ stored' = items
    /\ emitter' = IF emitter = "live" THEN outcome ELSE emitter
    /\ phase' = "terminal"
    /\ UNCHANGED <<run, ledger, log, todo, outcome, items, chunks, faults>>

\* _persist_terminal; the job row is BackgroundJobs' business.
PersistTerminal ==
    /\ phase = "terminal"
    /\ log' = Append(log, <<"terminal", outcome>>)
    /\ phase' = "ended"
    /\ UNCHANGED <<run, ledger, todo, outcome, emitter, items, stored, chunks, faults>>

\* A statement fails.  Before _finish_failed: that is where it leads.  During its
\* salvage: no output.  After that: the exception leaves run_job.
Fault ==
    /\ faults < MaxFaults /\ faults' = faults + 1
    /\ phase \in {"stream", "close"} => todo # <<>>
    /\ phase \notin {"ended", "aborted"}
    /\ LET r == IF todo = <<>> THEN run ELSE Marked(run, Head(todo), FALSE)
       IN  CASE outcome # "failed" ->
                  /\ phase' = "close" /\ outcome' = "failed"
                  /\ todo' = CloseOpenItems("failed") /\ run' = MessageClosed(r)
                  /\ items' = {}
             [] outcome = "failed" /\ phase \in {"close", "persist"} ->
                  phase' = "status" /\ todo' = <<>> /\ run' = r /\ items' = {} /\ UNCHANGED outcome
             [] OTHER ->
                  phase' = "aborted" /\ UNCHANGED <<todo, run, items, outcome>>
    /\ UNCHANGED <<ledger, log, emitter, stored, chunks>>

Next ==
    \/ Text \/ Round \/ FailedResult
    \/ \E i \in Indexes : Settle(i)
    \/ \E i \in Indexes, a \in {"part", "rest"} : Fragment(i, a)
    \/ \E i \in Indexes, a \in {"partial", "whole"} : OnePiece(i, a)
    \/ \E s \in {"completed", "cancelled", "incomplete", "failed"} : StreamEnds(s)
    \/ Write \/ Closed \/ PersistOutput \/ UpdateStatus \/ PersistTerminal \/ Fault

Spec == Init /\ [][Next]_jobvars

---------------------------------------------------------------------------
(* Properties *)

At(what, n) == {p \in 1..Len(log) : log[p][1] = what /\ log[p][2] = n}
Opened == {n \in 0..run.next : At("added", n) # {}}

\* A client that replays the log sees an item announced once, filled after that and
\* closed at most once, the message with nothing behind its end and a call with
\* nothing but late fragments there; a call is closed as completed only with whole
\* arguments, behind arguments.done; the terminal event is the last one, and unless
\* the job failed it comes when every item is closed.
LogReplaysWell ==
    /\ \A n \in Opened :
          /\ Cardinality(At("added", n)) = 1 /\ Cardinality(At("done", n)) <= 1
          /\ \A a \in At("added", n), p \in At("delta", n) \cup At("args_done", n) : a < p
          /\ \A d \in At("done", n) :
                /\ \A p \in At("args_done", n) : p < d
                /\ n = run.msg => \A p \in At("delta", n) : p < d
    /\ \A p \in 1..Len(log) :
          /\ log[p][1] = "done" /\ log[p][2] # run.msg /\ log[p][3] = "completed" =>
                log[p][4] = "whole" /\ At("args_done", log[p][2]) # {}
          /\ log[p][1] = "terminal" =>
                /\ p = Len(log)
                /\ log[p][2] # "failed" => \A n \in Opened : At("done", n) # {}

\* The output of a job that did not fail is what its log says: the items that were
\* announced, each with the status it was closed with, and with the arguments it was
\* closed with unless the log shows a later fragment.
StoredOutputIsTheLog ==
    phase = "ended" /\ outcome # "failed" =>
       /\ {<<x[1], x[2]>> : x \in stored} = {<<n, log[CHOOSE p \in At("done", n) : TRUE][3]>> : n \in Opened}
       /\ \A x \in stored : \A d \in At("done", x[1]) :
             x[3] = log[d][4] \/ \E p \in At("delta", x[1]) : d < p

\* A ceiling of N permits exactly N units: never more text in the log, never more
\* calls opened, and a job over a ceiling is never completed.
CeilingsHold ==
    /\ run.msg >= 0 => Cardinality(At("delta", run.msg)) <= MaxTokens
    /\ Cardinality({i \in Indexes : run.calls[i].added}) <= MaxBackground
    /\ outcome = "completed" =>
          /\ ledger.tokens <= MaxTokens /\ ledger.rounds <= MaxRounds /\ ledger.total <= MaxCalls
          /\ ledger.failures <= MaxRepeats
          /\ \A s \in Signatures : ledger.same[s] <= MaxRepeats


\* What the comment of _close_tool_item wants a reader spared: no call stored as
\* completed has arguments that are not a whole object.  The code does not keep to
\* it: tool_item goes by the validation at the end of the call, and a fragment that
\* comes after it is still appended to the arguments.
StoredCallsAreRunnable ==
    \A x \in stored : x[1] # run.msg /\ x[2] = "completed" => x[3] = "whole"

\* What the comment in _trip says of a ceiling: the items still open when it is
\* crossed are marked incomplete, one by one.  The code does not keep to it: the
\* call that crosses it is closed as completed when its arguments are whole.
CutItemsAreIncomplete ==
    phase = "close" /\ outcome = "incomplete" =>
       \A p \in 1..Len(todo) : todo[p][1] = "done" => todo[p][3] = "incomplete"
=============================================================================
