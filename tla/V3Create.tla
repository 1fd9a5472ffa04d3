------------------------------- MODULE V3Create -------------------------------
(***************************************************************************)
(* One POST /v1/responses through the three create paths of the proxy       *)
(* handler (non-stream, stream, background): phase A, the loop over         *)
(* candidate keys, the deferred event log, and the row of the response.     *)
(*                                                                         *)
(* An upstream is what it answers: no connection, an HTTP error, a body of  *)
(* some shape, or a stream.  A stream is a ResponseStream, which Pipeline   *)
(* is shown to implement.  Headers, translation and token counts are left   *)
(* out; of a frame only its number and whether it has content are kept.     *)
(* Heartbeats, which are no events, only show that the client has left.     *)
(***************************************************************************)
EXTENDS Integers, Sequences, FiniteSets

CONSTANTS
    Keys,           \* the candidates of the requested model
    Primary,        \* the key the capability router chose
    Fallback,       \* the keys of the fallback group
    Requests,       \* the requests considered
    MaxSwitches,    \* _V3_STREAM_MAX_SWITCHES + 1: the turns of a request with many candidates
    MaxFrames,      \* bound on the frames of an attempt before its closing ones
    MaxChunk,       \* bound on the frames that one upstream chunk becomes
    MaxFaults       \* bound on failing database statements

ASSUME CreateAssumption ==
    /\ Primary \in Keys /\ Keys \cap Fallback = {}
    /\ Requests \subseteq [mode : {"nonstream", "stream", "background"}, store : BOOLEAN,
                           chain : {"none", "ok", "broken"}, capable : BOOLEAN, worker : BOOLEAN,
                           effort : BOOLEAN, native : BOOLEAN]
    /\ MaxSwitches \in Nat \ {0} /\ MaxFrames \in Nat /\ MaxChunk \in Nat \ {0} /\ MaxFaults \in Nat

VARIABLES
    req,            \* the request, and whether the deployment runs a background worker
    client,         \* "here", or "gone" once its transport is closing
    ready,          \* the keys that are available
    pc, cur, tried, turns, retried,     \* the dispatch loop, its key, what was retried on this key
    effort,         \* the body to send still has reasoning_effort
    resp,           \* the last result of _run_v3_nonstream, or the last HTTP error
    rs, row, side,  \* prep.rs, the status in responses, the input items and chain row
    phase, content, status, reason,     \* the stream of this attempt
    att, frames, buf, pending, live,    \* its number, its frames, buf, and its _DeferredEventLog
    ahead, broken,                      \* frames made and not yet yielded; an append failed: internal_error
    kept, lastReason,                   \* last_truncated, last_reason
    db, shown, prepared,                \* response_events, the frames written, resp.prepare done
    calls, reply, faults

stream == <<phase, content, status, reason>>
attempt == <<att, frames, buf, pending, live, ahead, broken, db, shown, prepared, kept, lastReason, stream>>
loop == <<pc, cur, tried, turns, retried, effort, resp, calls>>
record == <<rs, row, side>>
vars == <<req, client, ready, loop, record, attempt, reply, faults>>

S == INSTANCE ResponseStream

NoKey == "no key"
AnyKey == Keys \cup Fallback
HttpErrors == {"busy", "forbidden", "unauthorized", "bad"}    \* 429 and 5xx, 403, 401, other 4xx
Bodies == {"good", "empty", "sse", "text", "list"}            \* 200: object, empty object, text/event-stream, other text, other JSON
Results == {"none", "local", "gone", "network"} \cup HttpErrors \cup Bodies
Statuses == {"completed", "incomplete", "failed"}
Replies == {"none", "error", "passthrough", "response", "fabricated", "stream", "queued", "crash"}
Frame == [att : Nat, n : Nat, c : BOOLEAN]

\* max_switches
MaxTurns == IF Cardinality(Keys) < MaxSwitches THEN Cardinality(Keys) ELSE MaxSwitches

TypeOK ==
    /\ req \in Requests /\ client \in {"here", "gone"} /\ ready \subseteq Keys
    /\ pc \in {"start", "pick", "call", "stream", "left", "decide", "fallback", "done"}
    /\ cur \in AnyKey \cup {NoKey} /\ tried \subseteq AnyKey /\ turns \in 0..MaxTurns
    /\ retried \subseteq {"strip", "chat", "string"} /\ effort \in BOOLEAN /\ resp \in Results
    /\ rs \in BOOLEAN /\ row \in Statuses \cup {"absent", "in_progress", "queued"} /\ side \in BOOLEAN
    /\ db \in Seq(Frame) /\ buf \in Seq(Frame) /\ pending \in Seq(Frame) /\ shown \in Seq(Frame) /\ kept \in Seq(Frame)
    /\ ahead \in Seq(Frame) /\ frames \in 0..(MaxFrames + MaxChunk) /\ {live, broken, prepared, lastReason} \subseteq BOOLEAN
    /\ calls \in [AnyKey -> Nat] /\ reply \in Replies /\ faults \in 0..MaxFaults

Init ==
    /\ req \in Requests /\ client = "here" /\ ready = Keys
    /\ pc = "start" /\ cur = NoKey /\ tried = {} /\ turns = 0 /\ retried = {}
    /\ effort = req.effort /\ resp = "none"
    /\ rs = TRUE /\ row = "absent" /\ side = FALSE
    /\ phase = "gone" /\ content = FALSE /\ status = "none" /\ reason = FALSE
    /\ att = 0 /\ frames = 0 /\ buf = <<>> /\ pending = <<>> /\ live = FALSE /\ kept = <<>> /\ lastReason = FALSE
    /\ ahead = <<>> /\ broken = FALSE
    /\ db = <<>> /\ shown = <<>> /\ prepared = FALSE
    /\ calls = [k \in AnyKey |-> 0] /\ reply = "none" /\ faults = 0

(***************************************************************************)
(* The environment                                                         *)
(***************************************************************************)
ClientLeaves ==
    /\ client = "here" /\ pc \notin {"start", "done"}
    /\ client' = "gone"
    /\ UNCHANGED <<req, ready, loop, record, attempt, reply, faults>>

\* Another request's failure makes a key unavailable.
KeyCools(k) ==
    /\ pc \in {"pick", "call"} /\ k \in ready
    /\ ready' = ready \ {k}
    /\ UNCHANGED <<req, client, loop, record, attempt, reply, faults>>

(***************************************************************************)
(* Phase A                                                                 *)
(***************************************************************************)
Finish(r) == pc' = "done" /\ reply' = r

\* background=true with stream=true, or on a deployment without a worker, is
\* refused first; then a broken chain and a missing executor.
Refused == (req.mode = "background" /\ ~req.worker) \/ req.chain = "broken" \/ ~req.capable

Refuse ==
    /\ pc = "start" /\ Refused
    /\ Finish("error")
    /\ UNCHANGED <<req, client, ready, cur, tried, turns, retried, effort, resp, calls, record, attempt, faults>>

StoreRow == req.store /\ rs

\* The skeleton row and then the side records.  A failing store makes the
\* request store-less; failing side records are left out.
PrepareSync(rowOk, sideOk) ==
    /\ pc = "start" /\ ~Refused /\ req.mode # "background"
    /\ ~(rowOk /\ sideOk) => req.store /\ faults < MaxFaults /\ faults' = faults + 1
    /\ (rowOk /\ sideOk) => UNCHANGED faults
    /\ rs' = rowOk
    /\ row' = IF req.store /\ rowOk THEN "in_progress" ELSE "absent"
    /\ side' = (req.store /\ rowOk /\ sideOk)
    /\ pc' = "pick"
    /\ UNCHANGED <<req, client, ready, cur, tried, turns, retried, effort, resp, calls, attempt, reply>>

\* BackgroundWorker.enqueue writes the row; the side records come after it.
Enqueue(ok) ==
    /\ pc = "start" /\ ~Refused /\ req.mode = "background"
    /\ IF ok THEN UNCHANGED faults ELSE faults < MaxFaults /\ faults' = faults + 1
    /\ row' = IF ok THEN "queued" ELSE row
    /\ side' = (ok /\ req.store)
    /\ Finish(IF ok THEN "queued" ELSE "error")
    /\ UNCHANGED <<req, client, ready, cur, tried, turns, retried, effort, resp, calls, rs, attempt>>

(***************************************************************************)
(* The loop over the candidates                                            *)
(***************************************************************************)
\* The router's key first, then an available key that was not tried.
Selectable == IF Primary \notin tried THEN {Primary} ELSE ready \ tried

\* Mutant: the turn is not counted.
SelectUncounted(k) ==
    /\ pc = "pick" /\ turns < MaxTurns
    /\ cur' = k /\ retried' = {} /\ pc' = "call"
    /\ tried' = IF req.mode = "nonstream" THEN tried \cup {k} ELSE tried
    /\ UNCHANGED <<req, client, ready, turns, effort, resp, calls, record, attempt, reply, faults>>

\* The loop takes a turn, or it is over.
Select(k) ==
    /\ pc = "pick" /\ turns < MaxTurns
    /\ cur' = k /\ turns' = turns + 1 /\ retried' = {} /\ pc' = "call"
    /\ tried' = IF req.mode = "nonstream" THEN tried \cup {k} ELSE tried
    /\ UNCHANGED <<req, client, ready, effort, resp, calls, record, attempt, reply, faults>>

SelectNone ==
    /\ pc = "pick" /\ (turns = MaxTurns \/ Selectable = {})
    /\ pc' = "decide"
    /\ UNCHANGED <<req, client, ready, cur, tried, turns, retried, effort, resp, calls, record, attempt,
                   reply, faults>>

Called == calls' = [calls EXCEPT ![cur] = @ + 1]
InGroup == pc = "call" \/ pc = "fallback"

\* Mutant: the parameter stays in the body and the retry is not remembered.
StripRetryAgain == effort /\ "chat" \notin retried /\ UNCHANGED <<effort, retried>>

\* _strip_reasoning_effort: the parameter leaves the body of the whole request.
StripRetry ==
    /\ effort /\ "strip" \notin retried /\ "chat" \notin retried
    /\ effort' = FALSE /\ retried' = retried \cup {"strip"}

(***************************************************************************)
(* Non-stream                                                              *)
(***************************************************************************)
\* A result of the candidate loop: an error that another key may not have and
\* an empty body go on, everything else ends the loop.
Goes(r) ==
    \/ r \in {"local", "network", "busy", "forbidden"}
    \/ r = "empty" /\ "string" \notin retried
    \/ r \in {"sse", "text"} /\ "string" \in retried

\* What the fallback group takes: a 200 whose body is an object.
Accepted(r) == r \in {"good", "empty"}

ResultIs(r) ==
    /\ \/ pc = "call" /\ resp' = r /\ pc' = (IF Goes(r) THEN "pick" ELSE "decide") /\ UNCHANGED cur
       \/ /\ pc = "fallback" /\ cur' = NoKey
          /\ resp' = (IF Accepted(r) THEN r ELSE resp)
          /\ pc' = (IF Accepted(r) THEN "decide" ELSE pc)
    /\ UNCHANGED <<req, client, ready, tried, turns, retried, effort, record, attempt, reply, faults>>

\* The local rate window, a missing client, or a failing translation: no call.
LocalError == req.mode = "nonstream" /\ InGroup /\ cur # NoKey /\ ResultIs("local") /\ UNCHANGED calls

NoConnection ==
    /\ req.mode = "nonstream" /\ InGroup /\ cur # NoKey
    /\ ResultIs(IF client = "gone" THEN "gone" ELSE "network") /\ Called

HttpError(e) == req.mode = "nonstream" /\ InGroup /\ cur # NoKey /\ ResultIs(e) /\ Called

Answer(b) ==
    /\ req.mode = "nonstream" /\ InGroup /\ cur # NoKey
    /\ ~(pc = "call" /\ b = "sse" /\ "string" \notin retried)
    /\ ResultIs(b) /\ Called

\* The same key once more: without reasoning_effort, as a translated chat call,
\* or with string content after an event stream.
RetrySameKey(why) ==
    /\ req.mode = "nonstream" /\ cur # NoKey
    /\ \/ why = "strip" /\ InGroup /\ StripRetry
       \/ /\ why = "chat" /\ InGroup /\ req.native /\ "chat" \notin retried
          /\ retried' = retried \cup {"chat"} /\ UNCHANGED effort
       \/ /\ why = "string" /\ pc = "call" /\ "string" \notin retried
          /\ retried' = {"string"} /\ UNCHANGED effort
    /\ Called
    /\ UNCHANGED <<req, client, ready, pc, cur, tried, turns, resp, record, attempt, reply, faults>>

IsError == resp \in {"local", "gone", "network"} \cup HttpErrors

TryFallback(k) ==
    /\ req.mode = "nonstream" /\ cur = NoKey /\ k \in Fallback \ tried
    /\ pc = "fallback"
    /\ cur' = k /\ retried' = {} /\ tried' = tried \cup {k}
    /\ UNCHANGED <<req, client, ready, pc, turns, effort, resp, calls, record, attempt, reply, faults>>

\* After the loop an error tries the fallback group.
EnterFallback ==
    /\ req.mode = "nonstream" /\ pc = "decide" /\ IsError
    /\ pc' = "fallback" /\ cur' = NoKey
    /\ UNCHANGED <<req, client, ready, tried, turns, retried, effort, resp, calls, record, attempt, reply, faults>>

\* An error is passed on and the row stays.
ReplyError ==
    /\ req.mode = "nonstream"
    /\ \/ pc = "decide" /\ resp = "none"
       \/ pc = "fallback" /\ cur = NoKey /\ Fallback \subseteq tried
    /\ Finish("error")
    /\ UNCHANGED <<req, client, ready, cur, tried, turns, retried, effort, resp, calls, record, attempt, faults>>

\* The last body: not an object, it is passed on; text that does not parse
\* becomes an empty object; an object gets this response's id.
ReplyOf(b) == CASE b = "list" -> "passthrough" [] b \in {"sse", "text"} -> "fabricated" [] OTHER -> "response"

\* _persist_v3_terminal, whose failure is swallowed.
Persist(st, ok) ==
    /\ row' = IF StoreRow /\ ok THEN st ELSE row
    /\ IF ok THEN UNCHANGED faults ELSE StoreRow /\ faults < MaxFaults /\ faults' = faults + 1
    /\ UNCHANGED <<rs, side>>

ReplyBody(ok) ==
    /\ req.mode = "nonstream" /\ pc = "decide" /\ resp \in Bodies
    /\ Finish(ReplyOf(resp))
    /\ IF resp = "list" THEN ok /\ UNCHANGED <<record, faults>> ELSE Persist("completed", ok)
    /\ UNCHANGED <<req, client, ready, cur, tried, turns, retried, effort, resp, calls, attempt>>

(***************************************************************************)
(* Stream                                                                  *)
(***************************************************************************)
NextKey == pc' = "pick" /\ UNCHANGED <<cur, turns, retried, effort>>

\* The local rate window marks the key as tried, another local error does not.
StreamLocalError(window) ==
    /\ req.mode = "stream" /\ pc = "call" /\ NextKey
    /\ tried' = IF window THEN tried \cup {cur} ELSE tried
    /\ UNCHANGED <<req, client, ready, resp, calls, record, attempt, reply, faults>>

\* When the client left, 499 and nothing is saved.
StreamNoConnection ==
    /\ req.mode = "stream" /\ pc = "call"
    /\ tried' = tried \cup {cur} /\ Called
    /\ \/ client = "here" /\ NextKey /\ UNCHANGED reply
       \/ client = "gone" /\ Finish("error") /\ UNCHANGED <<cur, turns, retried, effort>>
    /\ UNCHANGED <<req, client, ready, resp, record, attempt, faults>>

StreamHttpError(e) ==
    /\ req.mode = "stream" /\ pc = "call"
    /\ tried' = tried \cup {cur} /\ Called
    /\ resp' = e /\ NextKey
    /\ UNCHANGED <<req, client, ready, record, attempt, reply, faults>>

StreamStrip ==
    /\ req.mode = "stream" /\ pc = "call"
    /\ tried' = tried \cup {cur} /\ Called
    /\ StripRetry
    /\ UNCHANGED <<req, client, ready, pc, cur, turns, resp, record, attempt, reply, faults>>

\* A connection: the pipeline of this attempt begins.
Open ==
    /\ req.mode = "stream" /\ pc = "call"
    /\ tried' = tried \cup {cur} /\ Called
    /\ pc' = "stream" /\ att' = att + 1 /\ frames' = 0 /\ buf' = <<>> /\ pending' = <<>> /\ live' = FALSE
    /\ ahead' = <<>> /\ broken' = FALSE
    /\ phase' = "open" /\ content' = FALSE /\ status' = "none" /\ reason' = FALSE
    /\ UNCHANGED <<req, client, ready, cur, turns, retried, effort, resp, record, kept, lastReason,
                   db, shown, prepared, reply, faults>>

\* The frames that come next, as cs says which of them have content.
New(cs) == [i \in 1..Len(cs) |-> [att |-> att, n |-> frames + i, c |-> cs[i]]]

\* Mutant: every event is written at once.
LogEventsNow(fs) ==
    /\ db' = IF StoreRow THEN db \o fs ELSE db
    /\ UNCHANGED pending

\* append_event of _DeferredEventLog: held back until the attempt is committed.
LogEvents(fs) ==
    IF ~StoreRow THEN UNCHANGED <<db, pending>>
    ELSE IF live THEN db' = db \o fs /\ UNCHANGED pending
    ELSE pending' = pending \o fs /\ UNCHANGED db

Chunks == UNION {[1..n -> BOOLEAN] : n \in 1..MaxChunk}
Beginnings == UNION {[1..n -> BOOLEAN] : n \in 0..(MaxChunk - 1)}

handlerRest == <<req, client, ready, cur, tried, turns, retried, effort, resp, calls, record, kept, lastReason, att>>
pipelineRest == <<handlerRest, buf, live, shown, prepared>>

\* The pipeline's generator is asked for a frame and has none left.
Asked == pc = "stream" /\ phase = "open" /\ ahead = <<>>

\* _translate_chunk: the events of a chunk are all logged before the first of
\* them is yielded.  The first frame of an attempt is response.created.
Translate(cs) ==
    /\ Asked /\ ~broken /\ frames + Len(cs) <= MaxFrames /\ (frames = 0 => cs = <<FALSE>>)
    /\ frames' = frames + Len(cs) /\ ahead' = New(cs) /\ LogEvents(New(cs))
    /\ IF ~content /\ \E i \in DOMAIN cs : cs[i] THEN S!Deliver ELSE UNCHANGED stream
    /\ UNCHANGED <<pipelineRest, pc, broken, reply, faults>>

\* Mutant: _seq advances before the append.
TranslateFailsCounted(cs) ==
    /\ Asked /\ ~broken /\ StoreRow /\ live /\ faults < MaxFaults /\ frames + Len(cs) < MaxFrames
    /\ frames' = frames + Len(cs) + 1 /\ LogEvents(New(cs))
    /\ broken' = TRUE /\ faults' = faults + 1
    /\ UNCHANGED <<pipelineRest, stream, pc, ahead, reply>>

\* The append after the events cs of a chunk fails, which only the database can:
\* what was made of the chunk is not yielded, and the stream is to end as failed.
TranslateFails(cs) ==
    /\ Asked /\ ~broken /\ StoreRow /\ live /\ faults < MaxFaults /\ frames + Len(cs) < MaxFrames
    /\ frames' = frames + Len(cs) /\ LogEvents(New(cs))
    /\ broken' = TRUE /\ faults' = faults + 1
    /\ UNCHANGED <<pipelineRest, stream, pc, ahead, reply>>

\* The closing frames, of which the last is the terminal event:
\* _internal_failed_frames after a failed append, _terminal_frames or
\* _completed_frames otherwise.
Close(cs) ==
    /\ Asked /\ frames > 0 /\ \A i \in DOMAIN cs : ~cs[i]
    /\ S!End /\ (broken => status' = "failed" /\ reason')
    /\ frames' = frames + Len(cs) /\ ahead' = New(cs) /\ LogEvents(New(cs))
    /\ UNCHANGED <<pipelineRest, pc, broken, reply, faults>>

\* An append of the closing frames fails: nothing catches it.
StreamRaises(cs) ==
    /\ Asked /\ StoreRow /\ live /\ faults < MaxFaults /\ \A i \in DOMAIN cs : ~cs[i]
    /\ frames' = frames + Len(cs) /\ LogEvents(New(cs)) /\ faults' = faults + 1
    /\ S!Raise /\ Finish("crash")
    /\ UNCHANGED <<pipelineRest, ahead, broken>>

\* The handler takes a frame that the generator yields.
Yielded(c) == pc = "stream" /\ ahead # <<>> /\ Head(ahead).c = c

\* Nothing was committed and the frame has no content.
Buffer ==
    /\ ~prepared /\ Yielded(FALSE)
    /\ buf' = Append(buf, Head(ahead)) /\ ahead' = Tail(ahead)
    /\ UNCHANGED <<handlerRest, stream, pc, frames, pending, live, broken, db, shown, prepared, reply, faults>>

\* commit of _DeferredEventLog: what was held is written, the frames of the chunk
\* in hand with it.
CommitLog ==
    /\ db' = IF StoreRow THEN db \o pending ELSE db
    /\ pending' = <<>> /\ live' = TRUE

\* The first content frame: the held events are written, then the 200.
Commit ==
    /\ ~prepared /\ client = "here" /\ Yielded(TRUE)
    /\ CommitLog /\ prepared' = TRUE
    /\ shown' = Append(buf, Head(ahead)) /\ buf' = <<>> /\ ahead' = Tail(ahead)
    /\ UNCHANGED <<handlerRest, stream, pc, frames, broken, reply, faults>>

\* The transport is closed: the generator is closed where it stands.
Leave ==
    /\ pc' = "left" /\ ahead' = <<>>
    /\ IF phase = "open" THEN S!Drop ELSE UNCHANGED stream

\* The client's transport is closing when the 200 is prepared.
CommitToNobody ==
    /\ ~prepared /\ client = "gone" /\ Yielded(TRUE)
    /\ CommitLog /\ buf' = Append(buf, Head(ahead))
    /\ Leave
    /\ UNCHANGED <<handlerRest, frames, broken, shown, prepared, reply, faults>>

\* A statement of commit fails after i events: the exception leaves the handler.
CommitFails(i) ==
    /\ ~prepared /\ Yielded(TRUE) /\ StoreRow /\ faults < MaxFaults /\ i < Len(pending)
    /\ faults' = faults + 1 /\ live' = TRUE
    /\ db' = db \o SubSeq(pending, 1, i) /\ pending' = <<>>
    /\ S!Drop /\ ahead' = <<>> /\ Finish("crash")
    /\ UNCHANGED <<handlerRest, frames, buf, broken, shown, prepared>>

Write ==
    /\ prepared /\ client = "here" /\ \E c \in BOOLEAN : Yielded(c)
    /\ shown' = Append(shown, Head(ahead)) /\ ahead' = Tail(ahead)
    /\ UNCHANGED <<handlerRest, stream, pc, frames, buf, pending, live, broken, db, prepared, reply, faults>>

\* resp.write of a frame or of a heartbeat raises.
WriteToNobody ==
    /\ prepared /\ client = "gone" /\ pc = "stream"
    /\ ahead # <<>> \/ (phase = "open" /\ ~broken)
    /\ Leave
    /\ UNCHANGED <<handlerRest, frames, buf, pending, live, broken, db, shown, prepared, reply, faults>>

EndRest == <<req, client, ready, cur, tried, turns, retried, effort, resp, calls, att, frames, buf, live, ahead, broken,
             kept, lastReason, db, shown, prepared, stream>>

\* The generator is exhausted.
Ended == pc = "stream" /\ phase = "ended" /\ ahead = <<>>

\* The client left: a disconnect is incomplete.
AfterGone(ok) ==
    /\ pc = "left"
    /\ pending' = IF prepared THEN pending ELSE <<>>
    /\ Persist("incomplete", ok) /\ Finish("stream")
    /\ UNCHANGED EndRest

\* Mutant: whatever was committed is stored as completed.
AfterCommittedWell(ok) ==
    /\ Ended /\ prepared
    /\ Persist("completed", ok) /\ Finish("stream")
    /\ UNCHANGED <<EndRest, pending>>

\* The 200 went out: the row gets the pipeline's state.
AfterCommitted(ok) ==
    /\ Ended /\ prepared
    /\ Persist(status, ok) /\ Finish("stream")
    /\ UNCHANGED <<EndRest, pending>>

\* No content: the attempt is dropped, the next key is tried.
AfterEmpty ==
    /\ Ended /\ ~prepared
    /\ IF reason THEN kept' = buf /\ lastReason' = TRUE /\ UNCHANGED pending
       ELSE pending' = <<>> /\ UNCHANGED <<kept, lastReason>>
    /\ pc' = "pick"
    /\ UNCHANGED <<req, client, ready, cur, tried, turns, retried, effort, resp, calls, record, att, frames, buf,
                   live, ahead, broken, db, shown, prepared, stream, reply, faults>>

\* Every candidate failed before its first content.  A kept attempt is replayed
\* when it had content; otherwise the upstream's error is passed on, or 502.
StreamExhausted(ok) ==
    /\ req.mode = "stream" /\ pc = "decide"
    /\ IF \E i \in DOMAIN kept : kept[i].c
       THEN /\ db' = db \o kept /\ shown' = kept /\ prepared' = TRUE
            /\ Persist("incomplete", ok) /\ Finish("stream")
       ELSE /\ Persist("failed", ok) /\ Finish("error")
            /\ UNCHANGED <<db, shown, prepared>>
    /\ UNCHANGED <<req, client, ready, cur, tried, turns, retried, effort, resp, calls, att, frames, buf, pending,
                   live, ahead, broken, kept, lastReason, stream>>

(***************************************************************************)
(* The specification                                                       *)
(***************************************************************************)
PhaseA ==
    \/ Refuse
    \/ \E ok \in BOOLEAN : Enqueue(ok)
    \/ \E rowOk, sideOk \in BOOLEAN : PrepareSync(rowOk, sideOk)

NonStream ==
    \/ LocalError \/ NoConnection \/ EnterFallback \/ ReplyError
    \/ \E e \in HttpErrors : HttpError(e)
    \/ \E b \in Bodies : Answer(b)
    \/ \E why \in {"strip", "chat", "string"} : RetrySameKey(why)
    \/ \E k \in Fallback : TryFallback(k)
    \/ \E ok \in BOOLEAN : ReplyBody(ok)

Streaming ==
    \/ StreamNoConnection \/ StreamStrip \/ Open
    \/ \E window \in BOOLEAN : StreamLocalError(window)
    \/ \E e \in HttpErrors : StreamHttpError(e)
    \/ \E cs \in Chunks : Translate(cs) \/ Close(cs)
    \/ \E cs \in Beginnings : TranslateFails(cs) \/ StreamRaises(cs)
    \/ Buffer \/ Commit \/ CommitToNobody \/ Write \/ WriteToNobody \/ AfterEmpty
    \/ \E i \in 0..MaxFrames : CommitFails(i)
    \/ \E ok \in BOOLEAN : AfterGone(ok) \/ AfterCommitted(ok) \/ StreamExhausted(ok)

Handler == PhaseA \/ (\E k \in Selectable : Select(k)) \/ SelectNone \/ NonStream \/ Streaming

Next == Handler \/ ClientLeaves \/ \E k \in Keys : KeyCools(k)

Spec == Init /\ [][Next]_vars

\* Every await of the handler ends: upstream calls have timeouts, and a stream
\* ends, which is what Pipeline shows of it.
FairSpec == Spec /\ WF_vars(Handler)

(***************************************************************************)
(* Properties                                                              *)
(***************************************************************************)
\* The client was shown the terminal event.
ShownToTheEnd == shown # <<>> /\ shown[Len(shown)].n = frames

\* _DeferredEventLog: the events in the database are of one attempt and are
\* numbered without a gap, however many keys were tried, so that no two of them
\* meet the unique key.  What the client was shown was in the database before,
\* in the same order; nothing in between was kept from it unless an append
\* failed, and a client that stayed to the end was shown everything that a
\* replay repeats.  A 200 goes out with content: the client never gets a stream
\* without any.
OneAttemptIsStored ==
    /\ \A i \in DOMAIN db : db[i].n = i /\ db[i].att = db[1].att
    /\ \A i, j \in DOMAIN shown : i < j => shown[i].n < shown[j].n /\ shown[i].att = shown[j].att
    /\ ~broken => \A i \in DOMAIN shown : shown[i].n = i
    /\ StoreRow => \A i \in DOMAIN shown : shown[i].n \in DOMAIN db /\ db[shown[i].n] = shown[i]
    /\ pc = "done" /\ reply = "stream" /\ client = "here" /\ StoreRow /\ ~broken => shown = db
    /\ prepared => \E i \in DOMAIN shown : shown[i].c

\* A streamed response is stored as it ended on the wire: with its terminal
\* event's status when the client was shown that event, incomplete when the
\* client left before it, failed when no key delivered.  (Not when the client
\* left before a connection, when the handler crashed, or when a statement
\* failed.)
RowTellsTheStory ==
    pc = "done" /\ req.mode = "stream" /\ StoreRow /\ ~Refused /\ faults = 0 =>
        \/ reply = "stream" /\ phase = "ended" /\ ShownToTheEnd /\ row = status
        \/ reply = "stream" /\ phase = "ended" /\ ~ShownToTheEnd /\ row = "incomplete" /\ client = "gone"
        \/ reply = "stream" /\ phase = "gone" /\ row = "incomplete" /\ client = "gone"
        \/ reply = "error" /\ ~prepared /\ row = "failed"
        \/ reply = "error" /\ client = "gone" /\ ~prepared

\* "Each key is used exactly once": a streamed create calls the upstream of a
\* key it tried once, and in the whole request one of them a second time, for
\* the body without reasoning_effort; otherwise each of the three retries of a
\* key adds its calls.
CallBudget ==
    /\ req.mode = "stream" =>
          /\ \A k \in AnyKey : calls[k] <= (IF k \in tried THEN 2 ELSE 0)
          /\ \A j, k \in AnyKey : calls[j] = 2 /\ calls[k] = 2 => j = k
    /\ req.mode = "nonstream" => \A k \in AnyKey : calls[k] <= 5

\* Every create is answered.
EveryCreateIsAnswered == <>(pc = "done")
===============================================================================
