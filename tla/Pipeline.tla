------------------------------- MODULE Pipeline -------------------------------
(***************************************************************************)
(* ResponsePipeline.run on one upstream body: the adapter turns upstream    *)
(* frames into chunks, three tasks (producer, monitor, cancel watcher) feed *)
(* one queue, and the consumer translates chunks into Responses events that *)
(* are appended to the event log and then yielded to the handler.           *)
(*                                                                         *)
(* Texts are left out.  Of the arguments of a tool call only whether they   *)
(* parse as a JSON object is kept.  The part events between the added and   *)
(* the done event of an item belong to these two, and heartbeats, which are *)
(* neither logged nor numbered, are left out.  The clock is left out: the   *)
(* monitor may find the total limit exceeded at any time, the first-token   *)
(* limit while nothing was produced, and the idle limit after that.         *)
(***************************************************************************)
EXTENDS Integers, Sequences, SequencesExt, FiniteSets

CONSTANTS
    Tools,          \* source indices of upstream tool calls
    Configs,        \* the settings a stream may run with
    MaxFrames,      \* bound on the frames an upstream sends
    MaxQueue,       \* bound on the chunks waiting
    MaxFaults       \* bound on the failing appends to the event log

Settings == [dialect : {"openai", "anthropic", "responses"}, strict : BOOLEAN,
             wantsReasoning : BOOLEAN, special : SUBSET Tools]

ASSUME PipelineAssumption ==
    /\ Configs \subseteq Settings /\ IsFiniteSet(Tools) /\ Tools \subseteq Nat
    /\ MaxFrames \in Nat /\ MaxQueue \in Nat /\ MaxFaults \in Nat

VARIABLES
    cfg,        \* PipelineConfig, the adapter's dialect, and the tool calls that name
                \* tool_search or a multi_agent_v1 tool while these are enabled
    up,         \* the upstream body and UpstreamSSEChunkAdapter
    produced,   \* the producer handed over a chunk
    queue,      \* asyncio.Queue of the consumer
    timer,      \* "on" until the monitor has put its timeout
    watch,      \* "on" until the client's cancellation was put
    cons,       \* the consumer's state: fields of ResponsePipeline
    log,        \* response_events of this response
    shown,      \* positions of the log yielded to the handler
    faults

vars == <<cfg, up, produced, queue, timer, watch, cons, log, shown, faults>>

NoIdx == -1
Timeouts == {"total", "first_token", "read_idle"}
Stops == Timeouts \cup {"upstream_end", "upstream_error", "client_cancel"}
Reasons == Timeouts \cup {"none", "truncated", "connect", "invalid_args", "internal"}

Chunk == [type : {"text", "reasoning", "tool_call", "tool_call_done", "raw_added", "raw_done", "finish"}
                 \cup Stops,
          tool : Tools \cup {NoIdx}, named : BOOLEAN, ok : BOOLEAN]

\* item_added, item_done, arguments_done, whether the arguments parse now, and
\* whether tool_call_done has declared them final.
Accumulator == [idx : Int, added : BOOLEAN, done : BOOLEAN, valid : BOOLEAN,
                argsDone : BOOLEAN, final : BOOLEAN, stray : BOOLEAN]

Frame == [ev : {"created", "added", "delta", "args_done", "done", "completed", "incomplete", "failed"},
          idx : Int, kind : {"response", "message", "reasoning", "function_call", "raw", "special"},
          st : {"none", "completed", "incomplete", "failed"}]

Ops == {"created", "reasonOpen", "reasonDelta", "reasonEmpty", "reasonClose", "msgOpen", "msgDelta",
        "msgClose", "toolOpen", "toolDelta", "argsDone", "toolClose", "rawOpen", "rawClose", "rawEnd",
        "itemOpen", "itemClose", "end"}
Op == [op : Ops, tool : Int, st : {"none", "completed", "incomplete", "failed"}]

State == [pc : {"run", "closing", "ended", "raised", "gone"}, todo : Seq(Op), frames : SUBSET Nat, out : Nat,
          msg : Int, reason : Int, reasoned : BOOLEAN, acc : [Tools -> Accumulator], special : SUBSET Tools,
          raw : Seq(Int), finish : BOOLEAN, invalid : BOOLEAN, why : Reasons]

TypeOK ==
    /\ cfg \in Configs
    /\ up \in [left : 0..MaxFrames, open : Seq(Tools), closed : SUBSET Tools, begun : SUBSET Tools,
               finished : BOOLEAN, live : BOOLEAN]
    /\ produced \in BOOLEAN
    /\ queue \in Seq(Chunk)
    /\ timer \in {"on", "off"} /\ watch \in {"on", "off"}
    /\ cons \in State
    /\ log \in Seq(Frame) /\ shown \subseteq DOMAIN log /\ cons.frames \subseteq DOMAIN log
    /\ faults \in 0..MaxFaults

NoAcc == [idx |-> NoIdx, added |-> FALSE, done |-> FALSE, valid |-> FALSE, argsDone |-> FALSE,
          final |-> FALSE, stray |-> FALSE]

Do(op) == [op |-> op, tool |-> NoIdx, st |-> "none"]
DoTool(op, t, s) == [op |-> op, tool |-> t, st |-> s]

\* todo: the events of the chunk that is being translated, or of the end of the
\* stream.  frames: those of them that are in the log and not yet yielded.
\* why: terminal_reason.
Init ==
    /\ cfg \in Configs
    /\ up = [left |-> MaxFrames, open |-> <<>>, closed |-> {}, begun |-> {}, finished |-> FALSE, live |-> TRUE]
    /\ produced = FALSE /\ queue = <<>> /\ timer = "on" /\ watch = "on"
    /\ cons = [pc |-> "run", todo |-> <<Do("created")>>, frames |-> {}, out |-> 0, msg |-> NoIdx,
               reason |-> NoIdx, reasoned |-> FALSE, acc |-> [t \in Tools |-> NoAcc], special |-> {},
               raw |-> <<>>, finish |-> FALSE, invalid |-> FALSE, why |-> "none"]
    /\ log = <<>> /\ shown = {} /\ faults = 0

(***************************************************************************)
(* The upstream and the adapter                                            *)
(***************************************************************************)
Simple(type) == [type |-> type, tool |-> NoIdx, named |-> FALSE, ok |-> FALSE]
Fragment(t, named, ok) == [type |-> "tool_call", tool |-> t, named |-> named, ok |-> ok]
DoneOf(t) == [type |-> "tool_call_done", tool |-> t, named |-> FALSE, ok |-> FALSE]

\* The other tasks also run while a chunk is translated; all they do then is to
\* lengthen the queue, which they may as well do before or after it.
Between == cons.pc = "run" /\ cons.todo = <<>>

\* What follows a stop in the queue is never read.
Feeding == Between /\ \A i \in DOMAIN queue : queue[i].type \notin Stops

\* One upstream frame u becomes the chunks c.  The queue is unbounded in the
\* code and a put does not wait, so the chunks of a frame arrive together.
Put(u, c) ==
    /\ Feeding /\ up.live /\ up.left > 0 /\ Len(queue) + Len(c) <= MaxQueue
    /\ up' = [u EXCEPT !.left = @ - 1]
    /\ queue' = queue \o c
    /\ produced' = (produced \/ c # <<>>)
    /\ UNCHANGED <<cfg, timer, watch, cons, log, shown, faults>>

UpText == Put(up, <<Simple("text")>>)
UpReasoning == cfg.dialect # "anthropic" /\ Put(up, <<Simple("reasoning")>>)

\* _track_tool, which a closed call ignores: the fragment is forwarded anyway.
TrackTool(t) ==
    IF t \in up.closed \/ Contains(up.open, t) THEN up ELSE [up EXCEPT !.open = Append(@, t)]

\* The name comes with the first fragment.  An Anthropic input_json_delta does
\* not track the call, its content_block_start does.
UpToolCall(t, ok) ==
    LET first == t \notin up.begun
        u == IF cfg.dialect = "anthropic" /\ ~first THEN up ELSE TrackTool(t)
    IN  Put([u EXCEPT !.begun = @ \cup {t}], <<Fragment(t, first, ok)>>)

\* content_block_stop, response.function_call_arguments.done.
UpToolStop(t) ==
    /\ cfg.dialect # "openai" /\ t \in up.begun
    /\ IF Contains(up.open, t)
       THEN Put([up EXCEPT !.open = RemoveFirst(@, t), !.closed = @ \cup {t}], <<DoneOf(t)>>)
       ELSE Put(up, <<>>)

UpRawItem(type) == cfg.dialect = "responses" /\ Put(up, <<Simple(type)>>)

\* _finish: terminators of the open calls in upstream order, then one finish.
UpFinish ==
    IF up.finished THEN Put(up, <<>>)
    ELSE Put([up EXCEPT !.finished = TRUE, !.open = <<>>, !.closed = @ \cup ToSet(up.open)],
             [i \in DOMAIN up.open |-> DoneOf(up.open[i])] \o <<Simple("finish")>>)

\* The producer task ends with the body or with an exception of the transport.
UpStops ==
    /\ Feeding /\ up.live
    /\ up' = [up EXCEPT !.live = FALSE]
    /\ \E k \in {"upstream_end", "upstream_error"} : queue' = Append(queue, Simple(k))
    /\ UNCHANGED <<cfg, produced, timer, watch, cons, log, shown, faults>>

(***************************************************************************)
(* The monitor and the cancel watcher                                      *)
(***************************************************************************)
\* Mutant: no limit is looked at before the first chunk.
DueLate == IF produced THEN {"total", "read_idle"} ELSE {}

Due == {"total"} \cup (IF produced THEN {"read_idle"} ELSE {"first_token"})

MonitorFires ==
    /\ Feeding /\ timer = "on"
    /\ \E r \in Due : queue' = Append(queue, Simple(r))
    /\ timer' = "off"
    /\ UNCHANGED <<cfg, up, produced, watch, cons, log, shown, faults>>

\* client_cancelled is set; the upstream is closed, which it may survive.
WatchCancel ==
    /\ Feeding /\ watch = "on"
    /\ watch' = "off"
    /\ queue' = Append(queue, Simple("client_cancel"))
    /\ UNCHANGED <<cfg, up, produced, timer, cons, log, shown, faults>>

(***************************************************************************)
(* Chunks: the events one chunk leads to                                   *)
(***************************************************************************)
EmptyReasoning ==
    /\ cfg.wantsReasoning /\ ~cons.reasoned /\ cons.reason = NoIdx
    /\ \A t \in Tools : cons.acc[t].idx = NoIdx

\* _close_reasoning and _ensure_reasoning_lifecycle.
BeforeMessage ==
    IF cons.reason # NoIdx THEN <<DoTool("reasonClose", NoIdx, "completed")>>
    ELSE IF EmptyReasoning
    THEN <<Do("reasonOpen"), Do("reasonEmpty"), DoTool("reasonClose", NoIdx, "completed")>>
    ELSE <<>>

TextOps == (IF cons.msg = NoIdx THEN BeforeMessage \o <<Do("msgOpen")>> ELSE <<>>) \o <<Do("msgDelta")>>
ReasonOps == (IF cons.reason = NoIdx THEN <<Do("reasonOpen")>> ELSE <<>>) \o <<Do("reasonDelta")>>
ToolOps(t) == (IF cons.acc[t].added THEN <<>> ELSE <<DoTool("toolOpen", t, "none")>>) \o <<DoTool("toolDelta", t, "none")>>

SpecialItem == <<Do("itemOpen"), Do("itemClose")>>

\* _finalize_special_call: the call, and the outputs the relay adds to it (the
\* namespaces it knows, the sub-agent's result, or the refusal of an empty call).
SpecialOps == {SpecialItem, SpecialItem \o SpecialItem}

FinalOps(t) ==
    IF cons.acc[t].valid
    THEN <<DoTool("argsDone", t, "none"), DoTool("toolClose", t, "completed")>>
    ELSE <<DoTool("toolClose", t, "incomplete")>>

\* ToolCallCollection.ensure: a new accumulator takes the next output index.
Ensured(t, ok) ==
    LET a == cons.acc[t]
    IN  [cons EXCEPT !.acc[t] = [a EXCEPT !.idx = IF @ = NoIdx THEN cons.out ELSE @, !.valid = ok,
                                          !.stray = t \in cfg.special],
                     !.out = IF a.idx = NoIdx THEN @ + 1 ELSE @]

Take(c, ops) ==
    /\ cons' = [c EXCEPT !.todo = ops]
    /\ queue' = Tail(queue)
    /\ UNCHANGED <<cfg, up, produced, timer, watch, log, shown, faults>>

Ready(type) == Between /\ queue # <<>> /\ Head(queue).type = type

TakeText == Ready("text") /\ Take(cons, TextOps)
TakeReasoning == Ready("reasoning") /\ Take(cons, ReasonOps)

\* _special_kind looks at the name alone, which comes with the first fragment.
SpecialKind(h) == h.named /\ h.tool \in cfg.special

\* A fragment with a special name is kept for _finalize_special_call; the
\* fragments after it go to an accumulator.
TakeToolCall ==
    /\ Ready("tool_call")
    /\ LET h == Head(queue)
       IN  IF SpecialKind(h)
           THEN Take([cons EXCEPT !.special = @ \cup {h.tool}], <<>>)
           ELSE Take(Ensured(h.tool, h.ok), ToolOps(h.tool))

TakeToolDone ==
    /\ Ready("tool_call_done")
    /\ LET t == Head(queue).tool
       IN  \/ /\ t \in cons.special
              /\ \E ops \in SpecialOps : Take([cons EXCEPT !.special = @ \ {t}], ops)
           \/ /\ t \notin cons.special
              /\ Take([cons EXCEPT !.acc[t].final = TRUE, !.acc[t].argsDone = cons.acc[t].valid,
                                   !.invalid = @ \/ ~cons.acc[t].valid], FinalOps(t))

\* raw_output_item: a new output index for the added event and for the done event.
TakeRaw ==
    \/ Ready("raw_added") /\ Take(cons, <<Do("rawOpen")>>)
    \/ Ready("raw_done") /\ Take(cons, <<Do("rawClose")>>)

TakeFinish == Ready("finish") /\ Take([cons EXCEPT !.finish = TRUE], <<>>)

(***************************************************************************)
(* The end of the stream                                                   *)
(***************************************************************************)
\* ToolCallCollection.incomplete (no name, or no valid final arguments), of the
\* calls that were added and not done.
OpenCalls(c) ==
    SetToSeq({t \in Tools : /\ c.acc[t].added /\ ~c.acc[t].done
                            /\ c.acc[t].stray \/ ~c.acc[t].argsDone})

\* Mutant: only the message and the reasoning item are closed.
CloseTextItems(c, s) ==
    (IF c.reason # NoIdx THEN <<DoTool("reasonClose", NoIdx, s)>> ELSE <<>>)
    \o (IF c.msg # NoIdx THEN <<DoTool("msgClose", NoIdx, s)>> ELSE <<>>)

\* _close_open_items.
CloseOpenItems(c, s) ==
    (IF c.reason # NoIdx THEN <<DoTool("reasonClose", NoIdx, s)>> ELSE <<>>)
    \o (IF c.msg # NoIdx THEN <<DoTool("msgClose", NoIdx, s)>> ELSE <<>>)
    \o [i \in DOMAIN OpenCalls(c) |-> DoTool("toolClose", OpenCalls(c)[i], s)]
    \o [i \in DOMAIN c.raw |-> DoTool("rawEnd", c.raw[i], "incomplete")]

\* Mutant: compatibility mode turns every end into a completion.
StatusLax(c, why) ==
    IF why = "internal" THEN "failed"
    ELSE IF why = "none" \/ ~cfg.strict THEN "completed"
    ELSE IF why \in Timeouts THEN "incomplete" ELSE "failed"

\* An internal error fails the response; arguments that were declared final and
\* do not parse are never whitewashed; otherwise the mode decides.
Status(c, why) ==
    IF why = "internal" THEN "failed"
    ELSE IF why = "none" /\ ~c.invalid THEN "completed"
    ELSE IF ~cfg.strict /\ ~c.invalid THEN "completed"
    ELSE IF why \in Timeouts THEN "incomplete" ELSE "failed"

\* Mutant: terminal_reason is not kept.
CloseSilent(c, why) ==
    LET s == IF why = "none" /\ ~c.invalid THEN "completed" ELSE "incomplete"
    IN  [c EXCEPT !.pc = "closing", !.todo = CloseOpenItems(c, s) \o <<DoTool("end", NoIdx, Status(c, why))>>]

\* _terminal_frames, _completed_frames, _internal_failed_frames.
Close(c, why) ==
    LET reason == IF why = "none" /\ c.invalid THEN "invalid_args" ELSE why
        s == IF reason = "none" THEN "completed" ELSE "incomplete"
    IN  [c EXCEPT !.pc = "closing", !.why = reason,
                  !.todo = CloseOpenItems(c, s) \o <<DoTool("end", NoIdx, Status(c, why))>>]

\* The end of the body is a completion only after the upstream's own finish.
EndReason == IF cons.finish THEN "none" ELSE IF produced THEN "truncated" ELSE "connect"

\* The producers are cancelled and the upstream is closed.
Shut(u) == [u EXCEPT !.live = FALSE, !.left = 0, !.open = <<>>, !.closed = {}, !.begun = {}]

Stop ==
    /\ Between /\ queue # <<>>
    /\ LET k == Head(queue).type
       IN  \/ k \in Timeouts /\ cons' = Close(cons, k)
           \/ k = "upstream_error" /\ cons' = Close(cons, IF produced THEN "truncated" ELSE "connect")
           \/ k = "upstream_end" /\ cons' = Close(cons, EndReason)
           \/ k = "client_cancel" /\ cons' = Close(cons, "none")
    /\ queue' = <<>> /\ up' = Shut(up) /\ timer' = "off"
    /\ UNCHANGED <<cfg, produced, watch, log, shown, faults>>

(***************************************************************************)
(* _emit: the log first, then the client, once the chunk is translated     *)
(***************************************************************************)
\* The fields set before the event is appended.
Before(c, o) ==
    CASE o.op = "reasonOpen" -> [c EXCEPT !.reason = c.out, !.out = @ + 1]
      [] o.op = "msgOpen"    -> [c EXCEPT !.msg = c.out, !.out = @ + 1]
      [] o.op \in {"rawOpen", "rawClose", "itemOpen"} -> [c EXCEPT !.out = @ + 1]
      [] OTHER -> c

\* The fields set after it.
After(c, o) ==
    CASE o.op = "reasonDelta" -> [c EXCEPT !.reasoned = TRUE]
      [] o.op = "reasonClose" -> [c EXCEPT !.reason = NoIdx]
      [] o.op = "msgClose"    -> [c EXCEPT !.msg = NoIdx]
      [] o.op = "toolOpen"    -> [c EXCEPT !.acc[o.tool].added = TRUE]
      [] o.op = "toolClose"   -> [c EXCEPT !.acc[o.tool].done = TRUE]
      [] o.op = "rawOpen"     -> [c EXCEPT !.raw = Append(@, c.out - 1)]
      [] o.op = "rawEnd"      -> [c EXCEPT !.raw = RemoveFirst(@, o.tool)]
      [] OTHER -> c

Event(o) ==
    CASE o.op = "created" -> "created"
      [] o.op \in {"reasonOpen", "msgOpen", "toolOpen", "rawOpen", "itemOpen"} -> "added"
      [] o.op \in {"reasonDelta", "reasonEmpty", "msgDelta", "toolDelta"} -> "delta"
      [] o.op = "argsDone" -> "args_done"
      [] o.op = "end" -> o.st
      [] OTHER -> "done"

Kind(o) ==
    CASE o.op \in {"reasonOpen", "reasonDelta", "reasonEmpty", "reasonClose"} -> "reasoning"
      [] o.op \in {"msgOpen", "msgDelta", "msgClose"} -> "message"
      [] o.op \in {"toolOpen", "toolDelta", "argsDone", "toolClose"} -> "function_call"
      [] o.op \in {"rawOpen", "rawClose", "rawEnd"} -> "raw"
      [] o.op \in {"itemOpen", "itemClose"} -> "special"
      [] OTHER -> "response"

Index(c, o) ==
    CASE Kind(o) = "reasoning" -> c.reason
      [] Kind(o) = "message" -> c.msg
      [] Kind(o) = "function_call" -> c.acc[o.tool].idx
      [] o.op = "rawEnd" -> o.tool
      [] Kind(o) = "response" -> NoIdx
      [] OTHER -> c.out - 1

FrameOf(c, o) ==
    [ev |-> Event(o), idx |-> Index(c, o), kind |-> Kind(o),
     st |-> IF Event(o) # "done" THEN "none" ELSE IF o.st = "none" THEN "completed" ELSE o.st]

\* The next event of todo is appended.  The frames of a chunk, and those of the
\* end, are yielded when the last of them is in the log.
Emit ==
    /\ cons.todo # <<>>
    /\ LET o == Head(cons.todo)
           c == Before(cons, o)
           last == Tail(cons.todo) = <<>>
           frames == cons.frames \cup {Len(log) + 1}
       IN  /\ log' = Append(log, FrameOf(c, o))
           /\ cons' = [After(c, o) EXCEPT !.todo = Tail(@), !.frames = IF last THEN {} ELSE frames,
                                         !.pc = IF last /\ @ = "closing" THEN "ended" ELSE @]
           /\ shown' = IF last THEN shown \cup frames ELSE shown
    /\ UNCHANGED <<cfg, up, produced, queue, timer, watch, faults>>

\* An append fails: the events of this chunk that are in the log already are
\* never yielded.  Inside the consumer's loop the stream is closed as failed;
\* before and after it the exception leaves the generator.
EmitFails ==
    /\ cons.todo # <<>> /\ faults < MaxFaults
    /\ faults' = faults + 1
    /\ LET c == [Before(cons, Head(cons.todo)) EXCEPT !.frames = {}]
       IN  cons' = IF cons.pc = "run" /\ log # <<>> THEN Close(c, "internal")
                   ELSE [c EXCEPT !.pc = "raised", !.todo = <<>>]
    /\ queue' = <<>> /\ up' = Shut(up) /\ timer' = "off"
    /\ UNCHANGED <<cfg, produced, watch, log, shown>>

\* The handler closes the generator at a yield: no terminal event.
Aclose ==
    /\ Between /\ shown # {}
    /\ cons' = [cons EXCEPT !.pc = "gone"]
    /\ queue' = <<>> /\ up' = Shut(up) /\ timer' = "off"
    /\ UNCHANGED <<cfg, produced, watch, log, shown, faults>>

(***************************************************************************)
(* The specification                                                       *)
(***************************************************************************)
Upstream ==
    \/ UpText \/ UpReasoning \/ UpFinish \/ UpStops
    \/ \E t \in Tools : UpToolStop(t) \/ \E ok \in BOOLEAN : UpToolCall(t, ok)
    \/ \E type \in {"raw_added", "raw_done"} : UpRawItem(type)

Consumer == TakeText \/ TakeReasoning \/ TakeToolCall \/ TakeToolDone \/ TakeRaw \/ TakeFinish \/ Stop \/ Emit

Next == Upstream \/ MonitorFires \/ WatchCancel \/ Consumer \/ EmitFails \/ Aclose

Spec == Init /\ [][Next]_vars

\* The event loop runs the consumer, and the monitor's sleep ends.  Nothing is
\* assumed of the upstream.
FairSpec == Spec /\ WF_vars(Consumer) /\ WF_vars(MonitorFires)

(***************************************************************************)
(* Properties                                                              *)
(***************************************************************************)
Same(i, j) == log[i].idx = log[j].idx
At(ev) == {i \in DOMAIN log : log[i].ev = ev /\ log[i].kind # "raw"}

AddedFirst ==
    \A i \in At("delta") \cup At("args_done") \cup At("done") : \E j \in At("added") : j < i /\ Same(i, j)

EachOnce == \A ev \in {"added", "done"} : \A i, j \in At(ev) : Same(i, j) => i = j

ReasoningFirst ==
    \A i, j \in At("added") :
        j < i /\ log[i].kind = "message" /\ log[j].kind = "reasoning" => \E k \in At("done") : k < i /\ Same(k, j)

NothingOpen ==
    \A i \in DOMAIN log : log[i].ev = "added" => \E k \in DOMAIN log : k > i /\ log[k].ev = "done" /\ Same(k, i)

\* The item rule of the Responses stream (translate_chunk, _close_open_items):
\* an item is added once, before its first delta, and done at most once, and a
\* message begins when no reasoning item is open; native items are exempt, they
\* get a second index.  No added item stays open in a stream that got its
\* terminal event, whatever cut it off: a timeout, the transport, the client, or
\* nothing.  Not so in a stream whose log failed.
ItemLifecycle ==
    faults = 0 => AddedFirst /\ EachOnce /\ ReasoningFirst /\ (cons.pc = "ended" => NothingOpen)

\* U1: a response with a tool call whose arguments were declared final and do
\* not parse is never reported completed, in neither mode; a failing log is
\* reported as failed.  In strict mode a stream that was cut or timed out is not
\* reported completed either; the compatibility mode may do so.  And
\* terminal_reason, which both modes keep, tells what happened: a response that
\* timed out on its first token, or whose upstream never connected, has no output;
\* one without a reason had the upstream's finish.  The exception is a client that
\* cancelled: what it left is completed without a reason, whatever was missing.
NoWhitewash ==
    cons.pc = "ended" =>
        /\ (\E t \in Tools : cons.acc[t].final /\ ~cons.acc[t].argsDone) => Last(log).ev # "completed"
        /\ faults > 0 => Last(log).ev = "failed"
        /\ cfg.strict /\ cons.why # "none" => Last(log).ev # "completed"
        /\ cons.why \in {"first_token", "connect"} => \A i \in DOMAIN log : log[i].ev # "added"
        /\ cons.why = "none" => cons.finish \/ watch = "off"

\* What the consumer's loop says of a client that cancels: no terminal event.
\* watch is off once the watcher has put its client_cancel, which then is the stop
\* the stream ends with unless an append fails before it is read.  The code does not
\* keep to it: run() goes on to the frames of a completed response.
CancelledHasNoTerminal ==
    watch = "off" /\ faults = 0 => \A i \in DOMAIN log : log[i].ev \notin {"completed", "incomplete", "failed"}

\* Every stream ends, also when the upstream falls silent.
EveryStreamEnds == <>(cons.pc \in {"ended", "raised", "gone"})

(***************************************************************************)
(* What the handler relies on                                              *)
(***************************************************************************)
\* _v3_frame_has_content: the events that commit the 200.
HasContent(f) ==
    \/ f.ev = "added" /\ f.kind # "message"
    \/ f.ev = "delta" /\ f.kind \in {"message", "function_call"}

Stream == INSTANCE ResponseStream WITH
    phase   <- IF cons.pc \in {"ended", "raised", "gone"} THEN cons.pc ELSE "open",
    content <- \E i \in shown : HasContent(log[i]),
    status  <- IF cons.pc = "ended" THEN Last(log).ev ELSE "none",
    reason  <- cons.pc = "ended" /\ cons.why # "none"

\* The pipeline of one attempt is a response stream as the handler takes it.
ImplementsStream == Stream!Spec
===============================================================================
