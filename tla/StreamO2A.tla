------------------------------ MODULE StreamO2A ------------------------------
(***************************************************************************)
(* StreamO2A: an OpenAI stream translated into an Anthropic one, event by  *)
(* event.  What was fed and what was emitted are kept as histories.        *)
(***************************************************************************)
EXTENDS Integers, Sequences, FiniteSets

CONSTANTS
    Tools,         \* bound: tool calls of a stream, by their OpenAI index 1..Tools
    MaxEvents      \* bound: events of the upstream

VARIABLES
    state,      \* INIT, STARTED, TEXT_BLOCK, TOOL_BLOCK or DONE
    current,    \* _current_index
    next,       \* _next_block_index
    blocks,     \* _tool_index_map, -1 when the tool call is new
    finished,   \* _finished
    fed,        \* the events handled so far
    sent,       \* the events emitted so far
    body        \* the HTTP body: "open", or "chunk" while one chunk is being fed, or "ended"

o2avars == <<state, current, next, blocks, finished, fed, sent, body>>

\* An event of the upstream: a chunk with text, with a delta of one tool call
\* (0: none), with its arguments or not, with a finish_reason or not; or
\* [DONE]; or an error; or one with nothing to translate (usage, not JSON).
Finishes == {"none", "tool_calls"}
Events ==
    [kind : {"chunk"}, text : BOOLEAN, tool : {0}, args : {FALSE}, finish : Finishes]
       \cup [kind : {"chunk"}, text : BOOLEAN, tool : 1..Tools, args : BOOLEAN, finish : Finishes]
       \cup [kind : {"done", "error", "noise"}, text : {FALSE}, tool : {0}, args : {FALSE}, finish : {"none"}]

Init ==
    /\ state = "INIT" /\ current = 0 /\ next = 0
    /\ blocks = [t \in 1..Tools |-> -1]
    /\ finished = FALSE /\ fed = <<>> /\ sent = <<>> /\ body = "open"

\* The end of an empty body.
AtRest ==
    /\ state = "DONE" /\ current = 0 /\ next = 0
    /\ blocks = [t \in 1..Tools |-> -1]
    /\ finished = TRUE /\ fed = <<>> /\ body = "ended"
    /\ sent = <<<<"message_start">>, <<"ping">>, <<"message_delta", "end_turn">>, <<"message_stop">>>>

---------------------------------------------------------------------------
(* One chunk, as a record threaded through the parts of its handling *)

Now == [state |-> state, current |-> current, next |-> next, blocks |-> blocks, finished |-> finished, out |-> <<>>]
Emit(m, evs) == [m EXCEPT !.out = @ \o evs]

\* _emit_message_start: before the first thing that is sent.
Opened(m) ==
    IF m.state # "INIT" THEN m
    ELSE [Emit(m, <<<<"message_start">>, <<"ping">>>>) EXCEPT !.state = "STARTED"]

\* delta.content.  The first text block is block 0; text after a tool call opens
\* a new block and leaves the one of the tool call open.
WithText(m) ==
    IF m.state = "STARTED"
    THEN [Emit(m, <<<<"start", 0>>, <<"delta", 0>>>>) EXCEPT !.state = "TEXT_BLOCK", !.current = 0, !.next = 1]
    ELSE IF m.state = "TEXT_BLOCK" THEN Emit(m, <<<<"delta", 0>>>>)
    ELSE IF m.state = "TOOL_BLOCK"
    THEN [Emit(m, <<<<"start", m.next>>, <<"delta", m.next>>>>)
             EXCEPT !.state = "TEXT_BLOCK", !.current = m.next, !.next = @ + 1]
    ELSE m

\* The block that is open when a new tool call begins.
Before(m) ==
    IF m.state = "TEXT_BLOCK" THEN <<<<"stop", 0>>>>
    ELSE IF m.state = "TOOL_BLOCK" THEN <<<<"stop", m.current>>>> ELSE <<>>

\* _handle_tool_calls.
WithTool(m, t, args) ==
    LET new   == m.blocks[t] = -1
        block == IF new THEN m.next ELSE m.blocks[t]
        delta == IF args THEN <<<<"delta", block>>>> ELSE <<>>
    IN  IF ~new THEN Emit(m, delta)
        ELSE [Emit(m, Before(m) \o <<<<"start", block>>>> \o delta)
                 EXCEPT !.state = "TOOL_BLOCK", !.current = block, !.next = @ + 1, !.blocks[t] = block]

\* Mutant: the finish_reason of the chunk is not looked up.
StopReasonForgotten(finish) == "end_turn"

\* MAP_FINISH_REASON_O2A; no finish_reason reads as the end of the turn.
StopReason(finish) == IF finish = "tool_calls" THEN "tool_use" ELSE "end_turn"

Open(m) == m.state \in {"TEXT_BLOCK", "TOOL_BLOCK"}

\* Mutant: the block that is still open is not closed.
ClosingLeavesOpen(m, mid, reason) ==
    [Emit(m, mid \o <<<<"message_delta", reason>>, <<"message_stop">>>>) EXCEPT !.state = "DONE", !.finished = TRUE]

\* What _finish and _finish_with_error share: the open block, then the end.
Closing(m, mid, reason) ==
    [Emit(m, (IF Open(m) THEN <<<<"stop", m.current>>>> ELSE <<>>)
             \o mid \o <<<<"message_delta", reason>>, <<"message_stop">>>>)
        EXCEPT !.state = "DONE", !.finished = TRUE]

Finish(m, finish) == IF m.finished THEN m ELSE Closing(Opened(m), <<>>, StopReason(finish))
FinishWithError(m) == IF m.finished THEN m ELSE Closing(Opened(m), <<<<"error">>>>, "error")

\* _handle_openai_chunk.
Handled(e) ==
    LET m1 == Opened(Now)
        m2 == IF e.text THEN WithText(m1) ELSE m1
        m3 == IF e.tool # 0 THEN WithTool(m2, e.tool, e.args) ELSE m2
    IN  CASE e.kind = "done"  -> Finish(Now, "none")
          [] e.kind = "error" -> FinishWithError(Now)
          [] e.kind = "noise" -> Now
          [] OTHER            -> IF e.finish # "none" THEN Finish(m3, e.finish) ELSE m3

Become(m) ==
    /\ state' = m.state /\ current' = m.current /\ next' = m.next
    /\ blocks' = m.blocks /\ finished' = m.finished
    /\ sent' = sent \o m.out

---------------------------------------------------------------------------

\* feed: a chunk of the body begins; nothing of it is read when the stream is finished.
Feed ==
    /\ body = "open" /\ ~finished
    /\ body' = "chunk"
    /\ UNCHANGED <<state, current, next, blocks, finished, fed, sent>>

\* One event of the chunk: a finished stream does not stop the rest of its chunk.
Event(e) ==
    /\ body = "chunk"
    /\ Len(fed) < MaxEvents
    /\ Become(Handled(e))
    /\ fed' = Append(fed, e)
    /\ UNCHANGED body

EndOfChunk ==
    /\ body = "chunk"
    /\ body' = "open"
    /\ UNCHANGED <<state, current, next, blocks, finished, fed, sent>>

\* finish_safely, when the body is over.
EndOfBody ==
    /\ body = "open"
    /\ Become(Finish(Now, "none"))
    /\ body' = "ended"
    /\ UNCHANGED fed

Next == Feed \/ EndOfChunk \/ EndOfBody \/ \E e \in Events : Event(e)

Spec == Init /\ [][Next]_o2avars

---------------------------------------------------------------------------
(* Properties *)

\* An event with the upstream's word on how the message ends, and the Anthropic
\* stop reason of that word.
Ends(e) == e.finish # "none" \/ e.kind \in {"done", "error"}
ReasonOf(e) ==
    IF e.kind = "error" THEN "error" ELSE IF e.finish = "tool_calls" THEN "tool_use" ELSE "end_turn"

\* reason is that of the first such word of a stream, end_turn where it has none.
FirstWord(in, reason) ==
    \/ \E i \in 1..Len(in) : Ends(in[i]) /\ (\A j \in 1..(i - 1) : ~Ends(in[j])) /\ reason = ReasonOf(in[i])
    \/ (\A i \in 1..Len(in) : ~Ends(in[i])) /\ reason = "end_turn"

\* The stream an OpenAI upstream sends: text before tool calls, one tool call
\* after the other, nothing to translate after the end.
Ordinary(in) ==
    \A i, j \in 1..Len(in) : i < j =>
       /\ in[i].tool # 0 => ~in[j].text
       /\ in[i].tool # 0 /\ in[j].tool # 0 => in[i].tool <= in[j].tool
       /\ Ends(in[i]) => in[j].kind \in {"done", "noise"}

Count(what, n) == Cardinality({p \in 1..n : sent[p][1] = what})

\* Of an ordinary stream the client gets a well-formed Anthropic message, at any
\* time: one message_start, first; blocks numbered from 0, one open at a time and
\* deltas only to the open one; nothing open at message_delta; message_stop once,
\* last, right behind a message_delta with the stop reason of the upstream's first
\* word on it: an error is never an end_turn, nor is a turn that calls a tool.
AnthropicWellFormed ==
    Ordinary(fed) =>
       /\ \A p \in 1..Len(sent) :
             LET what == sent[p][1]
                 starts == Count("start", p - 1)
                 stops == Count("stop", p - 1)
             IN  /\ (what = "message_start") = (p = 1)
                 /\ what = "start" => sent[p][2] = starts /\ stops = starts
                 /\ what \in {"delta", "stop"} => sent[p][2] = starts - 1 /\ stops = starts - 1
                 /\ what = "message_delta" => stops = starts
                 /\ what = "message_stop" => p = Len(sent) /\ sent[p - 1][1] = "message_delta"
       /\ finished <=> Count("message_stop", Len(sent)) = 1
       /\ Count("error", Len(sent)) = 1 <=> \E p \in 1..Len(sent) : sent[p] = <<"message_delta", "error">>
       /\ finished => FirstWord(fed, sent[Len(sent) - 1][2])
       /\ body = "ended" => finished
=============================================================================
