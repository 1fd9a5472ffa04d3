------------------------------ MODULE TurnBridge ------------------------------
(***************************************************************************)
(* ResponsesTurnBridge: a Chat Completions stream turned into the events   *)
(* of a Responses stream, with the TurnAccumulator that holds the items    *)
(* and the ResponsesEventEmitter that writes, or refuses, each event.      *)
(***************************************************************************)
EXTENDS Integers, Sequences, FiniteSets

CONSTANTS
    Calls,         \* bound: tool calls of a turn, by the upstream's index
    MaxChunks      \* bound: chunks of the upstream

VARIABLES
    items,       \* the accumulators, by output index - 1: [kind, call, args, state]
    emitter,     \* "init", "live" or the terminal status
    finished,    \* _finished
    fed,         \* the chunks so far
    sent         \* the events sent so far

bridgevars == <<items, emitter, finished, fed, sent>>

\* A chunk with a choice: reasoning, content ("opens" and "closes" carry the marks
\* some providers put around thoughts), a delta of one tool call (0: none) with a
\* fragment of its arguments, a finish_reason.
Chunk(reasoning, content, call, args, finish) ==
    [reasoning |-> reasoning, content |-> content, call |-> call, args |-> args, finish |-> finish]
Finishes == {"none", "stop", "length"}
Chunks ==
    {Chunk(r, t, 0, "none", f) : r \in BOOLEAN, t \in {"none", "text"}, f \in Finishes}
      \cup {Chunk(FALSE, t, 0, "none", f) : t \in {"opens", "closes"}, f \in Finishes}
      \cup {Chunk(FALSE, "none", c, a, f) : c \in Calls, a \in {"none", "part", "rest"}, f \in Finishes}
      \cup {Chunk(FALSE, "text", c, "rest", "none") : c \in Calls}

Init == items = <<>> /\ emitter = "init" /\ finished = FALSE /\ fed = <<>> /\ sent = <<>>

\* The end of an empty body.
AtRest ==
    /\ items = <<>> /\ emitter = "completed" /\ finished = TRUE /\ fed = <<>>
    /\ sent = <<<<"created">>, <<"in_progress">>, <<"terminal", "completed">>>>

---------------------------------------------------------------------------
(* The emitter, on a record [items, emitter, out] threaded through a chunk *)

Now == [items |-> items, emitter |-> emitter, out |-> <<>>]
Write(m, ev) == [m EXCEPT !.out = Append(@, ev)]

\* start.
Started(m) ==
    IF m.emitter # "init" THEN m
    ELSE [m EXCEPT !.emitter = "live", !.out = @ \o <<<<"created">>, <<"in_progress">>>>]

\* delta: refused once the response is over.
Delta(m, what, i) == IF m.emitter = "live" THEN Write(m, <<what, i>>) ELSE m

\* open_item, for an item just allocated: not refused.
OpenItem(m, kind, call) ==
    [Write(m, <<"added", Len(m.items)>>)
        EXCEPT !.items = Append(@, [kind |-> kind, call |-> call, args |-> "none", state |-> "open"])]

\* close_item: once.
CloseItem(m, i, status) ==
    IF m.items[i + 1].state = "done" THEN m
    ELSE [Write(m, <<"done", i, status>>) EXCEPT !.items[i + 1].state = "done"]

\* terminate: once; what is still open is closed as incomplete first.
Terminate(m, status) ==
    IF m.emitter # "live" THEN m
    ELSE LET left == SelectSeq([n \in 1..Len(m.items) |-> n - 1], LAMBDA i : m.items[i + 1].state = "open")
         IN  [items |-> [n \in DOMAIN m.items |-> [m.items[n] EXCEPT !.state = "done"]],
              emitter |-> status,
              out |-> m.out \o [n \in 1..Len(left) |-> <<"done", left[n], "incomplete">>] \o <<<<"terminal", status>>>>]

---------------------------------------------------------------------------
(* The bridge *)

IndexOf(m, kind, call) == {i \in 0..(Len(m.items) - 1) : m.items[i + 1].kind = kind /\ m.items[i + 1].call = call}
The(set) == CHOOSE i \in set : TRUE

\* _open_reasoning: one reasoning item in a turn.
OpenReasoning(m) ==
    IF IndexOf(m, "reasoning", 0) # {} THEN m ELSE Delta(OpenItem(m, "reasoning", 0), "delta", Len(m.items))

\* _emit_reasoning_delta.
Thought(m) ==
    LET had == IndexOf(m, "reasoning", 0) IN IF had = {} THEN m ELSE Delta(m, "delta", The(had))

\* The turn's message, opened by its first text.
WithText(m) ==
    LET had == IndexOf(m, "message", 0)
        m1 == IF had # {} THEN m ELSE Delta(OpenItem(m, "message", 0), "delta", Len(m.items))
    IN  Delta(m1, "delta", The(IndexOf(m1, "message", 0)))

\* _close_message, _close_reasoning: the text's done events, then the item's; once.
CloseText(m, i, status) ==
    IF m.items[i + 1].state = "done" THEN m
    ELSE CloseItem(Delta(m, "delta", i), i, status)

\* _handle_content: the marks of a thought, then the text.
WithContent(m, content) ==
    LET m1 == Thought(m)
        had == IndexOf(m1, "reasoning", 0)
    IN  CASE content = "none"   -> m
          [] content = "text"   -> WithText(m)
          [] content = "opens"  -> WithText(OpenReasoning(m))
          [] content = "closes" -> WithText(IF had = {} THEN m1 ELSE CloseText(m1, The(had), "completed"))

\* _close_current_message.
CloseMessage(m) ==
    LET had == IndexOf(m, "message", 0) IN IF had = {} THEN m ELSE CloseText(m, The(had), "completed")

\* append_arguments: whole is a JSON object, and nothing may follow it.
Appended(args, fragment) ==
    CASE fragment = "none" -> args
      [] fragment = "part" -> "partial"
      [] OTHER -> IF args = "whole" THEN "partial" ELSE "whole"

\* _handle_tool_call.
WithCall(m, call, args) ==
    LET had == IndexOf(m, "function_call", call)
        m1 == IF had # {} THEN m ELSE OpenItem(m, "function_call", call)
        i == The(IndexOf(m1, "function_call", call))
        m2 == [m1 EXCEPT !.items[i + 1].args = Appended(@, args)]
    IN  IF args = "none" THEN m1 ELSE Delta(m2, "delta", i)

\* Mutant: a call is closed as the turn ended.
CloseCallTrusting(m, i, status) ==
    IF m.items[i + 1].state = "done" THEN m ELSE CloseItem(Delta(m, "arguments_done", i), i, status)

\* _close_tool_call: only whole arguments are announced as done.
CloseCall(m, i, status) ==
    IF m.items[i + 1].state = "done" THEN m
    ELSE IF m.items[i + 1].args = "whole" THEN CloseItem(Delta(m, "arguments_done", i), i, status)
    ELSE CloseItem(m, i, "incomplete")

\* _close_all: messages, the reasoning, the calls in their order.
CloseAll(m, status) ==
    LET close[k \in 0..(3 * Len(m.items))] ==
          IF k = 0 THEN m
          ELSE LET i == (k - 1) % Len(m.items)
                   turn == <<"message", "reasoning", "function_call">>[((k - 1) \div Len(m.items)) + 1]
               IN  IF m.items[i + 1].kind # turn THEN close[k - 1]
                   ELSE IF turn = "function_call" THEN CloseCall(close[k - 1], i, status)
                   ELSE CloseText(close[k - 1], i, status)
    IN  close[3 * Len(m.items)]

\* _process; "length" is the one finish_reason that is no completion.
Processed(c) ==
    LET m0 == Started(Now)
        m1 == IF c.reasoning THEN Thought(OpenReasoning(m0)) ELSE m0
        m2 == WithContent(m1, c.content)
        m3 == IF c.call # 0 THEN WithCall(CloseMessage(m2), c.call, c.args) ELSE m2
        status == IF c.finish = "length" THEN "incomplete" ELSE "completed"
    IN  IF c.finish = "none" THEN m3 ELSE Terminate(CloseAll(m3, status), status)

Become(m) ==
    /\ items' = m.items /\ emitter' = m.emitter
    /\ sent' = sent \o m.out

---------------------------------------------------------------------------

\* feed, one chunk at a time; [DONE], usage and what is no JSON pass unnoticed.
Feed(c) ==
    /\ ~finished
    /\ Len(fed) < MaxChunks
    /\ Become(Processed(c))
    /\ fed' = Append(fed, c)
    /\ UNCHANGED finished

\* finish_safely, when the body of the upstream is over, whatever its last word was.
Finish ==
    /\ ~finished
    /\ Become(Terminate(CloseAll(Started(Now), "completed"), "completed"))
    /\ finished' = TRUE
    /\ UNCHANGED fed

Next == Finish \/ \E c \in Chunks : Feed(c)

Spec == Init /\ [][Next]_bridgevars

---------------------------------------------------------------------------
(* Properties *)

\* A turn as an OpenAI upstream sends it: no text after a tool call, no thought
\* after the mark that ends them, nothing after the finish_reason.
Ordinary ==
    \A i, j \in 1..Len(fed) : i < j =>
       /\ fed[i].call # 0 => fed[j].content = "none"
       /\ fed[i].content = "closes" => ~fed[j].reasoning /\ fed[j].content # "closes"
       /\ fed[i].finish = "none"

Events(what, i) == {p \in 1..Len(sent) : sent[p][1] = what /\ sent[p][2] = i}

\* Of an ordinary turn, however its items interleave, the client gets a well-formed
\* stream: items numbered without a gap, each opened, filled and closed in this
\* order; no call with cut arguments is announced as runnable; the one terminal event
\* comes last, when everything is closed, and a turn cut by its length is never
\* completed.
ResponsesWellFormed ==
    Ordinary =>
       /\ \A i \in 0..(Len(items) - 1) :
             /\ Cardinality(Events("added", i)) = 1 /\ Cardinality(Events("done", i)) <= 1
             /\ \A p \in Events("delta", i) \cup Events("arguments_done", i) :
                   /\ \A a \in Events("added", i) : a < p
                   /\ \A d \in Events("done", i) : p < d
       /\ \A p \in 1..Len(sent) :
             LET e == sent[p] IN
             /\ e[1] = "added" => e[2] = Cardinality({q \in 1..(p - 1) : sent[q][1] = "added"})
             /\ e[1] = "terminal" => p = Len(sent) /\ \A n \in DOMAIN items : items[n].state = "done"
             /\ e[1] = "done" /\ e[3] = "completed" /\ items[e[2] + 1].kind = "function_call" =>
                   items[e[2] + 1].args = "whole" /\ Events("arguments_done", e[2]) # {}
       /\ finished => emitter \in {"completed", "incomplete"}
       /\ (\E n \in 1..Len(fed) : fed[n].finish = "length") => emitter = "incomplete"
=============================================================================
