------------------------------ MODULE StreamA2O ------------------------------
(***************************************************************************)
(* StreamA2O: an Anthropic stream translated into an OpenAI one.           *)
(***************************************************************************)
EXTENDS Integers, Sequences, FiniteSets

CONSTANTS
    Blocks,        \* indices of content blocks the upstream may name
    MaxEvents      \* bound: events of the upstream

VARIABLES
    phase,      \* state: INIT, TEXT_OPEN or DONE
    tools,      \* _block_to_oai_tool_index, -1 for a block without one
    count,      \* _tool_oai_index
    reason,     \* _stop_reason
    over,       \* _finished
    heard,      \* the events handled so far
    told,       \* the chunks emitted so far; a tool chunk remembers its block
    wire        \* the HTTP body: "open", "chunk" or "ended"

a2ovars == <<phase, tools, count, reason, over, heard, told, wire>>

Plain == {"message_start", "text", "message_delta", "message_stop", "error", "noise"}
Events == {[kind |-> k, block |-> 0] : k \in Plain} \cup [kind : {"tool_use", "input_json"}, block : Blocks]

Init ==
    /\ phase = "INIT" /\ tools = [b \in Blocks |-> -1] /\ count = 0
    /\ reason = "none" /\ over = FALSE /\ heard = <<>> /\ told = <<>> /\ wire = "open"

\* The end of an empty body.
AtRest ==
    /\ phase = "INIT" /\ tools = [b \in Blocks |-> -1] /\ count = 0
    /\ reason = "none" /\ over = TRUE /\ heard = <<>> /\ wire = "ended"
    /\ told = <<<<"finish", "stop">>, <<"[DONE]">>>>

Says(chunks) == told' = told \o chunks
Terminal(finish) == <<<<"finish", finish>>, <<"[DONE]">>>>

---------------------------------------------------------------------------
(* The handlers *)

OnMessageStart ==
    /\ IF phase = "INIT" THEN phase' = "TEXT_OPEN" /\ Says(<<<<"role">>>>) ELSE UNCHANGED <<phase, told>>
    /\ UNCHANGED <<tools, count, reason, over>>

OnText ==
    /\ Says(<<<<"text">>>>)
    /\ UNCHANGED <<phase, tools, count, reason, over>>

\* A tool_use block takes the next tool index, again when it is announced again.
OnToolUse(b) ==
    /\ Says(<<<<"tool", count, b>>>>)
    /\ tools' = [tools EXCEPT ![b] = count]
    /\ count' = count + 1
    /\ UNCHANGED <<phase, reason, over>>

\* Mutant: arguments of an unknown block go to the first tool.
ToolOfZero(b) == IF tools[b] = -1 THEN 0 ELSE tools[b]

\* Arguments of a block that was not announced get a tool index of their own.
ToolOf(b) == IF tools[b] = -1 THEN count ELSE tools[b]

OnInputJson(b) ==
    /\ Says(<<<<"tool", ToolOf(b), b>>>>)
    /\ tools' = [tools EXCEPT ![b] = ToolOf(b)]
    /\ count' = IF ToolOf(b) = count THEN count + 1 ELSE count
    /\ UNCHANGED <<phase, reason, over>>

\* message_delta carries the stop reason; nothing is said yet.
OnMessageDelta ==
    /\ reason' = "tool_use"
    /\ UNCHANGED <<phase, tools, count, over, told>>

\* MAP_STOP_REASON_A2O, with end_turn when no message_delta came.
Mapped == IF reason = "tool_use" THEN "tool_calls" ELSE "stop"

Ends(chunks) == over' = TRUE /\ phase' = "DONE" /\ Says(chunks) /\ UNCHANGED <<tools, count, reason>>
Ignored == UNCHANGED <<phase, tools, count, reason, over, told>>

OnMessageStop == IF over THEN Ignored ELSE Ends(Terminal(Mapped))
FinishWithError == IF over THEN Ignored ELSE Ends(<<<<"text">>>> \o Terminal("stop"))

\* _handle_event; ping, content_block_stop and unknown events do nothing.
Handle(e) ==
    CASE e.kind = "message_start" -> OnMessageStart
      [] e.kind = "text"          -> OnText
      [] e.kind = "tool_use"      -> OnToolUse(e.block)
      [] e.kind = "input_json"    -> OnInputJson(e.block)
      [] e.kind = "message_delta" -> OnMessageDelta
      [] e.kind = "message_stop"  -> OnMessageStop
      [] e.kind = "error"         -> FinishWithError
      [] OTHER                    -> Ignored

---------------------------------------------------------------------------

Feed ==
    /\ wire = "open" /\ ~over
    /\ wire' = "chunk"
    /\ UNCHANGED <<phase, tools, count, reason, over, heard, told>>

Event(e) ==
    /\ wire = "chunk"
    /\ Len(heard) < MaxEvents
    /\ Handle(e)
    /\ heard' = Append(heard, e)
    /\ UNCHANGED wire

EndOfChunk ==
    /\ wire = "chunk"
    /\ wire' = "open"
    /\ UNCHANGED <<phase, tools, count, reason, over, heard, told>>

\* finish_safely: the stop reason is passed on as it came.
EndOfBody ==
    /\ wire = "open"
    /\ wire' = "ended"
    /\ IF over THEN UNCHANGED <<over, told>>
       ELSE over' = TRUE /\ Says(Terminal(IF reason = "none" THEN "stop" ELSE reason))
    /\ UNCHANGED <<phase, tools, count, reason, heard>>

Next == Feed \/ EndOfChunk \/ EndOfBody \/ \E e \in Events : Event(e)

Spec == Init /\ [][Next]_a2ovars

---------------------------------------------------------------------------
(* Properties *)

\* Nothing to translate follows a message_stop or an error; ends may be repeated.
Ordinary ==
    \A i, j \in 1..Len(heard) :
       i < j /\ heard[i].kind \in {"message_stop", "error"}
          => heard[j].kind \in {"message_stop", "error", "message_delta", "message_start", "noise"}

\* Whatever order the upstream names its blocks in, announced or not: the
\* arguments of two blocks never end up in one tool call, and those of a block
\* that was never announced stay in one.  The client of an ordinary stream gets
\* [DONE] exactly once, last.
ToolCallsStayApart ==
    /\ \A p, q \in 1..Len(told) :
          told[p][1] = "tool" /\ told[q][1] = "tool" /\ told[p][2] = told[q][2] => told[p][3] = told[q][3]
    /\ \A b \in Blocks :
          Cardinality({i \in 1..Len(heard) : heard[i] = [kind |-> "tool_use", block |-> b]}) = 0
             => Cardinality({told[p] : p \in {x \in 1..Len(told) : told[x][1] = "tool" /\ told[x][3] = b}}) <= 1
    /\ Ordinary => /\ \A p \in 1..Len(told) : told[p] = <<"[DONE]">> => p = Len(told)
                   /\ over <=> told # <<>> /\ told[Len(told)] = <<"[DONE]">>
                   /\ wire = "ended" => over
=============================================================================
