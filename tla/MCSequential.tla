----------------------------- MODULE MCSequential -----------------------------
(***************************************************************************)
(* The parts of the proxy in which one task works on its own state: the SSE  *)
(* parser, the turn bridge, the walk of a conversation and one attempt of a  *)
(* job.  A behaviour exercises one of them while the others are at rest.     *)
(***************************************************************************)
EXTENDS Integers, Sequences

CONSTANTS
    MaxInput, MaxEventBytes,
    Ids, Turns, DepthCap, ItemsCap, TokensCap, Calls, MaxTurnChunks,
    Indexes, MaxRepeats, MaxCalls, MaxBackground, MaxTokens, MaxRounds, MaxChunks, MaxFaults

VARIABLES
    input, read, buf, block, bom, frames, flushed,
    row, deleted, pc, visiting, raw, visited, buckets, answer,
    turnItems, turnEmitter, turnFinished, turnFed, turnSent,
    run, ledger, log, todo, jobPhase, outcome, emitter, items, stored, chunks, faults

Sse == INSTANCE SseParser
Walk == INSTANCE Chain WITH current <- visiting
Bridge == INSTANCE TurnBridge WITH MaxChunks <- MaxTurnChunks, items <- turnItems, emitter <- turnEmitter,
             finished <- turnFinished, fed <- turnFed, sent <- turnSent
Job == INSTANCE JobStream WITH phase <- jobPhase

sse == <<input, read, buf, block, bom, frames, flushed>>
walk == <<row, deleted, pc, visiting, raw, visited, buckets, answer>>
bridge == <<turnItems, turnEmitter, turnFinished, turnFed, turnSent>>
job == <<run, ledger, log, todo, jobPhase, outcome, emitter, items, stored, chunks, faults>>

\* Turns of a conversation: short, long, with reasoning, with more than the budget,
\* with an input saved in full, in part or not at all.  The fourth one is cut short
\* behind a child of two items: its reasoning item uses up the limit.
Past(in, saved, out, inrow) == [input |-> in, saved |-> saved, output |-> out, inrow |-> inrow]
SomeTurns ==
    {Past(<<"long">>, 1, <<"m">>, TRUE), Past(<<"m">>, 0, <<"m">>, FALSE),
     Past(<<"m", "m", "m", "m", "m">>, 5, <<>>, TRUE), Past(<<"reasoning", "m", "m", "m">>, 4, <<>>, TRUE),
     Past(<<"m", "m", "m">>, 2, <<"m">>, FALSE)}

MCInit ==
    \/ Sse!Init /\ Walk!AtRest /\ Bridge!AtRest /\ Job!AtRest
    \/ Sse!AtRest /\ Walk!Init /\ Bridge!AtRest /\ Job!AtRest
    \/ Sse!AtRest /\ Walk!AtRest /\ Bridge!Init /\ Job!AtRest
    \/ Sse!AtRest /\ Walk!AtRest /\ Bridge!AtRest /\ Job!Init

MCNext ==
    \/ Sse!Next /\ UNCHANGED <<walk, bridge, job>>
    \/ Walk!Next /\ UNCHANGED <<sse, bridge, job>>
    \/ Bridge!Next /\ UNCHANGED <<sse, walk, job>>
    \/ Job!Next /\ UNCHANGED <<sse, walk, bridge>>

MCSpec == MCInit /\ [][MCNext]_<<sse, walk, bridge, job>>

\* The properties of the parts.
ChunksDoNotMatter == Sse!ChunksDoNotMatter
ContextIsTheConversation == Walk!ContextIsTheConversation
ResponsesWellFormed == Bridge!ResponsesWellFormed

\* What comments of the parts say and the code does not keep to.
NothingIsTruncated == Walk!NothingIsTruncated
StoredCallsAreRunnable == Job!StoredCallsAreRunnable
CutItemsAreIncomplete == Job!CutItemsAreIncomplete
===============================================================================
