------------------------------- MODULE MCRelay -------------------------------
(***************************************************************************)
(* Relay and the translators of its streams, each on its own.  Relay has one *)
(* request that streams and one that does not, a key of the model and one of *)
(* its fallback group.  A behaviour exercises one of the three while the     *)
(* other two are at rest.                                                    *)
(***************************************************************************)
EXTENDS Relay

CONSTANTS keyA, keyS, reqA, reqB, ChatTools, MaxChatEvents, Blocks, MaxMessageEvents

VARIABLES
    state, current, next, blocks, finished, fed, sent, body,
    phase, tools, count, reason, over, heard, told, wire

O2A == INSTANCE StreamO2A WITH Tools <- ChatTools, MaxEvents <- MaxChatEvents
A2O == INSTANCE StreamA2O WITH MaxEvents <- MaxMessageEvents

o2avars == <<state, current, next, blocks, finished, fed, sent, body>>
a2ovars == <<phase, tools, count, reason, over, heard, told, wire>>

TwoReqs == {reqA, reqB}
Second  == {reqB}

OneTier == [k \in Keys |-> 1]

\* New keys, invalid keys, and keys that cool for one or two ticks.
AnySaved ==
    {Fresh, [Fresh EXCEPT !.status = "invalid"], [Fresh EXCEPT !.status = "rate_limited", !.cool = 1],
     [Fresh EXCEPT !.status = "error", !.cool = 2]}

\* The steps of 5, 10, 60 and 600 seconds: a degraded request waits for the
\* first two and not for the last two.
Steps == [l \in 0..MaxLevel |-> IF l < 2 THEN 1 ELSE 2]

RelayAtRest ==
    /\ health = [k \in Keys |-> Fresh]
    /\ req = [r \in Reqs |-> [Blank EXCEPT !.pc = "end", !.out = "refused"]]

MCInit ==
    \/ Init /\ O2A!AtRest /\ A2O!AtRest
    \/ RelayAtRest /\ O2A!Init /\ A2O!AtRest
    \/ RelayAtRest /\ O2A!AtRest /\ A2O!Init

MCNext ==
    \/ Next /\ UNCHANGED <<o2avars, a2ovars>>
    \/ O2A!Next /\ UNCHANGED <<vars, a2ovars>>
    \/ A2O!Next /\ UNCHANGED <<vars, o2avars>>

MCFairSpec ==
    /\ MCInit /\ [][MCNext]_<<vars, o2avars, a2ovars>>
    /\ \A r \in Reqs : WF_vars(Step(r))
    /\ WF_vars(Tick)

\* The properties of the translators.
AnthropicWellFormed == O2A!AnthropicWellFormed
ToolCallsStayApart == A2O!ToolCallsStayApart
==============================================================================
