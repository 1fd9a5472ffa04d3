------------------------------- MODULE MCTools -------------------------------
(***************************************************************************)
(* The two kinds of tools the relay runs itself: calls of remote MCP tools   *)
(* and the agents of the multi agent protocol.  A behaviour exercises one of *)
(* them while the other is at rest.                                          *)
(*                                                                           *)
(* Two requests repeat the same call under one key, of a tool that needs an  *)
(* approval, the second with a client that has no executions store; a third  *)
(* uses the key for another body and has no number.  Three requests of one   *)
(* session share an orchestrator that may be evicted between them, and two   *)
(* keys.                                                                     *)
(***************************************************************************)
EXTENDS McpCalls, Sequences, TLC
CONSTANTS a, b, other, k1, r1, r2, r3, s1, key1, key2,
          Requests, Sessions, SessionOf, Pool, MaxThreads, MaxAgents, MaxEvictions
VARIABLES registry, made, idle, agents, req, evictions

Ag == INSTANCE Agents

\* max_threads is a number, and every request belongs to a session.
ASSUME AgentsAssumption ==
    MaxThreads \in Nat /\ SessionOf \in [Requests -> Sessions]

agvars == <<registry, made, idle, agents, req, evictions>>

MCRowOf == (a :> "r1") @@ (b :> "r2") @@ (other :> "r3")
MCKeyOf == [c \in Calls |-> k1]
MCDigestOf == [c \in Calls |-> IF c = other THEN "d2" ELSE "d1"]
MCSessionOf == [r \in Requests |-> s1]
MCPool == <<key1, key2>>

MCInit ==
    \/ Init /\ Ag!AtRest
    \/ AtRest /\ Ag!Init

MCNext ==
    \/ Next /\ UNCHANGED agvars
    \/ Ag!Next /\ UNCHANGED vars

MCSpec == MCInit /\ [][MCNext]_<<vars, agvars>>
MCFairSpec == MCSpec /\ (\A c \in Calls : WF_vars(Step(c))) /\ Ag!Fairness

WaitTellsTheTruth == Ag!WaitTellsTheTruth

\* What NFR-6 says and the code does not keep to (see Agents).
SessionWithinLimit == Ag!SessionWithinLimit

\* No call waits for ever for the holder of its key, and no request for its agent.
NobodyWaitsForEver == EveryCallEnds /\ Ag!EveryWaitEnds
==============================================================================
