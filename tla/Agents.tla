-------------------------------- MODULE Agents --------------------------------
(***************************************************************************)
(* The V1 multi agent protocol run by the relay (spawn_execution = server): *)
(* the per-session orchestrators of the handler, the five tools of          *)
(* MultiAgentOrchestrator, the roll-out of a sub-agent over the keys, and   *)
(* the sweep that evicts idle sessions.                                     *)
(*                                                                         *)
(* A tool call is made by a request and is one step up to the await of      *)
(* wait_agent: the locks of the registry and of the orchestrator are never  *)
(* held across an await.  Texts are left out: of the arguments of           *)
(* spawn_agent it is kept which field holds the instruction, of a result    *)
(* whether there is one.                                                    *)
(***************************************************************************)
EXTENDS Integers, Sequences, SequencesExt, FiniteSets

CONSTANTS
    Requests,       \* requests that carry one tool call each
    Sessions,
    SessionOf,
    Pool,           \* the usable keys in the order _run_sub_agent tries them
    MaxThreads,     \* max_threads
    MaxAgents,      \* bound on the agents spawned
    MaxEvictions    \* bound on the sweeps that evict a session

VARIABLES
    registry,   \* _multi_agent_sessions: the orchestrator of a session, 0 for none
    made,       \* orchestrators created
    idle,       \* sessions whose last activity is older than the TTL
    agents,     \* AgentState of every agent spawned, with its task
    req,        \* the requests
    evictions

vars == <<registry, made, idle, agents, req, evictions>>

None == 0
Statuses == {"spawned", "running", "completed", "failed", "closed"}
Live == {"spawned", "running"}
Replies == Statuses \cup {"none", "unknown", "refused", "limit", "acknowledged"}
Paths == {"stream", "json"}

\* Where the caller left the instruction: in "message", in "instruction", in a
\* field the tool does not know, or nowhere.
Arguments == {"message", "instruction", "other", "empty"}

Ids == DOMAIN agents

TypeOK ==
    /\ registry \in [Sessions -> 0..made] /\ made \in Nat /\ idle \subseteq Sessions
    /\ agents \in Seq([orch : 1..made, listed : BOOLEAN, status : Statuses, product : BOOLEAN,
                       task : {"created", "running", "aborted", "cancelled", "done", "interrupted"},
                       tried : 0..Len(Pool), text : BOOLEAN])
    /\ req \in [Requests -> [pc : {"new", "call", "wait", "end"}, orch : 0..made, on : 0..MaxAgents,
                             reply : Replies]]
    /\ evictions \in 0..MaxEvictions

Init ==
    /\ registry = [s \in Sessions |-> None] /\ made = 0 /\ idle = {} /\ agents = <<>>
    /\ req = [r \in Requests |-> [pc |-> "new", orch |-> None, on |-> None, reply |-> "none"]]
    /\ evictions = 0

\* No request of a session is left.
AtRest ==
    /\ registry = [s \in Sessions |-> None] /\ made = 0 /\ idle = {} /\ agents = <<>>
    /\ req = [r \in Requests |-> [pc |-> "end", orch |-> None, on |-> None, reply |-> "none"]]
    /\ evictions = 0

(***************************************************************************)
(* Sessions                                                                *)
(***************************************************************************)
\* _get_or_create_orchestrator.
Enter(r) ==
    LET s == SessionOf[r]
        fresh == registry[s] = None
        o == IF fresh THEN made + 1 ELSE registry[s]
    IN  /\ req[r].pc = "new"
        /\ req' = [req EXCEPT ![r].pc = "call", ![r].orch = o]
        /\ registry' = [registry EXCEPT ![s] = o]
        /\ made' = IF fresh THEN made + 1 ELSE made
        /\ idle' = idle \ {s}
        /\ UNCHANGED <<agents, evictions>>

\* Half an hour without a new request: a request of the session may still run.
GoesIdle(s) ==
    /\ registry[s] # None /\ s \notin idle
    /\ idle' = idle \cup {s}
    /\ UNCHANGED <<registry, made, agents, req, evictions>>

\* _sticky_cleanup_loop: the registry forgets the orchestrator, whatever it runs.
Evict(s) ==
    /\ s \in idle /\ evictions < MaxEvictions
    /\ registry' = [registry EXCEPT ![s] = None]
    /\ idle' = idle \ {s}
    /\ evictions' = evictions + 1
    /\ UNCHANGED <<made, agents, req>>

(***************************************************************************)
(* Tool calls                                                              *)
(***************************************************************************)
Ends(r, i, reply) == req' = [req EXCEPT ![r].pc = "end", ![r].on = i, ![r].reply = reply]

\* self._agents.get(agent_id)
Known(r, i) == i \in Ids /\ agents[i].orch = req[r].orch /\ agents[i].listed

\* patch_spawn_agent_arguments: unknown fields are moved to "message", an empty
\* call takes the last user text; nothing is left to do without one.
Patched(a, user) ==
    CASE a = "message" -> "message"
      [] a \in {"instruction", "other"} -> "message"
      [] user -> "message"
      [] OTHER -> "empty"

\* The stream patches the arguments before the call, the JSON path does not when
\* the relay runs the agents.
Delivered(path, a, user) == IF path = "stream" THEN Patched(a, user) ELSE a

Active(o) == {i \in Ids : agents[i].orch = o /\ agents[i].listed /\ agents[i].status \in Live}

NewAgent(o) == [orch |-> o, listed |-> TRUE, status |-> "running", product |-> FALSE, task |-> "created",
                tried |-> 0, text |-> FALSE]

Spawn(r, path, a, user) ==
    /\ req[r].pc = "call"
    /\ UNCHANGED <<registry, made, idle, evictions>>
    /\ LET text == Delivered(path, a, user) \in {"message", "instruction"}
       IN  \/ ~text /\ Ends(r, None, "refused") /\ UNCHANGED agents
           \/ /\ text /\ Cardinality(Active(req[r].orch)) >= MaxThreads
              /\ Ends(r, None, "limit") /\ UNCHANGED agents
           \/ /\ text /\ Cardinality(Active(req[r].orch)) < MaxThreads /\ Len(agents) < MaxAgents
              /\ agents' = Append(agents, NewAgent(req[r].orch))
              /\ Ends(r, Len(agents) + 1, "running")

\* A name that is not in the registry: every tool but spawn_agent says so.
Unknown(r, i) ==
    /\ req[r].pc = "call" /\ i \in Ids /\ ~Known(r, i)
    /\ Ends(r, i, "unknown")
    /\ UNCHANGED <<registry, made, idle, agents, evictions>>

\* send_input and resume_agent change nothing a roll-out would read.
SendInput(r, i) ==
    /\ req[r].pc = "call" /\ Known(r, i)
    /\ Ends(r, i, "acknowledged")
    /\ UNCHANGED <<registry, made, idle, agents, evictions>>

Over(i) == agents[i].task \in {"done", "interrupted"}

Wait(r, i) ==
    /\ req[r].pc = "call" /\ Known(r, i)
    /\ IF Over(i) THEN Ends(r, i, agents[i].status) ELSE req' = [req EXCEPT ![r].pc = "wait", ![r].on = i]
    /\ UNCHANGED <<registry, made, idle, agents, evictions>>

\* The task is over.  One that was cancelled raises CancelledError in every waiter.
WaitReturns(r) ==
    /\ req[r].pc = "wait" /\ Over(req[r].on)
    /\ LET i == req[r].on
           closed == agents[i].task = "interrupted"
       IN  /\ agents' = IF closed THEN [agents EXCEPT ![i].status = "closed"] ELSE agents
           /\ Ends(r, i, IF closed THEN "closed" ELSE agents[i].status)
    /\ UNCHANGED <<registry, made, idle, evictions>>

\* task.cancel(): a coroutine that has not begun is never entered.
CancelTask(i) ==
    [agents[i] EXCEPT !.task = CASE @ = "created" -> "aborted" [] @ = "running" -> "cancelled" [] OTHER -> @]

\* The cancellation of a request that awaits a task reaches the task; the waiter
\* takes it for a closed agent and goes on.
CancelRequest(r) ==
    /\ req[r].pc = "wait" /\ agents[req[r].on].task \in {"created", "running"}
    /\ agents' = [agents EXCEPT ![req[r].on] = CancelTask(req[r].on)]
    /\ UNCHANGED <<registry, made, idle, req, evictions>>

Close(r, i) ==
    /\ req[r].pc = "call" /\ Known(r, i)
    /\ agents' = [agents EXCEPT ![i] = [CancelTask(i) EXCEPT !.status = "closed", !.listed = FALSE]]
    /\ Ends(r, i, "closed")
    /\ UNCHANGED <<registry, made, idle, evictions>>

(***************************************************************************)
(* The roll-out: _run_agent, _run_sub_agent                                *)
(***************************************************************************)
Rolls(i, a) == agents' = [agents EXCEPT ![i] = a] /\ UNCHANGED <<registry, made, idle, req, evictions>>

Begin(i) == agents[i].task = "created" /\ Rolls(i, [agents[i] EXCEPT !.task = "running"])

\* _run_sub_agent_one: an error, a quota notice and an empty answer count alike,
\* and the next key is tried.
Ask(i) ==
    /\ agents[i].task = "running" /\ agents[i].tried < Len(Pool) /\ ~agents[i].text
    /\ \E text \in BOOLEAN : Rolls(i, [agents[i] EXCEPT !.tried = @ + 1, !.text = text])

\* Mutant: the search ends with the first key, whatever it answered.
FinishEarly(i) ==
    /\ agents[i].task = "running" /\ agents[i].tried > 0
    /\ Rolls(i, [agents[i] EXCEPT !.task = "done", !.status = "completed", !.product = agents[i].text])

\* The first text, or nothing when no key is left: completed in either case.
Finish(i) ==
    /\ agents[i].task = "running" /\ (agents[i].text \/ agents[i].tried = Len(Pool))
    /\ Rolls(i, [agents[i] EXCEPT !.task = "done", !.status = "completed", !.product = agents[i].text])

\* Mutant: the roll-out is awaited without wait_for.
NoTimeout(i) == FALSE /\ Rolls(i, agents[i])

\* wait_for's timeout, or an answer the extraction fails on.
Fails(i) ==
    /\ agents[i].task = "running"
    /\ Rolls(i, [agents[i] EXCEPT !.task = "done", !.status = "failed"])

\* CancelledError in the roll-out.  Before 3.12 wait_for returns the result of a
\* roll-out that ended in the same turn of the loop instead.
Interrupted(i) ==
    \/ agents[i].task = "aborted" /\ Rolls(i, [agents[i] EXCEPT !.task = "interrupted"])
    \/ agents[i].task = "cancelled" /\ Rolls(i, [agents[i] EXCEPT !.task = "interrupted", !.status = "closed"])
    \/ /\ agents[i].task = "cancelled" /\ agents[i].text
       /\ Rolls(i, [agents[i] EXCEPT !.task = "done", !.status = "completed", !.product = TRUE])

(***************************************************************************)
(* The specification                                                       *)
(***************************************************************************)
Call(r) ==
    \/ \E path \in Paths, a \in Arguments, user \in BOOLEAN : Spawn(r, path, a, user)
    \/ \E i \in Ids : Unknown(r, i) \/ SendInput(r, i) \/ Wait(r, i) \/ Close(r, i)

Next ==
    \/ \E r \in Requests : Enter(r) \/ Call(r) \/ WaitReturns(r) \/ CancelRequest(r)
    \/ \E i \in Ids : Begin(i) \/ Ask(i) \/ Finish(i) \/ Fails(i) \/ Interrupted(i)
    \/ \E s \in Sessions : GoesIdle(s) \/ Evict(s)

Spec == Init /\ [][Next]_vars

\* The event loop starts and cancels tasks and wakes waiters, and the timer of
\* wait_for fires.  Nothing is assumed of the upstreams.
Fairness ==
    /\ \A r \in Requests : WF_vars(WaitReturns(r))
    /\ \A i \in 1..MaxAgents :
          WF_vars(i \in Ids /\ Begin(i)) /\ WF_vars(i \in Ids /\ Fails(i)) /\ WF_vars(i \in Ids /\ Interrupted(i))

(***************************************************************************)
(* Properties                                                              *)
(***************************************************************************)
\* wait_agent answers "completed" only for an agent whose roll-out came to its
\* end, also when somebody else closed or cancelled it, and without a product
\* only after every key was asked; and one orchestrator never runs more than
\* max_threads agents, counted by their tasks and not by its table, except for
\* those that were told to stop.  (A session may have two orchestrators, see
\* SessionWithinLimit.)
WaitTellsTheTruth ==
    /\ \A r \in Requests :
          LET i == req[r].on
          IN  req[r].pc = "end" /\ req[r].reply = "completed" =>
                 /\ agents[i].task = "done"
                 /\ agents[i].product \/ agents[i].tried = Len(Pool)
    /\ \A o \in 1..made :
          Cardinality({i \in Ids : agents[i].orch = o /\ agents[i].task \in {"created", "running"}}) <= MaxThreads

\* NFR-6 (config.yaml, MultiAgentOrchestrator): max_threads bounds the agents that
\* run at the same time in one session.  The code does not keep to it: the limit is
\* counted in one orchestrator, and Evict takes that away from a session at work.
SessionWithinLimit ==
    \A s \in Sessions :
        LET orchs == {req[r].orch : r \in {q \in Requests : SessionOf[q] = s}}
        IN  Cardinality({i \in Ids : agents[i].orch \in orchs /\ agents[i].task \in {"created", "running"}})
              <= MaxThreads

\* A waiter gets its answer even when every upstream hangs, when another request
\* closes the agent, and when the session is evicted meanwhile.
EveryWaitEnds == \A r \in Requests : req[r].pc = "wait" ~> req[r].pc = "end"
===============================================================================
