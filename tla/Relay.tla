-------------------------------- MODULE Relay --------------------------------
(***************************************************************************)
(* The forwarding loops of ProxyHandler: a request picks upstream keys one *)
(* after the other until one of them answers.  Requests of one process run *)
(* concurrently and share the health of the keys.                          *)
(*                                                                         *)
(* A request that does not stream is answered or refused as a whole.  A    *)
(* streamed one has its 200 sent before the first key is tried, holds back *)
(* what an upstream sends until the first payload, and goes through the    *)
(* keys in rounds with a sleep between them.  What an upstream answers is  *)
(* left open, and so is which of the available keys scores best.  The      *)
(* request and token windows of a key are left out: a full window is a     *)
(* CallSkipped.  A client may leave at any time; it matters where the code *)
(* notices it, in CallAborted and WriteFails.  The keepalive comments and  *)
(* the sticky binding after a success are left out.                        *)
(***************************************************************************)
EXTENDS KeyHealth, FiniteSets, Sequences

CONSTANTS
    Keys, Reqs, Null,
    Saved,           \* what the key_health table may hold of a key at the start
    Streams,         \* the requests with stream = true
    Main,            \* keys of the model or group the requests name
    Spare,           \* keys of its fallback group
    Failover,        \* TRUE: the group's strategy is failover
    Tier,            \* position of the key's model in the group
    MaxWait,         \* _SINGLE_KEY_DEGRADED_MAX_WAIT
    Deadline,        \* STREAM_HARD_DEADLINE_SECONDS
    MaxPrecommit     \* _MAX_PRECOMMIT_RETRIES

ASSUME RelayAssumption ==
    /\ Null \notin Keys
    /\ Saved \subseteq {h \in Health : h.level = 0 /\ (h.status \in {"error", "rate_limited"} => h.cool > 0)}
    /\ Main \subseteq Keys /\ Spare \subseteq Keys /\ Streams \subseteq Reqs
    /\ Failover \in BOOLEAN
    /\ Tier \in [Keys -> Nat]
    /\ MaxWait \in Nat /\ Deadline \in Nat
    /\ MaxPrecommit \in Nat \ {0}

VARIABLES
    health,    \* KeyHealth of every key
    req        \* the locals of each request's loop

vars == <<health, req>>

PCs == {"new", "pick", "call", "hold", "forward", "round", "nap", "end"}
Outcomes == {"none", "ok", "refused", "exhausted", "request", "rejected", "breaker",
             "invalid", "cooling", "deadline", "truncated", "gone"}

\* single: one candidate on arrival.  held: bytes held back.  sent: the keys
\* whose bytes reached the client, in order.  pre: _precommit_fail.  exc: exceptions of the
\* round.  fb: fb_attempted.  deg, waited: degraded_mode, degraded_waited.
\* over: protocol_override.  nap: ticks left to sleep.  age: ticks since arrival.
\* torn: history, an upstream read raised after a payload was forwarded.
Request == [pc : PCs, key : Keys \cup {Null}, cand : SUBSET Keys, tried : SUBSET Keys,
            single : BOOLEAN, held : BOOLEAN, sent : Seq(Keys),
            pre : 0..MaxPrecommit, exc : {"none", "same", "mixed"}, fb : BOOLEAN,
            deg : BOOLEAN, waited : BOOLEAN, over : BOOLEAN, nap : Nat, age : 0..Deadline,
            torn : BOOLEAN, out : Outcomes]

TypeOK ==
    /\ health \in [Keys -> Health]
    /\ req \in [Reqs -> Request]

Blank ==
    [pc |-> "new", key |-> Null, cand |-> {}, tried |-> {}, single |-> FALSE,
     held |-> FALSE, sent |-> <<>>, pre |-> 0, exc |-> "none", fb |-> FALSE, deg |-> FALSE,
     waited |-> FALSE, over |-> FALSE, nap |-> 0, age |-> 0, torn |-> FALSE,
     out |-> "none"]

\* The start restores the health of a key without its backoff level, and
\* without a cooldown that is over.
Init ==
    /\ health \in [Keys -> Saved]
    /\ req = [r \in Reqs |-> Blank]

Become(r, v) == req' = [req EXCEPT ![r] = v]
Goto(r, l) == Become(r, [req[r] EXCEPT !.pc = l])

\* The response is complete: the locals are gone, what the client got remains.
EndWith(r, o, sent) == Become(r, [Blank EXCEPT !.pc = "end", !.out = o, !.sent = sent])
End(r, o) == EndWith(r, o, req[r].sent)

Mark(k, h) == health' = [health EXCEPT ![k] = h]
Usable(S) == {k \in S : Available(health[k])}
IsStream(r) == r \in Streams

(***************************************************************************)
(* Candidates                                                              *)
(***************************************************************************)
\* _resolve_degraded: the cooling key that is available soonest.
Soonest ==
    LET cooling == {k \in Main : health[k].status # "invalid" /\ health[k].cool > 0}
    IN  {k \in cooling : \A x \in cooling : health[k].cool <= health[x].cool}

Admit(r, C, degraded) ==
    Become(r, [req[r] EXCEPT !.pc = "pick", !.cand = C, !.single = (Cardinality(C) = 1),
                             !.deg = degraded])

Arrive(r) ==
    /\ req[r].pc = "new"
    /\ \/ Usable(Main) # {} /\ Admit(r, Usable(Main), FALSE)
       \/ Usable(Main) = {} /\ \E k \in Soonest : Admit(r, {k}, TRUE)
       \/ Usable(Main) = {} /\ Soonest = {} /\ End(r, "refused")
    /\ UNCHANGED health

Untried(r) == req[r].cand \ req[r].tried

\* _next_failover_key looks at the first tier that has untried keys, and at no
\* other; the flat strategies look at all of them.
Pool(r) ==
    IF Failover /\ ~req[r].fb
    THEN {k \in Untried(r) : \A x \in Untried(r) : Tier[k] <= Tier[x]}
    ELSE Untried(r)

\* The sticky key of the session comes first in a round, whatever its tier.
Choices(r) == Usable(Pool(r)) \cup (IF req[r].tried = {} THEN Usable(req[r].cand) ELSE {})

\* degraded_mode sends one request to a key that still cools.
Forced(r) == {k \in Untried(r) : IsStream(r) /\ req[r].deg /\ ~req[r].waited /\ Usable(Pool(r)) = {}}

Pick(r) ==
    /\ req[r].pc = "pick"
    /\ \E k \in Choices(r) \cup Forced(r) :
          Become(r, [req[r] EXCEPT !.pc = "call", !.key = k, !.tried = @ \cup {k}])
    /\ UNCHANGED health

PickNone(r) ==
    /\ req[r].pc = "pick"
    /\ Usable(Pool(r)) = {} /\ Forced(r) = {}
    /\ IF IsStream(r) THEN Goto(r, "round") ELSE End(r, "exhausted")
    /\ UNCHANGED health

(***************************************************************************)
(* One call                                                                *)
(***************************************************************************)
Transient(r) == MarkTransient(health[req[r].key], req[r].single)

\* An exception: mark_network_failure, and the breaker's record of its type.
Raised(r, torn) ==
    /\ Mark(req[r].key, Transient(r))
    /\ \E e \in {"same", "mixed"} :
          /\ req[r].exc = "none" => e = "same"
          /\ req[r].exc = "mixed" => e = "mixed"
          /\ Become(r, [req[r] EXCEPT !.pc = "pick", !.exc = IF IsStream(r) THEN e ELSE @,
                                      !.held = FALSE, !.torn = @ \/ torn])

\* The key's own window refuses, or its client cannot be created.
CallSkipped(r) ==
    /\ req[r].pc = "call"
    /\ Goto(r, "pick")
    /\ UNCHANGED health

CallRaises(r) ==
    /\ req[r].pc = "call"
    /\ Raised(r, FALSE)

\* Without a stream the client's connection is looked at before the call and
\* after a connection error.
CallAborted(r) ==
    /\ req[r].pc = "call" /\ ~IsStream(r)
    /\ End(r, "gone")
    /\ UNCHANGED health

\* A retryable status, or a 200 without content when nothing is streamed.
CallFails(r) ==
    /\ req[r].pc = "call"
    /\ \E h \in Classified(health[req[r].key], req[r].single) : Mark(req[r].key, h)
    /\ Goto(r, "pick")

\* A request-side error is passed to the client and leaves the key alone.
CallRefused(r) ==
    /\ req[r].pc = "call"
    /\ End(r, "request")
    /\ UNCHANGED health

\* A chat-only upstream behind a responses key: go on with translation.
CallDowngrades(r) ==
    /\ req[r].pc = "call" /\ IsStream(r) /\ ~req[r].over
    /\ Become(r, [req[r] EXCEPT !.pc = "pick", !.over = TRUE])
    /\ UNCHANGED health

Answer(r) ==
    /\ req[r].pc = "call" /\ ~IsStream(r)
    /\ \E h \in Served(health[req[r].key]) : Mark(req[r].key, h)
    /\ End(r, "ok")

\* A 200: the body follows.
OpenStream(r) ==
    /\ req[r].pc = "call" /\ IsStream(r)
    /\ Goto(r, "hold")
    /\ UNCHANGED health

(***************************************************************************)
(* The body of a stream: held back up to the first payload, then forwarded *)
(***************************************************************************)
\* Mutant: frames without a payload are forwarded as they come.
HoldForwarded(r) ==
    /\ req[r].pc = "hold" /\ ~req[r].held
    /\ Become(r, [req[r] EXCEPT !.held = TRUE, !.sent = Append(@, req[r].key)])
    /\ UNCHANGED health

Hold(r) ==
    /\ req[r].pc = "hold" /\ ~req[r].held
    /\ Become(r, [req[r] EXCEPT !.held = TRUE])
    /\ UNCHANGED health

\* A rejecting frame, the end of an empty stream or a broken connection before
\* the first payload: drop what is held, mark the key and try the next one.
Precommit(r) ==
    /\ req[r].pc = "hold"
    /\ Mark(req[r].key, Transient(r))
    /\ IF req[r].pre + 1 >= MaxPrecommit
       THEN End(r, "rejected")
       ELSE Become(r, [req[r] EXCEPT !.pc = "pick", !.pre = @ + 1, !.held = FALSE])

Payload(r) ==
    /\ req[r].pc = "hold"
    /\ Become(r, [req[r] EXCEPT !.pc = "forward", !.held = FALSE, !.sent = Append(@, req[r].key)])
    /\ UNCHANGED health

\* A write fails, or the upstream breaks off, because the client left.  The key
\* is left alone before a payload or when the closing events of a translator
\* cannot be written either; it counts as served while the transport is closing,
\* and as failed once request.transport is None.
WriteFails(r) ==
    /\ req[r].pc \in {"hold", "forward"}
    /\ \/ UNCHANGED health
       \/ Mark(req[r].key, MarkSuccess(health[req[r].key]))
       \/ Mark(req[r].key, Transient(r))
    /\ End(r, "gone")

\* The upstream's end.  A stream that carried usage only is flushed here, and so
\* is one whose first payload came in the same chunk as an error frame.
Complete(r) ==
    /\ req[r].pc \in {"hold", "forward"}
    /\ Mark(req[r].key, MarkSuccess(health[req[r].key]))
    /\ EndWith(r, "ok", IF req[r].pc = "hold" THEN Append(req[r].sent, req[r].key) ELSE req[r].sent)

\* An OSError of the read side after a payload: the key failed, the stream ends.
Truncated(r) ==
    /\ req[r].pc = "forward"
    /\ Mark(req[r].key, Transient(r))
    /\ End(r, "truncated")

\* Any other exception of the read side goes to the handler around the call.
ReadRaises(r) ==
    /\ req[r].pc \in {"hold", "forward"}
    /\ Raised(r, req[r].pc = "forward")

(***************************************************************************)
(* The end of a round                                                      *)
(***************************************************************************)
\* A new round tries every candidate again.
NewRound(v, C) == [v EXCEPT !.pc = "pick", !.cand = C, !.tried = {}, !.exc = "none", !.fb = TRUE]

FallbackKeys(r) == Usable(Spare) \ req[r].tried

Breaks(r) == req[r].exc = "same" /\ ~(req[r].deg /\ ~req[r].waited)

\* reason_for_exhaustion = "all_invalid": no candidate is in another failed state.
AllInvalid(r) ==
    /\ \E k \in req[r].cand : health[k].status = "invalid"
    /\ \A k \in req[r].cand : health[k].status \notin {"rate_limited", "error"}

\* The fallback group once, then the breaker, the checks for keys that cannot
\* come back, the one wait of degraded mode, the deadline, and the sleep.
RoundFallback(r) ==
    /\ req[r].pc = "round" /\ ~req[r].fb /\ FallbackKeys(r) # {}
    /\ Become(r, NewRound(req[r], FallbackKeys(r)))
    /\ UNCHANGED health

\* Mutant: the deadline is not looked at.
GivesUpNever(r) ==
    IF Breaks(r) THEN "breaker"
    ELSE IF AllInvalid(r) THEN "invalid"
    ELSE IF req[r].deg THEN "cooling"
    ELSE "none"

GivesUp(r) ==
    IF Breaks(r) THEN "breaker"
    ELSE IF AllInvalid(r) THEN "invalid"
    ELSE IF req[r].deg THEN "cooling"
    ELSE IF req[r].age >= Deadline THEN "deadline"
    ELSE "none"

\* Degraded mode waits once for the end of the first candidate's cooldown.
MayWait(r, t) == ~req[r].waited /\ t <= MaxWait /\ req[r].age + t < Deadline

RoundFails(r) ==
    /\ req[r].pc = "round" /\ (req[r].fb \/ FallbackKeys(r) = {})
    /\ \/ GivesUp(r) \notin {"none", "cooling"} /\ End(r, GivesUp(r))
       \/ /\ GivesUp(r) = "cooling"
          /\ \E k \in req[r].cand :
                IF MayWait(r, health[k].cool)
                THEN Become(r, [NewRound(req[r], req[r].cand) EXCEPT
                                  !.pc = "nap", !.nap = health[k].cool, !.waited = TRUE])
                ELSE End(r, "cooling")
       \/ /\ GivesUp(r) = "none"
          /\ Become(r, [NewRound(req[r], req[r].cand) EXCEPT !.pc = "nap", !.nap = 1])
    /\ UNCHANGED health

Wake(r) ==
    /\ req[r].pc = "nap" /\ req[r].nap = 0
    /\ Goto(r, "pick")
    /\ UNCHANGED health

(***************************************************************************)
(* The health snapshot and the clock                                       *)
(***************************************************************************)
\* The health snapshot's loop: an expired cooldown is over.
Normalize(k) ==
    /\ health[k].status \in {"error", "rate_limited"} /\ health[k].cool = 0
    /\ Mark(k, [health[k] EXCEPT !.status = "healthy"])
    /\ UNCHANGED req

Dec(n) == IF n > 0 THEN n - 1 ELSE n

\* Sleepers wake on time; an upstream may take any time to answer.
Tick ==
    /\ \A r \in Reqs : req[r].pc = "nap" => req[r].nap > 0
    /\ health' = [k \in Keys |-> [health[k] EXCEPT !.cool = Dec(@)]]
    /\ req' = [r \in Reqs |->
                 IF req[r].pc \in {"new", "end"} \/ ~IsStream(r) THEN req[r]
                 ELSE [req[r] EXCEPT !.age = Lower(@ + 1, Deadline), !.nap = Dec(@)]]

(***************************************************************************)
(* The specification                                                       *)
(***************************************************************************)
Call(r) ==
    \/ CallSkipped(r) \/ CallRaises(r) \/ CallAborted(r) \/ CallFails(r) \/ CallRefused(r) \/ CallDowngrades(r)
    \/ Answer(r) \/ OpenStream(r)

Body(r) ==
    \/ Hold(r) \/ Precommit(r) \/ Payload(r) \/ WriteFails(r) \/ Complete(r) \/ Truncated(r)
    \/ ReadRaises(r)

\* After a failed attempt the loop goes on to the next key, or through the end
\* of the round, without an await: nothing else runs.
Running(r) == req[r].pc = "round" \/ (req[r].pc = "pick" /\ req[r].tried # {})

Idle(R) == \A r \in R : ~Running(r)

Step(r) ==
    /\ Idle(Reqs \ {r})
    /\ \/ Pick(r) \/ PickNone(r) \/ Call(r) \/ Body(r)
       \/ RoundFallback(r) \/ RoundFails(r) \/ Wake(r)

Next ==
    \/ \E r \in Reqs : Step(r)
    \/ /\ Idle(Reqs)
       /\ \/ \E r \in Reqs : Arrive(r)
          \/ \E k \in Keys : Normalize(k)
          \/ Tick

Spec == Init /\ [][Next]_vars

\* The event loop runs every request that can go on, the timeouts of the
\* upstream client end every call and every read, and the clock advances.
FairSpec ==
    /\ Spec
    /\ \A r \in Reqs : WF_vars(Step(r))
    /\ WF_vars(Tick)

(***************************************************************************)
(* Properties                                                              *)
(***************************************************************************)
\* "Hold until payload" in _stream_proxy: whatever the attempts before it sent
\* (empty frames, a rejection, half a stream), an attempt begins with a client
\* that has seen no byte of an upstream, unless a read raised after a payload.
HeldBytesStayHeld ==
    \A r \in Reqs : req[r].pc \in {"pick", "call", "hold", "round", "nap"} /\ ~req[r].torn
                    => req[r].sent = <<>>

\* Every request ends, also when every key of the group and of its fallback
\* fails again and again: no retry loop outlives the deadline.
EveryRequestEnds == \A r \in Reqs : req[r].pc = "pick" ~> req[r].pc = "end"
==============================================================================
