------------------------------ MODULE RelayProofs ------------------------------
(***************************************************************************)
(* HeldBytesStayHeld of the forwarding loops, and their types, for any keys, *)
(* groups, requests, deadlines and answers of the upstreams; and what the    *)
(* translators of their streams promise, for any blocks, tool calls and      *)
(* number of events.                                                         *)
(*                                                                           *)
(* HeldBytesStayHeld speaks of the places where an attempt begins or is      *)
(* being held; it is inductive once it is said of every place but the        *)
(* forwarding of a payload and the end (Sealed).  That the key of a running  *)
(* attempt is a key (Keyed) is what the types rest on.                       *)
(*                                                                           *)
(* ToolCallsStayApart needs to know who owns a tool index (Numbered, Owned)  *)
(* and what makes a stream over (EndHeard).  AnthropicWellFormed needs, for  *)
(* every state of the translator, how far the message is (Stage): what is    *)
(* open and how many blocks were started, at every point of the handling of  *)
(* one event.                                                                *)
(***************************************************************************)
EXTENDS MCRelay, FiniteSetTheorems, SequenceTheorems, TLAPS

Quiet(v) == v.pc \notin {"forward", "end"} /\ ~v.torn => v.sent = <<>>

HasKey(v) == v.pc \in {"call", "hold", "forward"} => v.key \in Keys

Sealed == \A r \in Reqs : Quiet(req[r])
Keyed == \A r \in Reqs : HasKey(req[r])

Inv == TypeOK /\ Sealed /\ Keyed

(***************************************************************************)
(* The health of a key                                                      *)
(***************************************************************************)
\* mark_transient_failure raises the level to the last step at most.
LEMMA TransientIsHealth ==
    ASSUME NEW h \in Health, NEW single \in BOOLEAN
    PROVE  MarkTransient(h, single) \in Health
<1> DEFINE up == Lower(h.level + 1, IF single THEN SingleMaxLevel ELSE MaxLevel)
<1>1. up \in 0..MaxLevel
  BY DEF Health, Lower, SingleMaxLevel, MaxLevel
<1> HIDE DEF up
<1>2. Backoff[up] \in Nat
  BY <1>1, HealthAssumption
<1>3. [status |-> "error", cool |-> Backoff[up], level |-> up] \in Health
  BY <1>1, <1>2 DEF Health
<1> QED BY <1>3 DEF MarkTransient, up

\* mark_success resets level and cooldown.
LEMMA SuccessIsHealth ==
    ASSUME NEW h \in Health
    PROVE  MarkSuccess(h) \in Health
  BY DEF Health, MarkSuccess, MaxLevel

\* A served call leaves a health, with or without the cooldown its headers ask for.
LEMMA ServedIsHealth ==
    ASSUME NEW h \in Health
    PROVE  Served(h) \subseteq Health
<1>1. ASSUME NEW t \in RetryAfters
      PROVE  [MarkSuccess(h) EXCEPT !.cool = Lower(t, Backoff[MaxLevel])] \in Health
  <2>1. PICK g : g = MarkSuccess(h)
    OBVIOUS
  <2>2. g \in Health
    BY <2>1, SuccessIsHealth
  <2>3. Lower(t, Backoff[MaxLevel]) \in Nat
    BY HealthAssumption DEF Lower, MaxLevel
  <2>4. [g EXCEPT !.cool = Lower(t, Backoff[MaxLevel])] \in Health
    BY <2>2, <2>3 DEF Health
  <2> QED BY <2>1, <2>4
<1> QED BY <1>1 DEF Served

\* mark_rate_limited cools the key for what the answer asks for, or its backoff.
LEMMA RateLimitedIsHealth ==
    ASSUME NEW h \in Health, NEW t \in RetryAfters
    PROVE  MarkRateLimited(h, t) \in Health
<1> DEFINE up == Lower(h.level + 1, MaxLevel)
<1>1. up \in 0..MaxLevel
  BY DEF Health, Lower, MaxLevel
<1> HIDE DEF up
<1>2. Backoff[up] \in Nat /\ Lower(t, Backoff[MaxLevel]) \in Nat
  BY <1>1, HealthAssumption DEF Lower, MaxLevel
<1>3. [status |-> "rate_limited", cool |-> Backoff[up], level |-> up] \in Health
  BY <1>1, <1>2 DEF Health
<1>4. [h EXCEPT !.status = "rate_limited", !.cool = Lower(t, Backoff[MaxLevel])] \in Health
  BY <1>2 DEF Health
<1> QED BY <1>3, <1>4 DEF MarkRateLimited, up

\* Whatever an error response is classified as, the key has a health afterwards.
LEMMA ClassifiedIsHealth ==
    ASSUME NEW h \in Health, NEW single \in BOOLEAN
    PROVE  Classified(h, single) \subseteq Health
<1>1. MarkAuthFailure(h) \in Health
  BY DEF MarkAuthFailure, Health
<1>2. MarkBalanceDepleted(h) \in Health
  BY HealthAssumption DEF MarkBalanceDepleted, Health
<1>3. MarkBanned(h) \in Health
  BY HealthAssumption DEF MarkBanned, Health, MaxLevel
<1> QED BY <1>1, <1>2, <1>3, TransientIsHealth, RateLimitedIsHealth DEF Classified

(***************************************************************************)
(* Requests                                                                 *)
(***************************************************************************)
\* The locals of a request, its counters left open.
LEMMA RequestIs ==
    ASSUME NEW p \in PCs, NEW o \in Outcomes, NEW s \in Seq(Keys), NEW n \in 0..MaxPrecommit, NEW t \in 0..Deadline
    PROVE  [pc |-> p, key |-> Null, cand |-> {}, tried |-> {}, single |-> FALSE,
            held |-> FALSE, sent |-> s, pre |-> n, exc |-> "none", fb |-> FALSE, deg |-> FALSE,
            waited |-> FALSE, over |-> FALSE, nap |-> 0, age |-> t, torn |-> FALSE, out |-> o] \in Request
  BY SMT DEF Request

\* The locals of a request that is new or over.
LEMMA BlankIs ==
    ASSUME NEW p \in PCs, NEW o \in Outcomes, NEW s \in Seq(Keys)
    PROVE  [pc |-> p, key |-> Null, cand |-> {}, tried |-> {}, single |-> FALSE,
            held |-> FALSE, sent |-> s, pre |-> 0, exc |-> "none", fb |-> FALSE, deg |-> FALSE,
            waited |-> FALSE, over |-> FALSE, nap |-> 0, age |-> 0, torn |-> FALSE, out |-> o] \in Request
<1>1. 0 \in 0..MaxPrecommit /\ 0 \in 0..Deadline
  BY RelayAssumption
<1> QED BY <1>1, RequestIs, Zenon

\* What decides about the bytes a client sees.
Same(v, w) == w.key = v.key /\ w.sent = v.sent /\ w.torn = v.torn

\* One local after the other may change without touching what was sent (this and the next lemmas).
LEMMA WithPc ==
    ASSUME NEW v \in Request, NEW p \in PCs, NEW w, w = [v EXCEPT !.pc = p]
    PROVE  w \in Request /\ w.pc = p /\ Same(v, w)
<1>1. w \in Request
  BY DEF Request
<1>2. w.pc = p /\ Same(v, w)
  BY DEF Request, Same
<1> QED BY <1>1, <1>2

\* An update of a field that does not decide.
LEMMA WithCand ==
    ASSUME NEW v \in Request, NEW x \in SUBSET Keys, NEW w, w = [v EXCEPT !.cand = x]
    PROVE  w \in Request /\ w.pc = v.pc /\ Same(v, w)
<1>1. w \in Request
  BY DEF Request
<1>2. w.pc = v.pc /\ Same(v, w)
  BY DEF Request, Same
<1> QED BY <1>1, <1>2

\* The keys that were tried.
LEMMA WithTried ==
    ASSUME NEW v \in Request, NEW x \in SUBSET Keys, NEW w, w = [v EXCEPT !.tried = x]
    PROVE  w \in Request /\ w.pc = v.pc /\ Same(v, w)
<1>1. w \in Request
  BY DEF Request
<1>2. w.pc = v.pc /\ Same(v, w)
  BY DEF Request, Same
<1> QED BY <1>1, <1>2

\* Whether the round has one candidate.
LEMMA WithSingle ==
    ASSUME NEW v \in Request, NEW x \in BOOLEAN, NEW w, w = [v EXCEPT !.single = x]
    PROVE  w \in Request /\ w.pc = v.pc /\ Same(v, w)
<1>1. w \in Request
  BY DEF Request
<1>2. w.pc = v.pc /\ Same(v, w)
  BY DEF Request, Same
<1> QED BY <1>1, <1>2

\* Whether bytes are held back.
LEMMA WithHeld ==
    ASSUME NEW v \in Request, NEW x \in BOOLEAN, NEW w, w = [v EXCEPT !.held = x]
    PROVE  w \in Request /\ w.pc = v.pc /\ Same(v, w)
<1>1. w \in Request
  BY DEF Request
<1>2. w.pc = v.pc /\ Same(v, w)
  BY DEF Request, Same
<1> QED BY <1>1, <1>2

\* The failures before a payload.
LEMMA WithPre ==
    ASSUME NEW v \in Request, NEW x \in 0..MaxPrecommit, NEW w, w = [v EXCEPT !.pre = x]
    PROVE  w \in Request /\ w.pc = v.pc /\ Same(v, w)
<1>1. w \in Request
  BY DEF Request
<1>2. w.pc = v.pc /\ Same(v, w)
  BY DEF Request, Same
<1> QED BY <1>1, <1>2

\* The kind of the exceptions so far.
LEMMA WithExc ==
    ASSUME NEW v \in Request, NEW x \in {"none", "same", "mixed"}, NEW w, w = [v EXCEPT !.exc = x]
    PROVE  w \in Request /\ w.pc = v.pc /\ Same(v, w)
<1>1. w \in Request
  BY DEF Request
<1>2. w.pc = v.pc /\ Same(v, w)
  BY DEF Request, Same
<1> QED BY <1>1, <1>2

\* Whether the fallback group was used.
LEMMA WithFb ==
    ASSUME NEW v \in Request, NEW x \in BOOLEAN, NEW w, w = [v EXCEPT !.fb = x]
    PROVE  w \in Request /\ w.pc = v.pc /\ Same(v, w)
<1>1. w \in Request
  BY DEF Request
<1>2. w.pc = v.pc /\ Same(v, w)
  BY DEF Request, Same
<1> QED BY <1>1, <1>2

\* Whether the round is a degraded one.
LEMMA WithDeg ==
    ASSUME NEW v \in Request, NEW x \in BOOLEAN, NEW w, w = [v EXCEPT !.deg = x]
    PROVE  w \in Request /\ w.pc = v.pc /\ Same(v, w)
<1>1. w \in Request
  BY DEF Request
<1>2. w.pc = v.pc /\ Same(v, w)
  BY DEF Request, Same
<1> QED BY <1>1, <1>2

\* Whether the request has waited for a cooldown.
LEMMA WithWaited ==
    ASSUME NEW v \in Request, NEW x \in BOOLEAN, NEW w, w = [v EXCEPT !.waited = x]
    PROVE  w \in Request /\ w.pc = v.pc /\ Same(v, w)
<1>1. w \in Request
  BY DEF Request
<1>2. w.pc = v.pc /\ Same(v, w)
  BY DEF Request, Same
<1> QED BY <1>1, <1>2

\* Whether the deadline is over.
LEMMA WithOver ==
    ASSUME NEW v \in Request, NEW x \in BOOLEAN, NEW w, w = [v EXCEPT !.over = x]
    PROVE  w \in Request /\ w.pc = v.pc /\ Same(v, w)
<1>1. w \in Request
  BY DEF Request
<1>2. w.pc = v.pc /\ Same(v, w)
  BY DEF Request, Same
<1> QED BY <1>1, <1>2

\* The sleep between two rounds.
LEMMA WithNap ==
    ASSUME NEW v \in Request, NEW x \in Nat, NEW w, w = [v EXCEPT !.nap = x]
    PROVE  w \in Request /\ w.pc = v.pc /\ Same(v, w)
<1>1. w \in Request
  BY DEF Request
<1>2. w.pc = v.pc /\ Same(v, w)
  BY DEF Request, Same
<1> QED BY <1>1, <1>2

\* The age of the request.
LEMMA WithAge ==
    ASSUME NEW v \in Request, NEW x \in 0..Deadline, NEW w, w = [v EXCEPT !.age = x]
    PROVE  w \in Request /\ w.pc = v.pc /\ Same(v, w)
<1>1. w \in Request
  BY DEF Request
<1>2. w.pc = v.pc /\ Same(v, w)
  BY DEF Request, Same
<1> QED BY <1>1, <1>2

\* A step of one request to locals that satisfy the invariant keeps it.
LEMMA BecomeKeeps ==
    ASSUME Inv, NEW r \in Reqs, NEW v \in Request, Quiet(v), HasKey(v), req' = [req EXCEPT ![r] = v],
           health' \in [Keys -> Health]
    PROVE  Inv'
<1>1. req' \in [Reqs -> Request] /\ \A x \in Reqs : req'[x] = IF x = r THEN v ELSE req[x]
  BY DEF Inv, TypeOK
<1>2. TypeOK'
  BY <1>1 DEF TypeOK
<1>3. Sealed'
  BY <1>1 DEF Inv, Sealed, Quiet
<1>4. Keyed'
  BY <1>1 DEF Inv, Keyed, HasKey
<1> QED BY <1>2, <1>3, <1>4 DEF Inv

\* The current locals.
LEMMA Now ==
    ASSUME Inv, NEW r \in Reqs
    PROVE  /\ req[r] \in Request /\ Quiet(req[r]) /\ HasKey(req[r])
           /\ req[r].cand \subseteq Keys /\ req[r].tried \subseteq Keys /\ req[r].single \in BOOLEAN
           /\ req[r].sent \in Seq(Keys) /\ req[r].pre \in 0..MaxPrecommit /\ req[r].torn \in BOOLEAN
           /\ req[r].exc \in {"none", "same", "mixed"} /\ health \in [Keys -> Health]
<1>1. req[r] \in Request /\ Quiet(req[r]) /\ HasKey(req[r]) /\ health \in [Keys -> Health]
  BY DEF Inv, TypeOK, Sealed, Keyed
<1>2. PICK v : v = req[r]
  OBVIOUS
<1>3. /\ v.cand \subseteq Keys /\ v.tried \subseteq Keys /\ v.single \in BOOLEAN
      /\ v.sent \in Seq(Keys) /\ v.pre \in 0..MaxPrecommit /\ v.torn \in BOOLEAN
      /\ v.exc \in {"none", "same", "mixed"}
  BY <1>1, <1>2 DEF Request
<1> QED BY <1>1, <1>2, <1>3

\* The end of a request may show anything.
LEMMA EndKeeps ==
    ASSUME Inv, NEW r \in Reqs, NEW o \in Outcomes, NEW s \in Seq(Keys), EndWith(r, o, s), health' \in [Keys -> Health]
    PROVE  Inv'
<1>1. PICK v : v = [Blank EXCEPT !.pc = "end", !.out = o, !.sent = s]
  OBVIOUS
<1>2. v = [pc |-> "end", key |-> Null, cand |-> {}, tried |-> {}, single |-> FALSE,
           held |-> FALSE, sent |-> s, pre |-> 0, exc |-> "none", fb |-> FALSE, deg |-> FALSE,
           waited |-> FALSE, over |-> FALSE, nap |-> 0, age |-> 0, torn |-> FALSE, out |-> o]
  BY <1>1 DEF Blank
<1>3. v \in Request
  BY <1>2, BlankIs DEF PCs
<1>4. v.pc = "end"
  BY <1>2
<1>5. Quiet(v) /\ HasKey(v)
  BY <1>4 DEF Quiet, HasKey
<1>6. req' = [req EXCEPT ![r] = v]
  BY <1>1 DEF EndWith, Become
<1> QED BY <1>3, <1>5, <1>6, BecomeKeeps

\* A jump that does not leave the forwarding of a payload keeps the invariant.
LEMMA GotoKeeps ==
    ASSUME Inv, NEW r \in Reqs, NEW l \in PCs, Goto(r, l), health' \in [Keys -> Health],
           req[r].pc \notin {"forward", "end"}, l \in {"call", "hold", "forward"} => req[r].pc \in {"call", "hold"}
    PROVE  Inv'
<1>1. req[r] \in Request /\ Quiet(req[r]) /\ HasKey(req[r])
  BY Now
<1>2. PICK v : v = [req[r] EXCEPT !.pc = l]
  OBVIOUS
<1>3. v \in Request /\ v.pc = l /\ Same(req[r], v)
  BY <1>1, <1>2, WithPc
<1>4. Quiet(v) /\ HasKey(v)
  BY <1>1, <1>3 DEF Quiet, HasKey, Same
<1> QED BY <1>2, <1>3, <1>4, BecomeKeeps DEF Goto, Become

\* Marking a key keeps the health of all.
LEMMA MarkKeeps ==
    ASSUME Inv, NEW k, NEW h \in Health, Mark(k, h)
    PROVE  health' \in [Keys -> Health]
  BY DEF Inv, TypeOK, Mark

\* A transient failure of the key in hand.
LEMMA TransientKeeps ==
    ASSUME Inv, NEW r \in Reqs, Mark(req[r].key, Transient(r)), req[r].pc \in {"call", "hold", "forward"}
    PROVE  health' \in [Keys -> Health]
<1>1. req[r].key \in Keys /\ req[r].single \in BOOLEAN /\ health \in [Keys -> Health]
  BY Now DEF HasKey
<1>2. Transient(r) \in Health
  BY <1>1, TransientIsHealth DEF Transient
<1> QED BY <1>2, MarkKeeps

(***************************************************************************)
(* The steps of a request                                                   *)
(***************************************************************************)
\* An arriving request has sent nothing.
LEMMA ArriveKeeps ==
    ASSUME Inv, NEW r \in Reqs, Arrive(r)
    PROVE  Inv'
<1>1. health' \in [Keys -> Health] /\ req[r].pc = "new"
  BY DEF Arrive, Inv, TypeOK
<1>2. req[r] \in Request /\ Quiet(req[r]) /\ req[r].sent \in Seq(Keys)
  BY Now
<1>3. ASSUME NEW C \in SUBSET Keys, NEW d \in BOOLEAN, Admit(r, C, d) PROVE Inv'
  <2>1. PICK b \in BOOLEAN : b = (Cardinality(C) = 1)
    OBVIOUS
  <2>2. PICK v : v = [req[r] EXCEPT !.pc = "pick"]
    OBVIOUS
  <2>3. PICK w : w = [v EXCEPT !.cand = C]
    OBVIOUS
  <2>4. PICK x : x = [w EXCEPT !.single = b]
    OBVIOUS
  <2>5. PICK y : y = [x EXCEPT !.deg = d]
    OBVIOUS
  <2>6. v \in Request /\ v.pc = "pick" /\ Same(req[r], v)
    BY <1>2, <2>2, WithPc DEF PCs
  <2>7. w \in Request /\ w.pc = "pick" /\ Same(v, w)
    BY <2>3, <2>6, WithCand
  <2>8. x \in Request /\ x.pc = "pick" /\ Same(w, x)
    BY <2>4, <2>7, WithSingle
  <2>9. y \in Request /\ y.pc = "pick" /\ Same(x, y)
    BY <2>5, <2>8, WithDeg
  <2>10. Quiet(y) /\ HasKey(y)
    BY <1>1, <1>2, <2>6, <2>7, <2>8, <2>9 DEF Quiet, HasKey, Same
  <2>11. req' = [req EXCEPT ![r] = y]
    BY <1>3, <2>1, <2>2, <2>3, <2>4, <2>5 DEF Admit, Become
  <2> QED BY <1>1, <2>9, <2>10, <2>11, BecomeKeeps
<1>4. CASE \/ Usable(Main) # {} /\ Admit(r, Usable(Main), FALSE)
           \/ \E k \in Soonest : Admit(r, {k}, TRUE)
  <2>1. Usable(Main) \in SUBSET Keys /\ Soonest \subseteq Keys
    BY RelayAssumption DEF Usable, Soonest
  <2> QED BY <1>3, <1>4, <2>1
<1>5. CASE End(r, "refused")
  BY <1>1, <1>2, <1>5, EndKeeps DEF End, Outcomes
<1> QED BY <1>4, <1>5 DEF Arrive

\* Picking a key, or finding none.
LEMMA PickKeeps ==
    ASSUME Inv, NEW r \in Reqs, Pick(r) \/ PickNone(r)
    PROVE  Inv'
<1>1. /\ health' \in [Keys -> Health] /\ req[r].pc = "pick" /\ req[r] \in Request /\ Quiet(req[r])
      /\ req[r].sent \in Seq(Keys) /\ req[r].cand \subseteq Keys /\ req[r].tried \subseteq Keys
  BY Now DEF Pick, PickNone, Inv, TypeOK
<1>2. CASE Pick(r)
  <2>1. PICK k \in Choices(r) \cup Forced(r) :
          req' = [req EXCEPT ![r] = [req[r] EXCEPT !.pc = "call", !.key = k, !.tried = @ \cup {k}]]
    BY <1>2 DEF Pick, Become
  <2>2. k \in Keys
    BY <1>1, <2>1 DEF Choices, Forced, Usable, Pool, Untried
  <2>3. PICK v : v = [req[r] EXCEPT !.pc = "call"]
    OBVIOUS
  <2>4. PICK w : w = [v EXCEPT !.key = k]
    OBVIOUS
  <2>5. PICK x : x = [w EXCEPT !.tried = req[r].tried \cup {k}]
    OBVIOUS
  <2>6. v \in Request /\ v.pc = "call" /\ Same(req[r], v)
    BY <1>1, <2>3, WithPc DEF PCs
  <2>7. w \in Request
    BY <2>2, <2>4, <2>6 DEF Request
  <2>8. w.pc = "call" /\ w.key = k /\ w.sent = v.sent /\ w.torn = v.torn
    BY <2>4, <2>6 DEF Request
  <2>9. x \in Request /\ x.pc = "call" /\ Same(w, x)
    BY <1>1, <2>2, <2>5, <2>7, <2>8, WithTried
  <2>10. Quiet(x) /\ HasKey(x)
    BY <1>1, <2>2, <2>6, <2>8, <2>9 DEF Quiet, HasKey, Same
  <2>11. req' = [req EXCEPT ![r] = x]
    BY <1>1, <2>1, <2>3, <2>4, <2>5
  <2> QED BY <1>1, <2>9, <2>10, <2>11, BecomeKeeps
<1>3. CASE PickNone(r)
  <2>1. CASE Goto(r, "round")
    BY <1>1, <2>1, GotoKeeps DEF PCs
  <2>2. CASE End(r, "exhausted")
    BY <1>1, <2>2, EndKeeps DEF End, Outcomes
  <2> QED BY <1>3, <2>1, <2>2 DEF PickNone
<1> QED BY <1>2, <1>3

\* After an exception a client that saw a payload is marked as torn.
LEMMA RaisedKeeps ==
    ASSUME Inv, NEW r \in Reqs, NEW t \in BOOLEAN, Raised(r, t), req[r].pc \in {"call", "hold", "forward"},
           req[r].pc = "forward" => t
    PROVE  Inv'
<1>1. /\ req[r] \in Request /\ Quiet(req[r]) /\ req[r].torn \in BOOLEAN
      /\ req[r].exc \in {"none", "same", "mixed"}
  BY Now
<1>2. health' \in [Keys -> Health]
  BY TransientKeeps DEF Raised
<1>3. PICK e \in {"same", "mixed"} :
        req' = [req EXCEPT ![r] = [req[r] EXCEPT !.pc = "pick", !.exc = IF IsStream(r) THEN e ELSE @,
                                                 !.held = FALSE, !.torn = @ \/ t]]
  BY DEF Raised, Become
<1>4. PICK f : f = IF IsStream(r) THEN e ELSE req[r].exc
  OBVIOUS
<1>5. f \in {"none", "same", "mixed"}
  BY <1>1, <1>3, <1>4
<1>6. PICK b \in BOOLEAN : b = (req[r].torn \/ t)
  OBVIOUS
<1>7. PICK v : v = [req[r] EXCEPT !.pc = "pick"]
  OBVIOUS
<1>8. PICK w : w = [v EXCEPT !.exc = f]
  OBVIOUS
<1>9. PICK x : x = [w EXCEPT !.held = FALSE]
  OBVIOUS
<1>10. PICK y : y = [x EXCEPT !.torn = b]
  OBVIOUS
<1>11. v \in Request /\ v.pc = "pick" /\ Same(req[r], v)
  BY <1>1, <1>7, WithPc DEF PCs
<1>12. w \in Request /\ w.pc = "pick" /\ Same(v, w)
  BY <1>5, <1>8, <1>11, WithExc
<1>13. x \in Request /\ x.pc = "pick" /\ Same(w, x)
  BY <1>9, <1>12, WithHeld
<1>14. y \in Request
  BY <1>6, <1>10, <1>13 DEF Request
<1>15. y.pc = "pick" /\ y.sent = x.sent /\ y.torn = b
  BY <1>10, <1>13 DEF Request
<1>16. Quiet(y)
  <2>1. y.sent = req[r].sent
    BY <1>11, <1>12, <1>13, <1>15 DEF Same
  <2>2. ~y.torn => ~req[r].torn /\ req[r].pc # "forward"
    BY <1>6, <1>15
  <2> QED BY <1>1, <2>1, <2>2 DEF Quiet
<1>17. HasKey(y)
  BY <1>15 DEF HasKey
<1>18. req' = [req EXCEPT ![r] = y]
  BY <1>1, <1>3, <1>4, <1>6, <1>7, <1>8, <1>9, <1>10 DEF Request
<1> QED BY <1>2, <1>14, <1>16, <1>17, <1>18, BecomeKeeps

\* The answers to a call.
LEMMA CallKeeps ==
    ASSUME Inv, NEW r \in Reqs, Call(r)
    PROVE  Inv'
<1>1. /\ req[r] \in Request /\ Quiet(req[r]) /\ HasKey(req[r]) /\ req[r].sent \in Seq(Keys)
      /\ req[r].single \in BOOLEAN /\ health \in [Keys -> Health]
  BY Now
<1>2. req[r].pc = "call"
  BY DEF Call, CallSkipped, CallRaises, CallAborted, CallFails, CallRefused, CallDowngrades, Answer, OpenStream
<1>3. req[r].key \in Keys
  BY <1>1, <1>2 DEF HasKey
<1>4. health[req[r].key] \in Health
  BY <1>1, <1>3
<1>5. CASE CallSkipped(r) \/ OpenStream(r)
  BY <1>1, <1>2, <1>5, GotoKeeps DEF CallSkipped, OpenStream, PCs
<1>6. CASE CallRaises(r)
  BY <1>2, <1>6, RaisedKeeps DEF CallRaises
<1>7. CASE CallAborted(r) \/ CallRefused(r)
  BY <1>1, <1>7, EndKeeps DEF CallAborted, CallRefused, End, Outcomes
<1>8. CASE CallFails(r)
  <2>1. PICK h \in Classified(health[req[r].key], req[r].single) : Mark(req[r].key, h)
    BY <1>8 DEF CallFails
  <2>2. health' \in [Keys -> Health]
    BY <1>1, <1>4, <2>1, ClassifiedIsHealth, MarkKeeps
  <2> QED BY <1>2, <1>8, <2>2, GotoKeeps DEF CallFails, PCs
<1>9. CASE CallDowngrades(r)
  <2>1. PICK v : v = [req[r] EXCEPT !.pc = "pick"]
    OBVIOUS
  <2>2. PICK w : w = [v EXCEPT !.over = TRUE]
    OBVIOUS
  <2>3. v \in Request /\ v.pc = "pick" /\ Same(req[r], v)
    BY <1>1, <2>1, WithPc DEF PCs
  <2>4. w \in Request /\ w.pc = "pick" /\ Same(v, w)
    BY <2>2, <2>3, WithOver
  <2>5. Quiet(w) /\ HasKey(w)
    BY <1>1, <1>2, <2>3, <2>4 DEF Quiet, HasKey, Same
  <2>6. req' = [req EXCEPT ![r] = w] /\ health' = health
    BY <1>9, <2>1, <2>2 DEF CallDowngrades, Become
  <2> QED BY <1>1, <2>4, <2>5, <2>6, BecomeKeeps
<1>10. CASE Answer(r)
  <2>1. PICK h \in Served(health[req[r].key]) : Mark(req[r].key, h)
    BY <1>10 DEF Answer
  <2>2. health' \in [Keys -> Health]
    BY <1>4, <2>1, ServedIsHealth, MarkKeeps
  <2> QED BY <1>1, <1>10, <2>2, EndKeeps DEF Answer, End, Outcomes
<1> QED BY <1>5, <1>6, <1>7, <1>8, <1>9, <1>10 DEF Call

\* The body of an answer, held back until its first payload.
LEMMA BodyKeeps ==
    ASSUME Inv, NEW r \in Reqs, Body(r)
    PROVE  Inv'
<1>1. /\ req[r] \in Request /\ Quiet(req[r]) /\ HasKey(req[r]) /\ req[r].sent \in Seq(Keys)
      /\ req[r].pre \in 0..MaxPrecommit /\ health \in [Keys -> Health]
  BY Now
<1>2. req[r].pc \in {"hold", "forward"}
  BY DEF Body, Hold, Precommit, Payload, WriteFails, Complete, Truncated, ReadRaises
<1>3. req[r].key \in Keys
  BY <1>1, <1>2 DEF HasKey
<1>4. MarkSuccess(health[req[r].key]) \in Health
  BY <1>1, <1>3, SuccessIsHealth
<1>5. CASE Hold(r)
  <2>1. PICK w : w = [req[r] EXCEPT !.held = TRUE]
    OBVIOUS
  <2>2. w \in Request /\ w.pc = req[r].pc /\ Same(req[r], w)
    BY <1>1, <2>1, WithHeld
  <2>3. Quiet(w) /\ HasKey(w)
    BY <1>1, <2>2 DEF Quiet, HasKey, Same
  <2>4. req' = [req EXCEPT ![r] = w] /\ health' = health
    BY <1>5, <2>1 DEF Hold, Become
  <2> QED BY <1>1, <2>2, <2>3, <2>4, BecomeKeeps
<1>6. CASE Precommit(r)
  <2>1. health' \in [Keys -> Health]
    BY <1>2, <1>6, TransientKeeps DEF Precommit
  <2>2. CASE End(r, "rejected")
    BY <1>1, <2>1, <2>2, EndKeeps DEF End, Outcomes
  <2>3. CASE /\ ~(req[r].pre + 1 >= MaxPrecommit)
             /\ Become(r, [req[r] EXCEPT !.pc = "pick", !.pre = @ + 1, !.held = FALSE])
    <3>1. req[r].pre + 1 \in 0..MaxPrecommit
      BY <1>1, <2>3, RelayAssumption
    <3>2. PICK v : v = [req[r] EXCEPT !.pc = "pick"]
      OBVIOUS
    <3>3. PICK w : w = [v EXCEPT !.pre = req[r].pre + 1]
      OBVIOUS
    <3>4. PICK x : x = [w EXCEPT !.held = FALSE]
      OBVIOUS
    <3>5. v \in Request /\ v.pc = "pick" /\ Same(req[r], v)
      BY <1>1, <3>2, WithPc DEF PCs
    <3>6. w \in Request /\ w.pc = "pick" /\ Same(v, w)
      BY <3>1, <3>3, <3>5, WithPre
    <3>7. x \in Request /\ x.pc = "pick" /\ Same(w, x)
      BY <3>4, <3>6, WithHeld
    <3>8. req[r].pc = "hold"
      BY <1>6 DEF Precommit
    <3>9. Quiet(x) /\ HasKey(x)
      BY <1>1, <3>5, <3>6, <3>7, <3>8 DEF Quiet, HasKey, Same
    <3>10. req' = [req EXCEPT ![r] = x]
      BY <2>3, <3>2, <3>3, <3>4 DEF Become
    <3> QED BY <2>1, <3>7, <3>9, <3>10, BecomeKeeps
  <2> QED BY <1>6, <2>2, <2>3 DEF Precommit
<1>7. CASE Payload(r)
  <2>1. Append(req[r].sent, req[r].key) \in Seq(Keys)
    BY <1>1, <1>3
  <2>2. PICK v : v = [req[r] EXCEPT !.pc = "forward"]
    OBVIOUS
  <2>3. PICK w : w = [v EXCEPT !.held = FALSE]
    OBVIOUS
  <2>4. PICK s : s = Append(req[r].sent, req[r].key)
    OBVIOUS
  <2>5. PICK x : x = [w EXCEPT !.sent = s]
    OBVIOUS
  <2>6. v \in Request /\ v.pc = "forward" /\ Same(req[r], v)
    BY <1>1, <2>2, WithPc DEF PCs
  <2>7. w \in Request /\ w.pc = "forward" /\ Same(v, w)
    BY <2>3, <2>6, WithHeld
  <2>8. x \in Request
    BY <2>1, <2>4, <2>5, <2>7 DEF Request
  <2>9. x.pc = "forward" /\ x.key = w.key
    BY <2>5, <2>7 DEF Request
  <2>10. Quiet(x) /\ HasKey(x)
    BY <1>3, <2>6, <2>7, <2>9 DEF Quiet, HasKey, Same
  <2>11. req' = [req EXCEPT ![r] = x] /\ health' = health
    BY <1>7, <2>2, <2>3, <2>4, <2>5 DEF Payload, Become
  <2> QED BY <1>1, <2>8, <2>10, <2>11, BecomeKeeps
<1>8. CASE WriteFails(r)
  <2>1. health' \in [Keys -> Health]
    BY <1>1, <1>2, <1>4, <1>8, TransientKeeps, MarkKeeps DEF WriteFails
  <2> QED BY <1>1, <1>8, <2>1, EndKeeps DEF WriteFails, End, Outcomes
<1>9. CASE Complete(r)
  <2>1. health' \in [Keys -> Health]
    BY <1>4, <1>9, MarkKeeps DEF Complete
  <2>2. PICK s : s = IF req[r].pc = "hold" THEN Append(req[r].sent, req[r].key) ELSE req[r].sent
    OBVIOUS
  <2>3. s \in Seq(Keys)
    BY <1>1, <1>3, <2>2
  <2>4. EndWith(r, "ok", s)
    BY <1>9, <2>2 DEF Complete
  <2> QED BY <2>1, <2>3, <2>4, EndKeeps DEF Outcomes
<1>10. CASE Truncated(r)
  <2>1. health' \in [Keys -> Health]
    BY <1>2, <1>10, TransientKeeps DEF Truncated
  <2> QED BY <1>1, <1>10, <2>1, EndKeeps DEF Truncated, End, Outcomes
<1>11. CASE ReadRaises(r)
  <2>1. PICK t \in BOOLEAN : t = (req[r].pc = "forward")
    OBVIOUS
  <2>2. Raised(r, t)
    BY <1>11, <2>1 DEF ReadRaises
  <2> QED BY <1>2, <2>1, <2>2, RaisedKeeps
<1> QED BY <1>5, <1>6, <1>7, <1>8, <1>9, <1>10, <1>11 DEF Body

\* A new round keeps what was sent, that is, nothing.
LEMMA NewRoundIs ==
    ASSUME NEW v \in Request, NEW C \in SUBSET Keys, NEW w, w = NewRound(v, C)
    PROVE  w \in Request /\ w.pc = "pick" /\ Same(v, w)
<1>1. PICK a : a = [v EXCEPT !.pc = "pick"]
  OBVIOUS
<1>2. PICK b : b = [a EXCEPT !.cand = C]
  OBVIOUS
<1>3. PICK c : c = [b EXCEPT !.tried = {}]
  OBVIOUS
<1>4. PICK d : d = [c EXCEPT !.exc = "none"]
  OBVIOUS
<1>5. PICK e : e = [d EXCEPT !.fb = TRUE]
  OBVIOUS
<1>6. a \in Request /\ a.pc = "pick" /\ Same(v, a)
  BY <1>1, WithPc DEF PCs
<1>7. b \in Request /\ b.pc = "pick" /\ Same(a, b)
  BY <1>2, <1>6, WithCand
<1>8. c \in Request /\ c.pc = "pick" /\ Same(b, c)
  BY <1>3, <1>7, WithTried
<1>9. d \in Request /\ d.pc = "pick" /\ Same(c, d)
  BY <1>4, <1>8, WithExc
<1>10. e \in Request /\ e.pc = "pick" /\ Same(d, e)
  BY <1>5, <1>9, WithFb
<1>11. w = e
  BY <1>1, <1>2, <1>3, <1>4, <1>5 DEF NewRound
<1> QED BY <1>6, <1>7, <1>8, <1>9, <1>10, <1>11 DEF Same

\* The end of a round: the fallback group, the sleep, the error.
LEMMA RoundKeeps ==
    ASSUME Inv, NEW r \in Reqs, RoundFallback(r) \/ RoundFails(r) \/ Wake(r)
    PROVE  Inv'
<1>1. /\ req[r] \in Request /\ Quiet(req[r]) /\ req[r].sent \in Seq(Keys) /\ req[r].cand \subseteq Keys
      /\ health \in [Keys -> Health]
  BY Now
<1>2. req[r].pc \in {"round", "nap"} /\ health' = health
  BY DEF RoundFallback, RoundFails, Wake
<1>3. CASE RoundFallback(r)
  <2>1. FallbackKeys(r) \in SUBSET Keys
    BY RelayAssumption DEF FallbackKeys, Usable
  <2>2. PICK w : w = NewRound(req[r], FallbackKeys(r))
    OBVIOUS
  <2>3. w \in Request /\ w.pc = "pick" /\ Same(req[r], w)
    BY <1>1, <2>1, <2>2, NewRoundIs
  <2>4. Quiet(w) /\ HasKey(w)
    BY <1>1, <1>2, <2>3 DEF Quiet, HasKey, Same
  <2>5. req' = [req EXCEPT ![r] = w]
    BY <1>3, <2>2 DEF RoundFallback, Become
  <2> QED BY <1>1, <1>2, <2>3, <2>4, <2>5, BecomeKeeps
<1>4. ASSUME NEW o \in Outcomes, End(r, o) PROVE Inv'
  BY <1>1, <1>2, <1>4, EndKeeps DEF End
<1>5. ASSUME NEW n \in Nat,
             \/ Become(r, [NewRound(req[r], req[r].cand) EXCEPT !.pc = "nap", !.nap = n, !.waited = TRUE])
             \/ Become(r, [NewRound(req[r], req[r].cand) EXCEPT !.pc = "nap", !.nap = n])
      PROVE  Inv'
  <2>1. PICK w : w = NewRound(req[r], req[r].cand)
    OBVIOUS
  <2>2. PICK x : x = [w EXCEPT !.pc = "nap"]
    OBVIOUS
  <2>3. PICK y : y = [x EXCEPT !.nap = n]
    OBVIOUS
  <2>4. PICK z : z = [y EXCEPT !.waited = TRUE]
    OBVIOUS
  <2>5. w \in Request /\ Same(req[r], w)
    BY <1>1, <2>1, NewRoundIs
  <2>6. x \in Request /\ x.pc = "nap" /\ Same(w, x)
    BY <2>2, <2>5, WithPc DEF PCs
  <2>7. y \in Request /\ y.pc = "nap" /\ Same(x, y)
    BY <2>3, <2>6, WithNap
  <2>8. z \in Request /\ z.pc = "nap" /\ Same(y, z)
    BY <2>4, <2>7, WithWaited
  <2>9. Quiet(y) /\ HasKey(y)
    BY <1>1, <1>2, <2>5, <2>6, <2>7 DEF Quiet, HasKey, Same
  <2>10. Quiet(z) /\ HasKey(z)
    BY <2>7, <2>8, <2>9 DEF Quiet, HasKey, Same
  <2>11. req' = [req EXCEPT ![r] = y] \/ req' = [req EXCEPT ![r] = z]
    BY <1>5, <2>1, <2>2, <2>3, <2>4 DEF Become
  <2> QED BY <1>1, <1>2, <2>7, <2>8, <2>9, <2>10, <2>11, BecomeKeeps
<1>6. CASE RoundFails(r)
  <2>1. CASE GivesUp(r) \notin {"none", "cooling"} /\ End(r, GivesUp(r))
    <3>1. GivesUp(r) \in Outcomes
      BY DEF GivesUp, Outcomes
    <3> QED BY <1>4, <2>1, <3>1
  <2>2. ASSUME NEW k \in req[r].cand,
               IF MayWait(r, health[k].cool)
               THEN Become(r, [NewRound(req[r], req[r].cand) EXCEPT
                                 !.pc = "nap", !.nap = health[k].cool, !.waited = TRUE])
               ELSE End(r, "cooling")
        PROVE  Inv'
    <3>1. health[k].cool \in Nat
      BY <1>1 DEF Health
    <3>2. CASE End(r, "cooling")
      BY <1>4, <3>2 DEF Outcomes
    <3> QED BY <1>5, <2>2, <3>1, <3>2
  <2>3. CASE Become(r, [NewRound(req[r], req[r].cand) EXCEPT !.pc = "nap", !.nap = 1])
    BY <1>5, <2>3
  <2> QED BY <1>6, <2>1, <2>2, <2>3 DEF RoundFails
<1>7. CASE Wake(r)
  BY <1>1, <1>2, <1>7, GotoKeeps DEF Wake, PCs
<1> QED BY <1>3, <1>6, <1>7

(***************************************************************************)
(* The snapshot and the clock                                               *)
(***************************************************************************)
\* A cooldown that is over makes its key available.
LEMMA NormalizeKeeps ==
    ASSUME Inv, NEW k \in Keys, Normalize(k)
    PROVE  Inv'
<1>1. PICK h : h = [health[k] EXCEPT !.status = "healthy"]
  OBVIOUS
<1>2. PICK g : g = health[k]
  OBVIOUS
<1>3. g \in Health
  BY <1>2 DEF Inv, TypeOK
<1>4. h \in Health
  BY <1>1, <1>2, <1>3 DEF Health
<1>5. health' \in [Keys -> Health] /\ req' = req
  BY <1>1, <1>4, MarkKeeps DEF Normalize
<1> QED BY <1>5 DEF Inv, TypeOK, Sealed, Keyed, Quiet, HasKey

\* Time passes for keys, sleeps and ages.
LEMMA TickKeeps ==
    ASSUME Inv, Tick
    PROVE  Inv'
<1>1. ASSUME NEW k \in Keys PROVE [health[k] EXCEPT !.cool = Dec(@)] \in Health
  <2>1. PICK g : g = health[k]
    OBVIOUS
  <2>2. g \in Health
    BY <2>1 DEF Inv, TypeOK
  <2>3. Dec(g.cool) \in Nat
    BY <2>2 DEF Health, Dec
  <2>4. [g EXCEPT !.cool = Dec(g.cool)] \in Health
    BY <2>2, <2>3 DEF Health
  <2> QED BY <2>1, <2>4
<1>2. health' \in [Keys -> Health]
  BY <1>1 DEF Tick
<1>3. ASSUME NEW r \in Reqs
      PROVE  req'[r] \in Request /\ Quiet(req'[r]) /\ HasKey(req'[r])
  <2>1. req[r] \in Request /\ Quiet(req[r]) /\ HasKey(req[r])
    BY Now
  <2>2. PICK v : v = req[r]
    OBVIOUS
  <2>3. PICK w : w = [v EXCEPT !.age = Lower(v.age + 1, Deadline)]
    OBVIOUS
  <2>4. PICK x : x = [w EXCEPT !.nap = Dec(v.nap)]
    OBVIOUS
  <2>5. v.age \in 0..Deadline /\ v.nap \in Nat
    BY <2>1, <2>2 DEF Request
  <2>6. Lower(v.age + 1, Deadline) \in 0..Deadline /\ Dec(v.nap) \in Nat
    BY <2>5, RelayAssumption DEF Lower, Dec
  <2>7. w \in Request /\ w.pc = v.pc /\ Same(v, w)
    BY <2>1, <2>2, <2>3, <2>6, WithAge
  <2>8. x \in Request /\ x.pc = w.pc /\ Same(w, x)
    BY <2>4, <2>6, <2>7, WithNap
  <2>9. Quiet(x) /\ HasKey(x)
    BY <2>1, <2>2, <2>7, <2>8 DEF Quiet, HasKey, Same
  <2>10. req'[r] = v \/ req'[r] = [v EXCEPT !.age = Lower(@ + 1, Deadline), !.nap = Dec(@)]
    BY <2>2 DEF Tick
  <2>11. [v EXCEPT !.age = Lower(@ + 1, Deadline), !.nap = Dec(@)] = x
    BY <2>1, <2>2, <2>3, <2>4
  <2> QED BY <2>1, <2>2, <2>8, <2>9, <2>10, <2>11
<1>4. req' \in [Reqs -> Request]
  BY <1>3 DEF Tick
<1> QED BY <1>2, <1>3, <1>4 DEF Inv, TypeOK, Sealed, Keyed, Quiet, HasKey

(***************************************************************************)
(* The theorems                                                             *)
(***************************************************************************)
\* Before any request the invariant holds.
LEMMA InitHolds == Init => Inv
<1> SUFFICES ASSUME Init PROVE Inv
  OBVIOUS
<1>1. health \in [Keys -> Health]
  BY RelayAssumption DEF Init
<1>2. Blank \in Request
  <2>1. "new" \in PCs /\ "none" \in Outcomes /\ <<>> \in Seq(Keys)
    BY DEF PCs, Outcomes
  <2> QED BY <2>1, BlankIs, Zenon DEF Blank
<1>3. Quiet(Blank) /\ HasKey(Blank)
  BY DEF Blank, Quiet, HasKey
<1>4. \A r \in Reqs : req[r] = Blank
  BY DEF Init
<1>5. req \in [Reqs -> Request]
  BY <1>2 DEF Init
<1> QED BY <1>1, <1>3, <1>4, <1>5 DEF Inv, TypeOK, Sealed, Keyed

\* Every step keeps the invariant.
LEMMA NextKeepsInv == Inv /\ [Next]_vars => Inv'
<1> SUFFICES ASSUME Inv, [Next]_vars PROVE Inv'
  OBVIOUS
<1>1. ASSUME NEW r \in Reqs, Step(r) PROVE Inv'
  BY <1>1, PickKeeps, CallKeeps, BodyKeeps, RoundKeeps DEF Step
<1>2. ASSUME NEW r \in Reqs, Arrive(r) PROVE Inv'
  BY <1>2, ArriveKeeps
<1>3. ASSUME NEW k \in Keys, Normalize(k) PROVE Inv'
  BY <1>3, NormalizeKeeps
<1>4. CASE Tick
  BY <1>4, TickKeeps
<1>5. CASE UNCHANGED vars
  BY <1>5 DEF vars, Inv, TypeOK, Sealed, Keyed, Quiet, HasKey
<1> QED BY <1>1, <1>2, <1>3, <1>4, <1>5 DEF Next

\* The inductive invariant holds in every reachable state.
LEMMA InvAlways == Spec => []Inv
  BY InitHolds, NextKeepsInv, PTL DEF Spec

\* The locals of every loop and the health of every key stay within their
\* types: in particular no chain of failures drives a backoff level past the
\* last step, or a cooldown below zero, and no retry counter past its limit.
THEOREM TypesAlways == Spec => []TypeOK
<1>1. Inv => TypeOK
  BY DEF Inv
<1> QED BY <1>1, InvAlways, PTL

\* _stream_proxy sends nothing of an attempt that failed before its first
\* payload, whatever the attempts, the rounds and the other requests did.
THEOREM HeldBytesStayHeldAlways == Spec => []HeldBytesStayHeld
<1>1. Inv => HeldBytesStayHeld
  BY DEF Inv, Sealed, Quiet, HeldBytesStayHeld
<1> QED BY <1>1, InvAlways, PTL

(***************************************************************************)
(* StreamA2O: the tool calls of a translated stream stay apart               *)
(***************************************************************************)
\* The finish reasons; EndOfBody passes tool_use on as it came.
Finishes == {"stop", "tool_calls", "tool_use"}

OpenAiChunks ==
    {<<"role">>, <<"text">>, <<"[DONE]">>} \cup ({"finish"} \X Finishes) \cup ({"tool"} \X Nat \X Blocks)

IsCall(c) == c[1] = "tool"

A2OTyped ==
    /\ tools \in [Blocks -> Int] /\ count \in Nat /\ over \in BOOLEAN
    /\ reason \in {"none", "tool_use"}
    /\ heard \in Seq(A2O!Events) /\ told \in Seq(OpenAiChunks)

\* Tool indices are handed out in order, to one block each.
Numbered ==
    /\ \A b \in Blocks : tools[b] \in -1..(count - 1)
    /\ \A b, c \in Blocks : tools[b] = tools[c] /\ tools[b] # -1 => b = c

\* A tool index that was used belongs to the block of its chunks.
Owned ==
    \A p \in 1..Len(told) : IsCall(told[p]) =>
        /\ told[p][2] \in 0..(count - 1) /\ told[p][3] \in Blocks
        /\ \A b \in Blocks : tools[b] = told[p][2] => b = told[p][3]

Apart ==
    \A p, q \in 1..Len(told) : IsCall(told[p]) /\ IsCall(told[q]) /\ told[p][2] = told[q][2] => told[p][3] = told[q][3]

Announced(b) == \E i \in 1..Len(heard) : heard[i] = [kind |-> "tool_use", block |-> b]

\* A block that was never announced keeps the index of its first arguments.
Steady ==
    \A b \in Blocks : ~Announced(b) =>
        \A p \in 1..Len(told) : IsCall(told[p]) /\ told[p][3] = b => told[p][2] = tools[b]

CallsApart == Numbered /\ Owned /\ Apart /\ Steady

Enders == {"message_stop", "error"}

\* A translator that is over has heard an end, or has seen the end of the body.
EndHeard ==
    /\ wire = "ended" => over
    /\ over /\ wire # "ended" => phase # "INIT" /\ \E i \in 1..Len(heard) : heard[i].kind \in Enders

DoneIsLast ==
    /\ \A p \in 1..Len(told) : told[p] = <<"[DONE]">> => p = Len(told)
    /\ over <=> told # <<>> /\ told[Len(told)] = <<"[DONE]">>

A2OInv == A2OTyped /\ CallsApart /\ EndHeard /\ (A2O!Ordinary => DoneIsLast)

\* A chunk of a tool call names an index and a block.
LEMMA CallIs ==
    ASSUME NEW c \in OpenAiChunks, IsCall(c)
    PROVE  \E n \in Nat, b \in Blocks : c = <<"tool", n, b>>
  <1>1. c \notin {<<"role">>, <<"text">>, <<"[DONE]">>}
    BY DEF IsCall
  <1>2. c \notin {"finish"} \X Finishes
    BY DEF IsCall
  <1> QED
    BY <1>1, <1>2 DEF OpenAiChunks

\* Two elements are one and another one.
LEMMA OneAndOne ==
    ASSUME NEW S, NEW a \in S, NEW b \in S
    PROVE  <<a>> \o <<b>> = <<a, b>>
  <1>1. <<a>> \in Seq(S)
    OBVIOUS
  <1>2. <<a, b>> = Append(<<a>>, b)
    OBVIOUS
  <1> QED
    BY <1>1, <1>2, AppendIsConcat

\* Concatenation with two elements, and with three, one after the other.
LEMMA TwoMore ==
    ASSUME NEW S, NEW s \in Seq(S), NEW a \in S, NEW b \in S
    PROVE  s \o <<a, b>> = Append(Append(s, a), b)
  <1>1. <<a>> \in Seq(S) /\ <<b>> \in Seq(S)
    OBVIOUS
  <1>2. <<a, b>> = <<a>> \o <<b>>
    BY OneAndOne
  <1>3. s \o (<<a>> \o <<b>>) = (s \o <<a>>) \o <<b>>
    BY <1>1, ConcatAssociative
  <1>4. s \o <<a>> = Append(s, a)
    BY AppendIsConcat
  <1>5. Append(s, a) \in Seq(S)
    BY AppendProperties
  <1>6. Append(s, a) \o <<b>> = Append(Append(s, a), b)
    BY <1>5, AppendIsConcat
  <1> QED
    BY <1>2, <1>3, <1>4, <1>6, Zenon

\* The same for three.
LEMMA ThreeMore ==
    ASSUME NEW S, NEW s \in Seq(S), NEW a \in S, NEW b \in S, NEW c \in S
    PROVE  s \o <<a, b, c>> = Append(Append(Append(s, a), b), c)
  <1>1. <<a>> \in Seq(S) /\ <<b, c>> \in Seq(S)
    OBVIOUS
  <1>2. <<a, b, c>> = <<a>> \o <<b, c>>
    OBVIOUS
  <1>3. s \o (<<a>> \o <<b, c>>) = (s \o <<a>>) \o <<b, c>>
    BY <1>1, ConcatAssociative
  <1>4. s \o <<a>> = Append(s, a)
    BY AppendIsConcat
  <1>5. Append(s, a) \in Seq(S)
    BY AppendProperties
  <1>6. Append(s, a) \o <<b, c>> = Append(Append(Append(s, a), b), c)
    BY <1>5, TwoMore
  <1> QED
    BY <1>2, <1>3, <1>4, <1>6, Zenon

\* t is s with c behind it.
Grown(s, t, c) ==
    /\ Len(s) \in Nat /\ Len(t) = Len(s) + 1
    /\ \A p \in 1..Len(s) : t[p] = s[p]
    /\ t[Len(s) + 1] = c

\* Append is such a sequence.
LEMMA AppendGrows ==
    ASSUME NEW S, NEW s \in Seq(S), NEW c \in S
    PROVE  Grown(s, Append(s, c), c) /\ Append(s, c) \in Seq(S) /\ Append(s, c) # <<>>
  BY AppendProperties DEF Grown

\* Where an element of the longer sequence comes from.
LEMMA GrownAt ==
    ASSUME NEW s, NEW t, NEW c, Grown(s, t, c), NEW p \in 1..Len(t)
    PROVE  (p \in 1..Len(s) /\ t[p] = s[p]) \/ (p = Len(s) + 1 /\ t[p] = c)
  BY DEF Grown

\* What one more event makes of the events heard.
LEMMA OneHeard ==
    ASSUME heard \in Seq(A2O!Events), NEW e \in A2O!Events, heard' = Append(heard, e)
    PROVE  /\ heard' \in Seq(A2O!Events) /\ Len(heard') = Len(heard) + 1 /\ Len(heard) \in Nat
           /\ \A i \in 1..Len(heard) : heard'[i] = heard[i]
           /\ heard'[Len(heard) + 1] = e
           /\ \A b \in Blocks : Announced(b) => Announced(b)'
           /\ A2O!Ordinary' => A2O!Ordinary
           /\ A2O!Ordinary' /\ (\E i \in 1..Len(heard) : heard[i].kind \in Enders)
                => e.kind \in {"message_stop", "error", "message_delta", "message_start", "noise"}
  <1>1. /\ heard' \in Seq(A2O!Events) /\ Len(heard') = Len(heard) + 1 /\ Len(heard) \in Nat
        /\ \A i \in 1..Len(heard) : heard'[i] = heard[i]
        /\ heard'[Len(heard) + 1] = e
    BY AppendProperties
  <1>2. ASSUME NEW b \in Blocks, Announced(b) PROVE Announced(b)'
    BY <1>1, <1>2 DEF Announced
  <1>3. A2O!Ordinary' => A2O!Ordinary
    BY <1>1 DEF A2O!Ordinary
  <1>4. ASSUME A2O!Ordinary', NEW i \in 1..Len(heard), heard[i].kind \in Enders
        PROVE  e.kind \in {"message_stop", "error", "message_delta", "message_start", "noise"}
    <2>1. i \in 1..Len(heard') /\ Len(heard) + 1 \in 1..Len(heard') /\ i < Len(heard) + 1
      BY <1>1
    <2>2. heard'[i].kind \in {"message_stop", "error"}
      BY <1>1, <1>4 DEF Enders
    <2>3. heard'[Len(heard) + 1].kind \in {"message_stop", "error", "message_delta", "message_start", "noise"}
      BY <1>4, <2>1, <2>2 DEF A2O!Ordinary
    <2> QED
      BY <1>1, <2>3
  <1> QED
    BY <1>1, <1>2, <1>3, <1>4

\* Chunks that belong to no call leave the calls as they are.
LEMMA PlainKeepsApart ==
    ASSUME CallsApart, UNCHANGED <<tools, count>>,
           \A p \in 1..Len(told') : IsCall(told'[p]) => p \in 1..Len(told) /\ told'[p] = told[p],
           \A b \in Blocks : Announced(b) => Announced(b)'
    PROVE  CallsApart'
  <1>1. Numbered'
    BY DEF CallsApart, Numbered
  <1>2. Owned'
    BY DEF CallsApart, Owned, IsCall
  <1>3. Apart'
    BY DEF CallsApart, Apart, IsCall
  <1>4. Steady'
    BY DEF CallsApart, Steady, IsCall
  <1> QED
    BY <1>1, <1>2, <1>3, <1>4 DEF CallsApart

\* A chunk of a call: with a new index, or with the one its block has.
LEMMA CallKeepsApart ==
    ASSUME A2OTyped, CallsApart, NEW b \in Blocks, NEW n \in Nat,
           n = count \/ n = tools[b],
           told' \in Seq(OpenAiChunks), Grown(told, told', <<"tool", n, b>>), tools' = [tools EXCEPT ![b] = n],
           count' = IF n = count THEN count + 1 ELSE count,
           \A c \in Blocks : Announced(c) => Announced(c)',
           Announced(b)' \/ tools[b] \in {-1, n}
    PROVE  CallsApart'
  <1> DEFINE fresh == <<"tool", n, b>>
  <1>1. fresh \in OpenAiChunks /\ fresh[1] = "tool" /\ fresh[2] = n /\ fresh[3] = b
    BY DEF OpenAiChunks
  <1>0. /\ told \in Seq(OpenAiChunks) /\ Grown(told, told', fresh) /\ Len(told) \in Nat
        /\ tools \in [Blocks -> Int] /\ count \in Nat
        /\ Numbered /\ Owned /\ Apart /\ Steady
    BY DEF A2OTyped, CallsApart
  <1> HIDE DEF fresh
  <1>2. /\ told' \in Seq(OpenAiChunks) /\ Len(told') = Len(told) + 1 /\ Len(told) \in Nat
        /\ \A p \in 1..Len(told') : (p \in 1..Len(told) /\ told'[p] = told[p]) \/ (p = Len(told) + 1 /\ told'[p] = fresh)
    BY <1>0, GrownAt DEF Grown
  <1>3. n \in 0..(count' - 1) /\ count' \in Nat /\ count <= count' /\ tools' \in [Blocks -> Int]
        /\ (\A c \in Blocks : tools'[c] = IF c = b THEN n ELSE tools[c])
    BY <1>0 DEF Numbered
  <1>4. \A c \in Blocks : tools[c] = n => c = b
    BY <1>0 DEF Numbered
  <1>5. Numbered'
    BY <1>0, <1>3, <1>4 DEF Numbered
  <1>6. \A p \in 1..Len(told) : IsCall(told[p]) /\ told[p][2] = n => told[p][3] = b
    BY <1>0 DEF Owned
  <1>7. Owned'
    <2> SUFFICES ASSUME NEW p \in 1..Len(told'), IsCall(told'[p])
                 PROVE  /\ told'[p][2] \in 0..(count' - 1) /\ told'[p][3] \in Blocks
                        /\ \A c \in Blocks : tools'[c] = told'[p][2] => c = told'[p][3]
      BY DEF Owned, IsCall
    <2>1. CASE p <= Len(told)
      <3>1. p \in 1..Len(told) /\ told'[p] = told[p]
        BY <1>2, <2>1
      <3>2. /\ told[p][2] \in 0..(count - 1) /\ told[p][3] \in Blocks
            /\ \A c \in Blocks : tools[c] = told[p][2] => c = told[p][3]
        BY <1>0, <3>1 DEF Owned, IsCall
      <3> QED
        BY <1>3, <1>6, <3>1, <3>2, SMTT(30) DEF IsCall
    <2>2. CASE ~(p <= Len(told))
      BY <1>1, <1>2, <1>3, <1>4, <2>2
    <2> QED
      BY <2>1, <2>2
  <1>8. Apart'
    <2> SUFFICES ASSUME NEW p \in 1..Len(told'), NEW q \in 1..Len(told'),
                        IsCall(told'[p]), IsCall(told'[q]), told'[p][2] = told'[q][2]
                 PROVE  told'[p][3] = told'[q][3]
      BY DEF Apart, IsCall
    <2>1. /\ (p \in 1..Len(told) /\ told'[p] = told[p]) \/ told'[p] = fresh
          /\ (q \in 1..Len(told) /\ told'[q] = told[q]) \/ told'[q] = fresh
      BY <1>2
    <2> QED
      BY <1>0, <1>1, <1>6, <2>1, SMTT(30) DEF Apart, IsCall
  <1>9. Steady'
    <2> SUFFICES ASSUME NEW c \in Blocks, ~Announced(c)', NEW p \in 1..Len(told'), IsCall(told'[p]), told'[p][3] = c
                 PROVE  told'[p][2] = tools'[c]
      BY DEF Steady, IsCall
    <2>1. CASE p <= Len(told)
      <3>1. p \in 1..Len(told) /\ told'[p] = told[p] /\ told[p][2] = tools[c] /\ told[p][2] \in 0..(count - 1)
        BY <1>0, <1>2, <2>1 DEF Steady, Owned, IsCall
      <3> QED
        BY <1>3, <3>1
    <2>2. CASE ~(p <= Len(told))
      BY <1>1, <1>2, <1>3, <2>2
    <2> QED
      BY <2>1, <2>2
  <1> QED
    BY <1>5, <1>7, <1>8, <1>9 DEF CallsApart

\* A stream that goes on has not said [DONE].
LEMMA NotYetDone ==
    ASSUME told \in Seq(OpenAiChunks), DoneIsLast, ~over
    PROVE  \A p \in 1..Len(told) : told[p] # <<"[DONE]">>
  <1>1. told # <<>> => Len(told) \in 1..Len(told)
    OBVIOUS
  <1> QED
    BY <1>1 DEF DoneIsLast

\* One more chunk, which is not the last one.
LEMMA GoesOn ==
    ASSUME A2OTyped, DoneIsLast, ~over, over' = over,
           NEW c \in OpenAiChunks, c # <<"[DONE]">>, Grown(told, told', c)
    PROVE  DoneIsLast'
  <1>1. \A p \in 1..Len(told) : told[p] # <<"[DONE]">>
    BY NotYetDone DEF A2OTyped
  <1>2. \A p \in 1..Len(told') : told'[p] # <<"[DONE]">>
    <2> SUFFICES ASSUME NEW p \in 1..Len(told') PROVE told'[p] # <<"[DONE]">>
      OBVIOUS
    <2>1. (p \in 1..Len(told) /\ told'[p] = told[p]) \/ (p = Len(told) + 1 /\ told'[p] = c)
      BY GrownAt
    <2> QED
      BY <1>1, <2>1
  <1>3. Len(told') \in 1..Len(told')
    BY DEF Grown
  <1> QED
    BY <1>2, <1>3 DEF DoneIsLast

\* t is s with the chunks that end a stream behind it, and [DONE] behind these.
Ended2(s, t) ==
    /\ Len(s) \in Nat /\ Len(t) \in Nat /\ Len(s) < Len(t)
    /\ \A p \in 1..Len(s) : t[p] = s[p]
    /\ \A p \in (Len(s) + 1)..(Len(t) - 1) : t[p] # <<"[DONE]">>
    /\ \A p \in (Len(s) + 1)..Len(t) : ~IsCall(t[p])
    /\ t[Len(t)] = <<"[DONE]">>

\* One chunk that is no call and then [DONE].
LEMMA GrownEnds ==
    ASSUME NEW s, NEW t, NEW u, NEW a, ~IsCall(a), a # <<"[DONE]">>,
           Grown(s, t, a), Grown(t, u, <<"[DONE]">>)
    PROVE  Ended2(s, u)
  <1>1. ~IsCall(<<"[DONE]">>)
    BY DEF IsCall
  <1>2. Len(s) \in Nat /\ Len(t) = Len(s) + 1 /\ Len(u) = Len(s) + 2
    BY DEF Grown
  <1>3. /\ \A p \in 1..Len(s) : u[p] = s[p]
        /\ u[Len(s) + 1] = a /\ u[Len(s) + 2] = <<"[DONE]">>
    BY <1>2 DEF Grown
  <1> QED
    BY <1>1, <1>2, <1>3 DEF Ended2

\* One more chunk before the ones that end it.
LEMMA GrownEndsLater ==
    ASSUME NEW s, NEW t, NEW u, NEW a, ~IsCall(a), a # <<"[DONE]">>, Grown(s, t, a), Ended2(t, u)
    PROVE  Ended2(s, u)
  <1>1. Len(s) \in Nat /\ Len(t) = Len(s) + 1 /\ Len(u) \in Nat /\ Len(s) + 1 < Len(u)
    BY DEF Grown, Ended2
  <1>2. /\ \A p \in 1..Len(s) : u[p] = s[p]
        /\ u[Len(s) + 1] = a
    BY <1>1 DEF Grown, Ended2
  <1>3. /\ \A p \in (Len(s) + 2)..(Len(u) - 1) : u[p] # <<"[DONE]">>
        /\ \A p \in (Len(s) + 2)..Len(u) : ~IsCall(u[p])
        /\ u[Len(u)] = <<"[DONE]">>
    BY <1>1 DEF Ended2
  <1>4. /\ \A p \in (Len(s) + 1)..(Len(u) - 1) : p = Len(s) + 1 \/ p \in (Len(s) + 2)..(Len(u) - 1)
        /\ \A p \in (Len(s) + 1)..Len(u) : p = Len(s) + 1 \/ p \in (Len(s) + 2)..Len(u)
    BY <1>1
  <1>5. /\ \A p \in (Len(s) + 1)..(Len(u) - 1) : u[p] # <<"[DONE]">>
        /\ \A p \in (Len(s) + 1)..Len(u) : ~IsCall(u[p])
    BY <1>2, <1>3, <1>4
  <1> QED
    BY <1>1, <1>2, <1>3, <1>5 DEF Ended2

\* _terminal_chunks: the finish reason, then [DONE].
LEMMA TerminalEnds ==
    ASSUME NEW s \in Seq(OpenAiChunks), NEW f \in Finishes
    PROVE  s \o A2O!Terminal(f) \in Seq(OpenAiChunks) /\ Ended2(s, s \o A2O!Terminal(f))
  <1>1. <<"finish", f>> \in OpenAiChunks /\ <<"[DONE]">> \in OpenAiChunks
    BY DEF OpenAiChunks
  <1>2. ~IsCall(<<"finish", f>>) /\ <<"finish", f>> # <<"[DONE]">>
    BY DEF IsCall
  <1>3. s \o A2O!Terminal(f) = Append(Append(s, <<"finish", f>>), <<"[DONE]">>)
    BY <1>1, TwoMore DEF A2O!Terminal
  <1>4. Grown(s, Append(s, <<"finish", f>>), <<"finish", f>>) /\ Append(s, <<"finish", f>>) \in Seq(OpenAiChunks)
    BY <1>1, AppendGrows
  <1>5. PICK t \in Seq(OpenAiChunks) : t = Append(s, <<"finish", f>>)
    BY <1>4
  <1>6. Grown(t, Append(t, <<"[DONE]">>), <<"[DONE]">>) /\ Append(t, <<"[DONE]">>) \in Seq(OpenAiChunks)
    BY <1>1, <1>5, AppendGrows
  <1>7. Ended2(s, Append(t, <<"[DONE]">>))
    BY <1>2, <1>4, <1>5, <1>6, GrownEnds
  <1> QED
    BY <1>3, <1>5, <1>6, <1>7, Zenon

\* _finish_with_error: a text with the error first.
LEMMA ErrorEnds ==
    ASSUME NEW s \in Seq(OpenAiChunks), NEW f \in Finishes
    PROVE  /\ s \o (<<<<"text">>>> \o A2O!Terminal(f)) \in Seq(OpenAiChunks)
           /\ Ended2(s, s \o (<<<<"text">>>> \o A2O!Terminal(f)))
  <1>1. <<"text">> \in OpenAiChunks /\ ~IsCall(<<"text">>) /\ <<"text">> # <<"[DONE]">>
    BY DEF OpenAiChunks, IsCall
  <1>2. <<<<"text">>>> \in Seq(OpenAiChunks) /\ A2O!Terminal(f) \in Seq(OpenAiChunks)
    <2>1. <<"finish", f>> \in OpenAiChunks /\ <<"[DONE]">> \in OpenAiChunks
      BY DEF OpenAiChunks
    <2> QED
      BY <1>1, <2>1 DEF A2O!Terminal
  <1>3. s \o (<<<<"text">>>> \o A2O!Terminal(f)) = (s \o <<<<"text">>>>) \o A2O!Terminal(f)
    BY <1>2, ConcatAssociative, SMTT(30)
  <1>4. s \o <<<<"text">>>> = Append(s, <<"text">>)
    BY <1>1, AppendIsConcat
  <1>5. Grown(s, Append(s, <<"text">>), <<"text">>) /\ Append(s, <<"text">>) \in Seq(OpenAiChunks)
    BY <1>1, AppendGrows
  <1>6. PICK t \in Seq(OpenAiChunks) : t = Append(s, <<"text">>)
    BY <1>5
  <1>7. t \o A2O!Terminal(f) \in Seq(OpenAiChunks) /\ Ended2(t, t \o A2O!Terminal(f))
    BY <1>6, TerminalEnds
  <1>8. Ended2(s, t \o A2O!Terminal(f))
    BY <1>1, <1>5, <1>6, <1>7, GrownEndsLater
  <1> QED
    BY <1>3, <1>4, <1>6, <1>7, <1>8, Zenon

\* The end of a stream that went on: [DONE] once, last.
LEMMA EndsOnce ==
    ASSUME A2OTyped, told' \in Seq(OpenAiChunks), Ended2(told, told'), ~over, over' = TRUE
    PROVE  /\ DoneIsLast => DoneIsLast'
           /\ \A p \in 1..Len(told') : IsCall(told'[p]) => p \in 1..Len(told) /\ told'[p] = told[p]
  <1>1. ASSUME DoneIsLast PROVE DoneIsLast'
    <2>1. \A p \in 1..Len(told) : told[p] # <<"[DONE]">>
      BY <1>1, NotYetDone DEF A2OTyped
    <2>2. \A p \in 1..(Len(told') - 1) : told'[p] # <<"[DONE]">>
      BY <2>1 DEF Ended2
    <2>3. told' # <<>>
      BY DEF Ended2
    <2> QED
      BY <2>2, <2>3 DEF DoneIsLast, Ended2
  <1>2. \A p \in 1..Len(told') : IsCall(told'[p]) => p \in 1..Len(told) /\ told'[p] = told[p]
    BY DEF Ended2
  <1> QED
    BY <1>1, <1>2

\* What an event has, by its kind.
LEMMA EventIs ==
    ASSUME NEW e \in A2O!Events
    PROVE  /\ e.kind \in {"message_start", "text", "message_delta", "message_stop", "error", "noise",
                          "tool_use", "input_json"}
           /\ e.kind \in {"tool_use", "input_json"} => e.block \in Blocks /\ e = [kind |-> e.kind, block |-> e.block]
  BY DEF A2O!Events, A2O!Plain

\* The end of an event's handling, from what it says and what it leaves alone.
LEMMA EventEnd ==
    ASSUME A2OInv, NEW e \in A2O!Events, wire = "chunk", wire' = wire, heard' = Append(heard, e),
           over' \in BOOLEAN, over => over', phase' # "INIT" \/ (~over' /\ phase' = phase) \/ (phase' = phase),
           over' => (over \/ (e.kind \in Enders /\ phase' # "INIT"))
    PROVE  EndHeard'
  <1>1. /\ Len(heard') = Len(heard) + 1 /\ Len(heard) \in Nat
        /\ \A i \in 1..Len(heard) : heard'[i] = heard[i]
        /\ heard'[Len(heard) + 1] = e
    BY OneHeard DEF A2OInv, A2OTyped
  <1>2. ASSUME over' PROVE phase' # "INIT" /\ \E i \in 1..Len(heard') : heard'[i].kind \in Enders
    <2>1. CASE over
      <3>1. PICK i \in 1..Len(heard) : phase # "INIT" /\ heard[i].kind \in Enders
        BY <2>1 DEF A2OInv, EndHeard
      <3> QED
        BY <1>1, <1>2, <3>1
    <2>2. CASE ~over
      <3>1. Len(heard) + 1 \in 1..Len(heard')
        BY <1>1
      <3> QED
        BY <1>1, <1>2, <2>2, <3>1
    <2> QED
      BY <2>1, <2>2
  <1> QED
    BY <1>2 DEF EndHeard

\* A stream that is over hears nothing that would be translated.
LEMMA OverIsQuiet ==
    ASSUME A2OInv, NEW e \in A2O!Events, wire = "chunk", heard' = Append(heard, e), A2O!Ordinary', over
    PROVE  phase # "INIT" /\ e.kind \notin {"text", "tool_use", "input_json"}
  <1>1. phase # "INIT" /\ \E i \in 1..Len(heard) : heard[i].kind \in Enders
    BY DEF A2OInv, EndHeard
  <1> QED
    BY <1>1, OneHeard DEF A2OInv, A2OTyped

\* An event without a sound.
LEMMA SilentEvent ==
    ASSUME A2OInv, NEW e \in A2O!Events, wire = "chunk", wire' = wire, heard' = Append(heard, e),
           UNCHANGED <<phase, tools, count, over, told>>, reason' \in {"none", "tool_use"}
    PROVE  A2OInv'
  <1>1. /\ heard' \in Seq(A2O!Events) /\ (\A b \in Blocks : Announced(b) => Announced(b)')
        /\ A2O!Ordinary' => A2O!Ordinary
    BY OneHeard DEF A2OInv, A2OTyped
  <1>2. A2OTyped'
    BY <1>1 DEF A2OInv, A2OTyped
  <1>3. CallsApart'
    BY <1>1, PlainKeepsApart DEF A2OInv
  <1>4. EndHeard'
    BY EventEnd DEF A2OInv, A2OTyped
  <1>5. A2O!Ordinary' => DoneIsLast'
    BY <1>1 DEF A2OInv, DoneIsLast
  <1> QED
    BY <1>2, <1>3, <1>4, <1>5 DEF A2OInv

\* An event that says one chunk which belongs to no call: a role, a text.
LEMMA PlainEvent ==
    ASSUME A2OInv, NEW e \in A2O!Events, wire = "chunk", wire' = wire, heard' = Append(heard, e),
           NEW c \in {<<"role">>, <<"text">>}, told' = told \o <<c>>,
           UNCHANGED <<tools, count, reason, over>>,
           phase' = phase \/ (phase = "INIT" /\ phase' = "TEXT_OPEN"),
           phase = "INIT" \/ e.kind = "text"
    PROVE  A2OInv'
  <1>1. /\ heard' \in Seq(A2O!Events) /\ (\A b \in Blocks : Announced(b) => Announced(b)')
        /\ A2O!Ordinary' => A2O!Ordinary
    BY OneHeard DEF A2OInv, A2OTyped
  <1>2. c \in OpenAiChunks /\ ~IsCall(c) /\ c # <<"[DONE]">>
    BY DEF OpenAiChunks, IsCall
  <1>3. told \in Seq(OpenAiChunks) /\ told' = Append(told, c)
    BY <1>2, AppendIsConcat DEF A2OInv, A2OTyped
  <1>4. Grown(told, told', c) /\ told' \in Seq(OpenAiChunks)
    BY <1>2, <1>3, AppendGrows
  <1>5. A2OTyped'
    BY <1>1, <1>4 DEF A2OInv, A2OTyped
  <1>6. CallsApart'
    <2>1. ASSUME NEW p \in 1..Len(told'), IsCall(told'[p])
          PROVE  p \in 1..Len(told) /\ told'[p] = told[p]
      BY <1>2, <1>4, <2>1, GrownAt
    <2> QED
      BY <1>1, <2>1, PlainKeepsApart DEF A2OInv
  <1>7. EndHeard'
    BY EventEnd DEF A2OInv, A2OTyped
  <1>8. ASSUME A2O!Ordinary' PROVE DoneIsLast'
    <2>1. ~over
      BY <1>8, OverIsQuiet
    <2>2. DoneIsLast
      BY <1>1, <1>8 DEF A2OInv
    <2> QED
      BY <1>2, <1>4, <2>1, <2>2, GoesOn DEF A2OInv
  <1> QED
    BY <1>5, <1>6, <1>7, <1>8 DEF A2OInv

\* An event that says a chunk of a call.
LEMMA CallEvent ==
    ASSUME A2OInv, NEW e \in A2O!Events, wire = "chunk", wire' = wire, heard' = Append(heard, e),
           NEW b \in Blocks, NEW n \in Nat,
           \/ e = [kind |-> "tool_use", block |-> b] /\ n = count
           \/ e = [kind |-> "input_json", block |-> b] /\ n = A2O!ToolOf(b),
           told' = told \o <<<<"tool", n, b>>>>, tools' = [tools EXCEPT ![b] = n],
           count' = IF n = count THEN count + 1 ELSE count,
           UNCHANGED <<phase, reason, over>>
    PROVE  A2OInv'
  <1> DEFINE c == <<"tool", n, b>>
  <1>1. /\ heard' \in Seq(A2O!Events) /\ (\A x \in Blocks : Announced(x) => Announced(x)')
        /\ A2O!Ordinary' => A2O!Ordinary
        /\ Len(heard') = Len(heard) + 1 /\ Len(heard) \in Nat /\ heard'[Len(heard) + 1] = e
    BY OneHeard DEF A2OInv, A2OTyped
  <1>2. c \in OpenAiChunks /\ c # <<"[DONE]">>
    BY DEF OpenAiChunks
  <1>3. told \in Seq(OpenAiChunks) /\ told' = Append(told, c)
    BY <1>2, AppendIsConcat DEF A2OInv, A2OTyped
  <1>4. Grown(told, told', c) /\ told' \in Seq(OpenAiChunks)
    BY <1>2, <1>3, AppendGrows
  <1>5. count \in Nat /\ tools \in [Blocks -> Int] /\ tools[b] \in -1..(count - 1)
    BY DEF A2OInv, A2OTyped, CallsApart, Numbered
  <1>6. A2OTyped'
    BY <1>1, <1>4, <1>5 DEF A2OInv, A2OTyped
  <1>7. n = count \/ n = tools[b]
    BY DEF A2O!ToolOf
  <1>8. Announced(b)' \/ tools[b] \in {-1, n}
    <2>1. CASE e = [kind |-> "tool_use", block |-> b]
      <3>1. Len(heard) + 1 \in 1..Len(heard')
        BY <1>1
      <3> QED
        BY <1>1, <2>1, <3>1 DEF Announced
    <2>2. CASE n = A2O!ToolOf(b)
      BY <2>2 DEF A2O!ToolOf
    <2> QED
      BY <2>1, <2>2
  <1>9. CallsApart'
    BY <1>1, <1>4, <1>7, <1>8, CallKeepsApart DEF A2OInv
  <1>10. EndHeard'
    BY EventEnd DEF A2OInv, A2OTyped
  <1>11. ASSUME A2O!Ordinary' PROVE DoneIsLast'
    <2>1. ~over
      BY <1>11, OverIsQuiet
    <2>2. DoneIsLast
      BY <1>1, <1>11 DEF A2OInv
    <2> QED
      BY <1>2, <1>4, <2>1, <2>2, GoesOn DEF A2OInv
  <1> QED
    BY <1>6, <1>9, <1>10, <1>11 DEF A2OInv

\* An event that ends the stream.
LEMMA EndEvent ==
    ASSUME A2OInv, NEW e \in A2O!Events, wire = "chunk", wire' = wire, heard' = Append(heard, e),
           e.kind \in Enders, ~over, over' = TRUE, phase' = "DONE",
           told' \in Seq(OpenAiChunks), Ended2(told, told'), UNCHANGED <<tools, count, reason>>
    PROVE  A2OInv'
  <1>1. /\ heard' \in Seq(A2O!Events) /\ (\A b \in Blocks : Announced(b) => Announced(b)')
        /\ A2O!Ordinary' => A2O!Ordinary
    BY OneHeard DEF A2OInv, A2OTyped
  <1>2. A2OTyped'
    BY <1>1 DEF A2OInv, A2OTyped
  <1>3. CallsApart'
    BY <1>1, EndsOnce, PlainKeepsApart DEF A2OInv
  <1>4. EndHeard'
    BY EventEnd DEF A2OInv, A2OTyped
  <1>5. A2O!Ordinary' => DoneIsLast'
    BY <1>1, EndsOnce DEF A2OInv
  <1> QED
    BY <1>2, <1>3, <1>4, <1>5 DEF A2OInv

\* _handle_event keeps the invariant.
LEMMA A2OEventKeeps ==
    ASSUME A2OInv, NEW e \in A2O!Events, A2O!Event(e)
    PROVE  A2OInv'
  <1>1. wire = "chunk" /\ wire' = wire /\ heard' = Append(heard, e) /\ A2O!Handle(e)
    BY DEF A2O!Event
  <1>2. told \in Seq(OpenAiChunks) /\ reason \in {"none", "tool_use"} /\ over \in BOOLEAN /\ count \in Nat
    BY DEF A2OInv, A2OTyped
  <1>3. CASE e.kind = "message_start"
    <2>1. A2O!OnMessageStart
      BY <1>1, <1>3 DEF A2O!Handle
    <2>2. CASE phase = "INIT"
      BY <1>1, <2>1, <2>2, PlainEvent DEF A2O!OnMessageStart, A2O!Says
    <2>3. CASE phase # "INIT"
      BY <1>1, <1>2, <2>1, <2>3, SilentEvent DEF A2O!OnMessageStart
    <2> QED
      BY <2>2, <2>3
  <1>4. CASE e.kind = "text"
    BY <1>1, <1>4, PlainEvent DEF A2O!Handle, A2O!OnText, A2O!Says
  <1>5. CASE e.kind = "tool_use"
    <2>1. A2O!OnToolUse(e.block) /\ e.block \in Blocks /\ e = [kind |-> "tool_use", block |-> e.block]
      BY <1>1, <1>5, EventIs DEF A2O!Handle
    <2> QED
      BY <1>1, <1>2, <2>1, CallEvent DEF A2O!OnToolUse, A2O!Says
  <1>6. CASE e.kind = "input_json"
    <2>1. A2O!OnInputJson(e.block) /\ e.block \in Blocks /\ e = [kind |-> "input_json", block |-> e.block]
      BY <1>1, <1>6, EventIs DEF A2O!Handle
    <2>2. A2O!ToolOf(e.block) \in Nat
      BY <1>2, <2>1 DEF A2O!ToolOf, A2OInv, A2OTyped, CallsApart, Numbered
    <2> QED
      BY <1>1, <2>1, <2>2, CallEvent DEF A2O!OnInputJson, A2O!Says
  <1>7. CASE e.kind = "message_delta"
    BY <1>1, <1>7, SilentEvent DEF A2O!Handle, A2O!OnMessageDelta
  <1>8. CASE e.kind = "message_stop"
    <2>1. A2O!OnMessageStop
      BY <1>1, <1>8 DEF A2O!Handle
    <2>2. CASE over
      BY <1>1, <1>2, <2>1, <2>2, SilentEvent DEF A2O!OnMessageStop, A2O!Ignored
    <2>3. CASE ~over
      <3>1. A2O!Mapped \in Finishes
        BY DEF A2O!Mapped, Finishes
      <3>2. over' = TRUE /\ phase' = "DONE" /\ told' = told \o A2O!Terminal(A2O!Mapped) /\ UNCHANGED <<tools, count, reason>>
        BY <2>1, <2>3 DEF A2O!OnMessageStop, A2O!Ends, A2O!Says
      <3>3. told' \in Seq(OpenAiChunks) /\ Ended2(told, told')
        BY <1>2, <3>1, <3>2, TerminalEnds
      <3> QED
        BY <1>1, <1>8, <2>3, <3>2, <3>3, EndEvent DEF Enders
    <2> QED
      BY <2>2, <2>3
  <1>9. CASE e.kind = "error"
    <2>1. A2O!FinishWithError
      BY <1>1, <1>9 DEF A2O!Handle
    <2>2. CASE over
      BY <1>1, <1>2, <2>1, <2>2, SilentEvent DEF A2O!FinishWithError, A2O!Ignored
    <2>3. CASE ~over
      <3>1. "stop" \in Finishes
        BY DEF Finishes
      <3>2. over' = TRUE /\ phase' = "DONE" /\ told' = told \o (<<<<"text">>>> \o A2O!Terminal("stop")) /\ UNCHANGED <<tools, count, reason>>
        BY <2>1, <2>3 DEF A2O!FinishWithError, A2O!Ends, A2O!Says
      <3>3. told' \in Seq(OpenAiChunks) /\ Ended2(told, told')
        BY <1>2, <3>1, <3>2, ErrorEnds
      <3> QED
        BY <1>1, <1>9, <2>3, <3>2, <3>3, EndEvent DEF Enders
    <2> QED
      BY <2>2, <2>3
  <1>10. CASE e.kind = "noise"
    BY <1>1, <1>2, <1>10, SilentEvent DEF A2O!Handle, A2O!Ignored
  <1> QED
    BY <1>3, <1>4, <1>5, <1>6, <1>7, <1>8, <1>9, <1>10, EventIs
\* The beginning and the end of a chunk of the body leave all but wire alone.
LEMMA A2OChunkKeeps ==
    ASSUME A2OInv, A2O!Feed \/ A2O!EndOfChunk \/ UNCHANGED a2ovars
    PROVE  A2OInv'
  <1>1. UNCHANGED <<phase, tools, count, reason, over, heard, told>>
    BY DEF A2O!Feed, A2O!EndOfChunk, a2ovars
  <1>2. A2OTyped'
    BY <1>1 DEF A2OInv, A2OTyped
  <1>3. CallsApart'
    BY <1>1 DEF A2OInv, CallsApart, Numbered, Owned, Apart, Steady, Announced, IsCall
  <1>4. EndHeard'
    BY <1>1 DEF A2OInv, EndHeard, A2O!Feed, A2O!EndOfChunk, a2ovars
  <1>5. A2O!Ordinary' => DoneIsLast'
    BY <1>1 DEF A2OInv, DoneIsLast, A2O!Ordinary
  <1> QED
    BY <1>2, <1>3, <1>4, <1>5 DEF A2OInv

\* finish_safely keeps the invariant.
LEMMA A2OEndKeeps ==
    ASSUME A2OInv, A2O!EndOfBody
    PROVE  A2OInv'
  <1>1. wire' = "ended" /\ UNCHANGED <<phase, tools, count, reason, heard>>
    BY DEF A2O!EndOfBody
  <1>2. told \in Seq(OpenAiChunks) /\ reason \in {"none", "tool_use"} /\ over \in BOOLEAN
    BY DEF A2OInv, A2OTyped
  <1>3. (A2O!Ordinary' <=> A2O!Ordinary) /\ \A b \in Blocks : Announced(b) <=> Announced(b)'
    BY <1>1 DEF A2O!Ordinary, Announced
  <1>4. CASE over
    <2>1. UNCHANGED <<over, told>>
      BY <1>4 DEF A2O!EndOfBody
    <2>2. A2OTyped' /\ EndHeard'
      BY <1>1, <1>4, <2>1 DEF A2OInv, A2OTyped, EndHeard
    <2>3. CallsApart'
      BY <1>1, <2>1 DEF A2OInv, CallsApart, Numbered, Owned, Apart, Steady, Announced, IsCall
    <2>4. A2O!Ordinary' => DoneIsLast'
      BY <1>3, <2>1 DEF A2OInv, DoneIsLast
    <2> QED
      BY <2>2, <2>3, <2>4 DEF A2OInv
  <1>5. CASE ~over
    <2> DEFINE f == IF reason = "none" THEN "stop" ELSE reason
    <2>1. f \in Finishes
      BY <1>2 DEF Finishes
    <2>2. over' = TRUE /\ told' = told \o A2O!Terminal(f)
      BY <1>5 DEF A2O!EndOfBody, A2O!Says
    <2> HIDE DEF f
    <2>3. told' \in Seq(OpenAiChunks) /\ Ended2(told, told')
      BY <1>2, <2>1, <2>2, TerminalEnds
    <2>4. A2OTyped' /\ EndHeard'
      BY <1>1, <2>2, <2>3 DEF A2OInv, A2OTyped, EndHeard
    <2>5. CallsApart'
      BY <1>1, <1>3, <1>5, <2>2, <2>3, EndsOnce, PlainKeepsApart DEF A2OInv
    <2>6. A2O!Ordinary' => DoneIsLast'
      BY <1>3, <1>5, <2>2, <2>3, EndsOnce DEF A2OInv
    <2> QED
      BY <2>4, <2>5, <2>6 DEF A2OInv
  <1> QED
    BY <1>2, <1>4, <1>5

\* The translator starts within the invariant.
LEMMA A2OInit == A2O!Init => A2OInv
  <1> SUFFICES ASSUME A2O!Init PROVE A2OInv
    OBVIOUS
  <1>1. /\ phase = "INIT" /\ tools = [b \in Blocks |-> -1] /\ count = 0
        /\ reason = "none" /\ over = FALSE /\ heard = <<>> /\ told = <<>> /\ wire = "open"
    BY DEF A2O!Init
  <1>2. A2OTyped
    <2>1. tools \in [Blocks -> Int] /\ count \in Nat /\ reason \in {"none", "tool_use"}
      BY <1>1
    <2>2. heard \in Seq(A2O!Events) /\ told \in Seq(OpenAiChunks)
      BY <1>1, EmptySeq
    <2>3. over \in BOOLEAN
      BY <1>1
    <2> QED
      BY <2>1, <2>2, <2>3 DEF A2OTyped
  <1>3. CallsApart
    BY <1>1 DEF CallsApart, Numbered, Owned, Apart, Steady
  <1>4. EndHeard /\ DoneIsLast
    BY <1>1 DEF EndHeard, DoneIsLast
  <1> QED
    BY <1>2, <1>3, <1>4 DEF A2OInv

\* The instance counts as FiniteSets does.
LEMMA SameCount == \A S : A2O!Cardinality(S) = Cardinality(S)
  BY DEF A2O!Cardinality, Cardinality

\* What the invariant says of the chunks the client got.
LEMMA A2OGives == A2OInv => ToolCallsStayApart
  <1> SUFFICES ASSUME A2OInv PROVE ToolCallsStayApart
    OBVIOUS
  <1>1. told \in Seq(OpenAiChunks) /\ heard \in Seq(A2O!Events) /\ Apart /\ Steady /\ EndHeard
    BY DEF A2OInv, A2OTyped, CallsApart
  <1>2. ASSUME NEW b \in Blocks,
               Cardinality({i \in 1..Len(heard) : heard[i] = [kind |-> "tool_use", block |-> b]}) = 0
        PROVE  Cardinality({told[p] : p \in {x \in 1..Len(told) : told[x][1] = "tool" /\ told[x][3] = b}}) <= 1
    <2> DEFINE said == {i \in 1..Len(heard) : heard[i] = [kind |-> "tool_use", block |-> b]}
               mine == {told[p] : p \in {x \in 1..Len(told) : told[x][1] = "tool" /\ told[x][3] = b}}
               only == <<"tool", tools[b], b>>
    <2>1. IsFiniteSet(said)
      <3>1. IsFiniteSet(1..Len(heard)) /\ said \subseteq 1..Len(heard)
        <4>1. Len(heard) \in Int
          BY <1>1
        <4> QED
          BY <4>1, FS_Interval
      <3> QED
        BY <3>1, FS_Subset
    <2>2. said = {}
      BY <1>2, <2>1, FS_EmptySet
    <2>3. ~Announced(b)
      BY <2>2 DEF Announced
    <2>4. ASSUME NEW x \in 1..Len(told), told[x][1] = "tool", told[x][3] = b
          PROVE  told[x] = only
      <3>1. told[x][2] = tools[b]
        BY <1>1, <2>3, <2>4 DEF Steady, IsCall
      <3>2. told[x] \in OpenAiChunks
        BY <1>1
      <3>3. PICK n \in Nat, c \in Blocks : told[x] = <<"tool", n, c>>
        BY <3>2, <2>4, CallIs DEF IsCall
      <3> QED
        BY <2>4, <3>1, <3>3
    <2>5. mine \subseteq {only}
      BY <2>4
    <2> HIDE DEF only, mine
    <2>6. Cardinality(mine) <= Cardinality({only})
      BY <2>5, FS_Singleton, FS_Subset
    <2>7. Cardinality(mine) <= 1
      BY <2>6, FS_Singleton
    <2> QED
      BY <2>7 DEF mine
  <1>3. \A p, q \in 1..Len(told) :
          told[p][1] = "tool" /\ told[q][1] = "tool" /\ told[p][2] = told[q][2] => told[p][3] = told[q][3]
    BY <1>1 DEF Apart, IsCall
  <1>4. A2O!Ordinary => DoneIsLast /\ (wire = "ended" => over)
    BY <1>1 DEF A2OInv, EndHeard
  <1>5. A2O!Ordinary => /\ \A p \in 1..Len(told) : told[p] = <<"[DONE]">> => p = Len(told)
                        /\ over <=> (told # <<>> /\ told[Len(told)] = <<"[DONE]">>)
                        /\ wire = "ended" => over
    BY <1>4 DEF DoneIsLast
  <1> QED
    BY <1>2, <1>3, <1>5, SameCount, Zenon DEF ToolCallsStayApart, A2O!ToolCallsStayApart

\* Whatever the upstream of an Anthropic stream sends, in however many events:
\* the arguments of two blocks never share a tool call, those of a block that
\* was never announced stay in one, and [DONE] comes once, last.
THEOREM ToolCallsStayApartAlways == A2O!Spec => []ToolCallsStayApart
  <1>1. A2OInv /\ [A2O!Next]_a2ovars => A2OInv'
    <2> SUFFICES ASSUME A2OInv, [A2O!Next]_a2ovars PROVE A2OInv'
      OBVIOUS
    <2>1. CASE A2O!Feed \/ A2O!EndOfChunk \/ UNCHANGED a2ovars
      BY <2>1, A2OChunkKeeps
    <2>2. CASE A2O!EndOfBody
      BY <2>2, A2OEndKeeps
    <2>3. ASSUME NEW e \in A2O!Events, A2O!Event(e) PROVE A2OInv'
      BY <2>3, A2OEventKeeps
    <2> QED
      BY <2>1, <2>2, <2>3 DEF A2O!Next
  <1> QED
    BY <1>1, A2OInit, A2OGives, PTL DEF A2O!Spec, a2ovars, A2O!a2ovars

(***************************************************************************)
(* StreamO2A: the client of an ordinary stream gets a well-formed message    *)
(***************************************************************************)
Reasons == {"end_turn", "tool_use", "error"}

AnthropicEvents ==
    {<<"message_start">>, <<"ping">>, <<"error">>, <<"message_stop">>}
       \cup ({"start", "delta", "stop"} \X Nat) \cup ({"message_delta"} \X Reasons)

CountIn(s, what, n) == Cardinality({p \in 1..n : s[p][1] = what})

\* What AnthropicWellFormed says of event p of s, but for the end of the message.
InPlace(s, p) ==
    /\ s[p][1] = "message_start" <=> p = 1
    /\ s[p][1] = "start" => s[p][2] = CountIn(s, "start", p - 1) /\ CountIn(s, "stop", p - 1) = CountIn(s, "start", p - 1)
    /\ s[p][1] \in {"delta", "stop"} =>
          s[p][2] = CountIn(s, "start", p - 1) - 1 /\ CountIn(s, "stop", p - 1) = CountIn(s, "start", p - 1) - 1
    /\ s[p][1] = "message_delta" => CountIn(s, "stop", p - 1) = CountIn(s, "start", p - 1)

\* A message that goes on: n blocks were started, the last one is open or not, an
\* error was sent or not, d is the reason of its message_delta or "none".
Under(s, n, open, bad, d) ==
    /\ Len(s) \in Nat \ {0} /\ n \in Nat
    /\ \A p \in 1..Len(s) : InPlace(s, p) /\ s[p][1] # "message_stop"
    /\ CountIn(s, "start", Len(s)) = n
    /\ CountIn(s, "stop", Len(s)) = IF open THEN n - 1 ELSE n
    /\ CountIn(s, "error", Len(s)) = IF bad THEN 1 ELSE 0
    /\ (\E p \in 1..Len(s) : s[p] = <<"message_delta", "error">>) <=> d = "error"
    /\ d # "none" => s[Len(s)][1] = "message_delta"

Sending(s, n, open) == Under(s, n, open, FALSE, "none")

\* What AnthropicWellFormed says of the events sent.
WellFormed(s, done) ==
    /\ \A p \in 1..Len(s) :
          InPlace(s, p) /\ (s[p][1] = "message_stop" => p = Len(s) /\ s[p - 1][1] = "message_delta")
    /\ done <=> CountIn(s, "message_stop", Len(s)) = 1
    /\ CountIn(s, "error", Len(s)) = 1 <=> \E p \in 1..Len(s) : s[p] = <<"message_delta", "error">>

\* One more event adds one to the count of its kind and changes no earlier count.
LEMMA CountGrown ==
    ASSUME NEW s, NEW t, NEW c, Grown(s, t, c), NEW w
    PROVE  /\ CountIn(s, w, Len(s)) \in Nat
           /\ \A n \in 0..Len(s) : CountIn(t, w, n) = CountIn(s, w, n)
           /\ CountIn(t, w, Len(t)) = IF c[1] = w THEN CountIn(s, w, Len(s)) + 1 ELSE CountIn(s, w, Len(s))
  <1> DEFINE S == {p \in 1..Len(s) : s[p][1] = w}
             T == {p \in 1..Len(t) : t[p][1] = w}
  <1>1. Len(s) \in Nat /\ Len(t) = Len(s) + 1 /\ (\A p \in 1..Len(s) : t[p] = s[p]) /\ t[Len(s) + 1] = c
    BY DEF Grown
  <1>2. IsFiniteSet(S) /\ Cardinality(S) \in Nat
    <2>1. IsFiniteSet(1..Len(s)) /\ S \subseteq 1..Len(s)
      <3>1. Len(s) \in Int
        BY <1>1
      <3> QED
        BY <3>1, FS_Interval
    <2> QED
      BY <2>1, FS_Subset, FS_CardinalityType
  <1>3. \A n \in 0..Len(s) : {p \in 1..n : t[p][1] = w} = {p \in 1..n : s[p][1] = w}
    BY <1>1
  <1>4. Len(s) + 1 \notin S
    BY <1>1
  <1>5. T = IF c[1] = w THEN S \cup {Len(s) + 1} ELSE S
    BY <1>1
  <1> HIDE DEF S, T
  <1>6. Cardinality(T) = IF c[1] = w THEN Cardinality(S) + 1 ELSE Cardinality(S)
    BY <1>2, <1>4, <1>5, FS_AddElement
  <1>7. CountIn(s, w, Len(s)) = Cardinality(S) /\ CountIn(t, w, Len(t)) = Cardinality(T)
    BY DEF CountIn, S, T
  <1>8. \A n \in 0..Len(s) : CountIn(t, w, n) = CountIn(s, w, n)
    BY <1>3 DEF CountIn
  <1> QED
    BY <1>2, <1>6, <1>7, <1>8

\* What was never sent counts zero.
LEMMA CountNone ==
    ASSUME NEW s, NEW n, NEW w, \A p \in 1..n : s[p][1] # w
    PROVE  CountIn(s, w, n) = 0
  <1>1. {p \in 1..n : s[p][1] = w} = {}
    OBVIOUS
  <1> QED
    BY <1>1, FS_EmptySet DEF CountIn

\* An event in its place leaves the earlier ones in theirs.
LEMMA PlacesKept ==
    ASSUME NEW s, NEW t, NEW c, Grown(s, t, c), \A p \in 1..Len(s) : InPlace(s, p)
    PROVE  \A p \in 1..Len(s) : InPlace(t, p) /\ t[p] = s[p]
  <1> SUFFICES ASSUME NEW p \in 1..Len(s) PROVE InPlace(t, p) /\ t[p] = s[p]
    OBVIOUS
  <1>1. Len(s) \in Nat /\ t[p] = s[p] /\ p - 1 \in 0..Len(s)
    BY DEF Grown
  <1>2. CountIn(t, "start", p - 1) = CountIn(s, "start", p - 1) /\ CountIn(t, "stop", p - 1) = CountIn(s, "stop", p - 1)
    <2>1. \A k \in 0..Len(s) : CountIn(t, "start", k) = CountIn(s, "start", k)
      BY CountGrown
    <2>2. \A k \in 0..Len(s) : CountIn(t, "stop", k) = CountIn(s, "stop", k)
      BY CountGrown
    <2> QED
      BY <1>1, <2>1, <2>2
  <1>3. InPlace(s, p)
    OBVIOUS
  <1> QED
    BY <1>1, <1>2, <1>3 DEF InPlace

\* What one more event makes of a message that goes on.
Longer(s, t, c, n, open, bad, d) ==
    /\ Len(t) = Len(s) + 1 /\ Len(t) \in Nat \ {0} /\ Len(s) \in Nat \ {0} /\ n \in Nat
    /\ t[Len(t)] = c /\ Len(t) - 1 = Len(s)
    /\ \A p \in 1..Len(s) : InPlace(t, p) /\ t[p] = s[p] /\ t[p][1] # "message_stop"
    /\ \A p \in 1..Len(t) : p \in 1..Len(s) \/ p = Len(t)
    /\ CountIn(t, "start", Len(s)) = n
    /\ CountIn(t, "stop", Len(s)) = IF open THEN n - 1 ELSE n
    /\ CountIn(t, "start", Len(t)) = IF c[1] = "start" THEN n + 1 ELSE n
    /\ CountIn(t, "stop", Len(t)) = (IF open THEN n - 1 ELSE n) + (IF c[1] = "stop" THEN 1 ELSE 0)
    /\ CountIn(t, "error", Len(t)) = (IF bad THEN 1 ELSE 0) + (IF c[1] = "error" THEN 1 ELSE 0)
    /\ (\E p \in 1..Len(t) : t[p] = <<"message_delta", "error">>) <=> (d = "error" \/ c = <<"message_delta", "error">>)

\* An event behind a message that goes on.
LEMMA OneMore ==
    ASSUME NEW s, NEW t, NEW c, Grown(s, t, c), NEW n, NEW open, NEW bad, NEW d, Under(s, n, open, bad, d)
    PROVE  Longer(s, t, c, n, open, bad, d)
  <1>1. /\ Len(t) = Len(s) + 1 /\ Len(s) \in Nat \ {0} /\ n \in Nat /\ t[Len(s) + 1] = c
        /\ \A p \in 1..Len(s) : InPlace(s, p) /\ s[p][1] # "message_stop"
    BY DEF Under, Grown
  <1>2. Len(t) \in Nat \ {0} /\ t[Len(t)] = c /\ Len(t) - 1 = Len(s) /\ Len(s) \in 0..Len(s)
        /\ \A p \in 1..Len(t) : p \in 1..Len(s) \/ p = Len(t)
    BY <1>1
  <1>3. \A p \in 1..Len(s) : InPlace(t, p) /\ t[p] = s[p] /\ t[p][1] # "message_stop"
    BY <1>1, PlacesKept
  <1>4. /\ CountIn(t, "start", Len(s)) = n
        /\ CountIn(t, "stop", Len(s)) = IF open THEN n - 1 ELSE n
    BY <1>2, CountGrown DEF Under
  <1>5. CountIn(t, "start", Len(t)) = IF c[1] = "start" THEN n + 1 ELSE n
    BY CountGrown DEF Under
  <1>6. CountIn(t, "stop", Len(t)) = (IF open THEN n - 1 ELSE n) + (IF c[1] = "stop" THEN 1 ELSE 0)
    BY <1>1, CountGrown DEF Under
  <1>7. CountIn(t, "error", Len(t)) = (IF bad THEN 1 ELSE 0) + (IF c[1] = "error" THEN 1 ELSE 0)
    BY CountGrown DEF Under
  <1>8. (\E p \in 1..Len(t) : t[p] = <<"message_delta", "error">>) <=> (d = "error" \/ c = <<"message_delta", "error">>)
    <2> DEFINE x == <<"message_delta", "error">>
    <2>1. (\E p \in 1..Len(s) : s[p] = x) <=> d = "error"
      BY DEF Under
    <2> HIDE DEF x
    <2>2. (\E p \in 1..Len(t) : t[p] = x) <=> (\E p \in 1..Len(s) : s[p] = x) \/ c = x
      <3>1. \A p \in 1..Len(s) : p \in 1..Len(t)
        BY <1>1
      <3>2. Len(t) \in 1..Len(t)
        BY <1>1
      <3> QED
        BY <1>2, <1>3, <3>1, <3>2
    <2> QED
      BY <2>1, <2>2 DEF x
  <1> QED
    BY <1>1, <1>2, <1>3, <1>4, <1>5, <1>6, <1>7, <1>8 DEF Longer

\* The first event of a message.
LEMMA MessageBegins ==
    ASSUME NEW t, Grown(<<>>, t, <<"message_start">>)
    PROVE  Sending(t, 0, FALSE)
  <1>1. Len(t) = 1 /\ t[1] = <<"message_start">>
    BY DEF Grown
  <1>2. CountIn(t, "start", Len(t)) = 0 /\ CountIn(t, "stop", Len(t)) = 0 /\ CountIn(t, "error", Len(t)) = 0
    BY <1>1, CountNone
  <1>3. InPlace(t, 1)
    BY <1>1 DEF InPlace
  <1> QED
    BY <1>1, <1>2, <1>3 DEF Sending, Under

\* A ping between blocks.
LEMMA Pings ==
    ASSUME NEW s, NEW t, NEW n, Grown(s, t, <<"ping">>), Sending(s, n, FALSE)
    PROVE  Sending(t, n, FALSE)
  <1> DEFINE c == <<"ping">>
  <1>1. Longer(s, t, c, n, FALSE, FALSE, "none")
    BY OneMore DEF Sending
  <1>2. c[1] = "ping" /\ c # <<"message_delta", "error">>
    OBVIOUS
  <1> HIDE DEF c
  <1>3. InPlace(t, Len(t))
    BY <1>1, <1>2 DEF Longer, InPlace
  <1> QED
    BY <1>1, <1>2, <1>3 DEF Longer, Sending, Under

\* The next block begins.
LEMMA BlockStarts ==
    ASSUME NEW s, NEW t, NEW n, Grown(s, t, <<"start", n>>), Sending(s, n, FALSE)
    PROVE  Sending(t, n + 1, TRUE)
  <1> DEFINE c == <<"start", n>>
  <1>1. Longer(s, t, c, n, FALSE, FALSE, "none")
    BY OneMore DEF Sending
  <1>2. c[1] = "start" /\ c[2] = n /\ c # <<"message_delta", "error">>
    OBVIOUS
  <1> HIDE DEF c
  <1>3. InPlace(t, Len(t))
    BY <1>1, <1>2 DEF Longer, InPlace
  <1> QED
    BY <1>1, <1>2, <1>3 DEF Longer, Sending, Under

\* A delta of the open block.
LEMMA BlockGoesOn ==
    ASSUME NEW s, NEW t, NEW n, Grown(s, t, <<"delta", n - 1>>), Sending(s, n, TRUE)
    PROVE  Sending(t, n, TRUE)
  <1> DEFINE c == <<"delta", n - 1>>
  <1>1. Longer(s, t, c, n, TRUE, FALSE, "none")
    BY OneMore DEF Sending
  <1>2. c[1] = "delta" /\ c[2] = n - 1 /\ c # <<"message_delta", "error">>
    OBVIOUS
  <1> HIDE DEF c
  <1>3. InPlace(t, Len(t))
    BY <1>1, <1>2 DEF Longer, InPlace
  <1> QED
    BY <1>1, <1>2, <1>3 DEF Longer, Sending, Under

\* The open block ends.
LEMMA BlockStops ==
    ASSUME NEW s, NEW t, NEW n, Grown(s, t, <<"stop", n - 1>>), Sending(s, n, TRUE)
    PROVE  Sending(t, n, FALSE)
  <1> DEFINE c == <<"stop", n - 1>>
  <1>1. Longer(s, t, c, n, TRUE, FALSE, "none")
    BY OneMore DEF Sending
  <1>2. c[1] = "stop" /\ c[2] = n - 1 /\ c # <<"message_delta", "error">>
    OBVIOUS
  <1> HIDE DEF c
  <1>3. InPlace(t, Len(t))
    BY <1>1, <1>2 DEF Longer, InPlace
  <1> QED
    BY <1>1, <1>2, <1>3 DEF Longer, Sending, Under

\* An error, when no block is open.
LEMMA ErrorIsSent ==
    ASSUME NEW s, NEW t, Grown(s, t, <<"error">>), NEW n, Sending(s, n, FALSE)
    PROVE  Under(t, n, FALSE, TRUE, "none")
  <1>0. Longer(s, t, <<"error">>, n, FALSE, FALSE, "none")
    BY OneMore DEF Sending
  <1>1. InPlace(t, Len(t))
    BY <1>0 DEF Longer, InPlace
  <1> QED
    BY <1>0, <1>1 DEF Longer, Under

\* message_delta, when no block is open.
LEMMA ReasonIsSent ==
    ASSUME NEW s, NEW t, NEW r \in Reasons, Grown(s, t, <<"message_delta", r>>), NEW n, NEW bad \in BOOLEAN,
           Under(s, n, FALSE, bad, "none")
    PROVE  Under(t, n, FALSE, bad, r)
  <1> DEFINE c == <<"message_delta", r>>
  <1>1. c[1] = "message_delta" /\ (c = <<"message_delta", "error">> <=> r = "error") /\ r # "none"
    BY DEF Reasons
  <1> HIDE DEF c
  <1>2. Longer(s, t, c, n, FALSE, bad, "none")
    BY OneMore DEF c
  <1>3. InPlace(t, Len(t))
    BY <1>1, <1>2 DEF Longer, InPlace
  <1> QED
    BY <1>1, <1>2, <1>3 DEF Longer, Under

\* message_stop after it: the message is complete.
LEMMA MessageEnds ==
    ASSUME NEW s, NEW t, Grown(s, t, <<"message_stop">>), NEW n, NEW bad \in BOOLEAN, NEW r \in Reasons,
           Under(s, n, FALSE, bad, r), bad <=> r = "error"
    PROVE  WellFormed(t, TRUE)
  <1>0. Longer(s, t, <<"message_stop">>, n, FALSE, bad, r)
    BY OneMore
  <1>1. InPlace(t, Len(t)) /\ t[Len(t)][1] = "message_stop"
    BY <1>0 DEF Longer, InPlace
  <1>2. t[Len(t) - 1][1] = "message_delta"
    BY <1>0 DEF Longer, Under, Reasons
  <1>3. \A p \in 1..Len(t) :
           InPlace(t, p) /\ (t[p][1] = "message_stop" => p = Len(t) /\ t[p - 1][1] = "message_delta")
    BY <1>0, <1>1, <1>2 DEF Longer
  <1>4. CountIn(s, "message_stop", Len(s)) = 0
    BY CountNone DEF Under
  <1>5. CountIn(t, "message_stop", Len(t)) = 1
    BY <1>4, CountGrown
  <1>6. CountIn(t, "error", Len(t)) = 1 <=> \E p \in 1..Len(t) : t[p] = <<"message_delta", "error">>
    BY <1>0 DEF Longer
  <1> QED
    BY <1>3, <1>5, <1>6 DEF WellFormed

\* A message that goes on, and one that has not begun, are well formed.
LEMMA SendingIsWellFormed ==
    ASSUME NEW s, s = <<>> \/ \E n : \E open \in BOOLEAN : Sending(s, n, open)
    PROVE  WellFormed(s, FALSE)
  <1>1. CASE s = <<>>
    <2>1. Len(s) = 0
      BY <1>1
    <2>2. CountIn(s, "message_stop", Len(s)) = 0 /\ CountIn(s, "error", Len(s)) = 0
      BY <2>1, CountNone
    <2> QED
      BY <2>1, <2>2 DEF WellFormed
  <1>2. ASSUME NEW n, NEW open \in BOOLEAN, Sending(s, n, open) PROVE WellFormed(s, FALSE)
    <2>1. CountIn(s, "message_stop", Len(s)) = 0
      BY <1>2, CountNone DEF Sending, Under
    <2> QED
      BY <1>2, <2>1 DEF Sending, Under, WellFormed
  <1> QED
    BY <1>1, <1>2

ToolNumbers == 1..ChatTools

\* The translator while it handles an event; out is what the event has made it say.
Translators ==
    [state : {"INIT", "STARTED", "TEXT_BLOCK", "TOOL_BLOCK", "DONE"}, current : Int, next : Nat,
     blocks : [ToolNumbers -> Int], finished : BOOLEAN, out : Seq(AnthropicEvents)]

Said(m) == sent \o m.out

NoTools(m) == \A t \in ToolNumbers : m.blocks[t] = -1

\* How far the message is, in each state of the translator of an ordinary stream.
Stage(m, s) ==
    \/ m.state = "INIT" /\ ~m.finished /\ m.next = 0 /\ NoTools(m) /\ s = <<>>
    \/ m.state = "STARTED" /\ ~m.finished /\ m.next = 0 /\ NoTools(m) /\ Sending(s, 0, FALSE)
    \/ m.state = "TEXT_BLOCK" /\ ~m.finished /\ m.next = 1 /\ m.current = 0 /\ NoTools(m) /\ Sending(s, 1, TRUE)
    \/ /\ m.state = "TOOL_BLOCK" /\ ~m.finished /\ m.next \in Nat \ {0} /\ m.current = m.next - 1
       /\ Sending(s, m.next, TRUE)
       /\ \E u \in ToolNumbers :
             m.blocks[u] = m.current /\ \A t \in ToolNumbers : m.blocks[t] # -1 => t <= u
    \/ m.state = "DONE" /\ m.finished /\ WellFormed(s, TRUE)

Sound(m) == m \in Translators /\ Said(m) \in Seq(AnthropicEvents) /\ Stage(m, Said(m))

\* Saying more: nothing, one event, two, or one after the other.
LEMMA SaysMore ==
    ASSUME sent \in Seq(AnthropicEvents), NEW m \in Translators, NEW evs \in Seq(AnthropicEvents)
    PROVE  /\ O2A!Emit(m, evs) = [m EXCEPT !.out = m.out \o evs]
           /\ O2A!Emit(m, evs) \in Translators
           /\ Said(m) \in Seq(AnthropicEvents)
           /\ sent \o (m.out \o evs) = Said(m) \o evs
           /\ Said(m) \o evs \in Seq(AnthropicEvents)
           /\ m.out \o evs \in Seq(AnthropicEvents)
  <1>1. m.out \in Seq(AnthropicEvents)
    BY DEF Translators
  <1>2. m.out \o evs \in Seq(AnthropicEvents) /\ sent \o m.out \in Seq(AnthropicEvents)
        /\ sent \o (m.out \o evs) = (sent \o m.out) \o evs
    <2>1. m.out \o evs \in Seq(AnthropicEvents)
      BY <1>1, ConcatProperties
    <2>2. sent \o m.out \in Seq(AnthropicEvents)
      BY <1>1, ConcatProperties
    <2>3. sent \o (m.out \o evs) = (sent \o m.out) \o evs
      <3>1. PICK o \in Seq(AnthropicEvents) : o = m.out
        BY <1>1
      <3>2. (sent \o o) \o evs = sent \o (o \o evs)
        BY ConcatAssociative
      <3> QED
        BY <3>1, <3>2, Zenon
    <2> QED
      BY <2>1, <2>2, <2>3
  <1>3. (sent \o m.out) \o evs \in Seq(AnthropicEvents)
    BY <1>2, ConcatProperties
  <1>4. O2A!Emit(m, evs) = [m EXCEPT !.out = m.out \o evs]
    BY DEF O2A!Emit
  <1>5. [m EXCEPT !.out = m.out \o evs] \in Translators
    BY <1>2 DEF Translators
  <1> QED
    BY <1>2, <1>3, <1>4, <1>5 DEF Said

\* Two events of a message.
LEMMA TwoSaid ==
    ASSUME NEW s \in Seq(AnthropicEvents), NEW a \in AnthropicEvents, NEW b \in AnthropicEvents
    PROVE  \E t \in Seq(AnthropicEvents) : Grown(s, t, a) /\ Grown(t, s \o <<a, b>>, b)
  <1>1. s \o <<a, b>> = Append(Append(s, a), b)
    BY TwoMore
  <1>2. Grown(s, Append(s, a), a) /\ Append(s, a) \in Seq(AnthropicEvents)
    BY AppendGrows
  <1>3. PICK t \in Seq(AnthropicEvents) : t = Append(s, a)
    BY <1>2
  <1>4. Grown(t, Append(t, b), b)
    BY AppendGrows
  <1> QED
    BY <1>1, <1>2, <1>3, <1>4, Zenon

\* One event of a message.
LEMMA OneSaid ==
    ASSUME NEW s \in Seq(AnthropicEvents), NEW a \in AnthropicEvents
    PROVE  Grown(s, s \o <<a>>, a)
  <1>1. s \o <<a>> = Append(s, a)
    BY AppendIsConcat
  <1> QED
    BY <1>1, AppendGrows, Zenon

\* _emit_message_start keeps the translator sound.
LEMMA OpenedIsSound ==
    ASSUME sent \in Seq(AnthropicEvents), NEW m, Sound(m), m.state # "DONE"
    PROVE  /\ Sound(O2A!Opened(m)) /\ O2A!Opened(m).state \in {"STARTED", "TEXT_BLOCK", "TOOL_BLOCK"}
           /\ O2A!Opened(m).blocks = m.blocks
  <1>1. m \in Translators /\ Said(m) \in Seq(AnthropicEvents) /\ Stage(m, Said(m))
    BY DEF Sound
  <1>2. CASE m.state # "INIT"
    BY <1>1, <1>2 DEF O2A!Opened, Translators, Sound
  <1>3. CASE m.state = "INIT"
    <2> DEFINE a == <<"message_start">>
               b == <<"ping">>
               evs == <<a, b>>
               k == O2A!Emit(m, evs)
               m1 == [k EXCEPT !.state = "STARTED"]
    <2>1. a \in AnthropicEvents /\ b \in AnthropicEvents
      BY DEF AnthropicEvents
    <2>2. evs \in Seq(AnthropicEvents)
      BY <2>1
    <2>3. PICK t \in Seq(AnthropicEvents) : Grown(Said(m), t, a) /\ Grown(t, Said(m) \o evs, b)
      BY <1>1, <2>1, TwoSaid
    <2>4. Said(m) = <<>> /\ ~m.finished /\ m.next = 0 /\ NoTools(m)
      BY <1>1, <1>3 DEF Stage
    <2>5. Sending(t, 0, FALSE)
      BY <2>3, <2>4, MessageBegins
    <2>6. Sending(Said(m) \o evs, 0, FALSE)
      BY <2>3, <2>5, Pings
    <2> HIDE DEF evs, a, b
    <2>7. /\ k = [m EXCEPT !.out = m.out \o evs] /\ sent \o (m.out \o evs) = Said(m) \o evs
          /\ Said(m) \o evs \in Seq(AnthropicEvents) /\ m.out \o evs \in Seq(AnthropicEvents)
      BY <1>1, <2>2, SaysMore
    <2> HIDE DEF k
    <2>8. /\ m1 \in Translators /\ m1.state = "STARTED" /\ m1.out = m.out \o evs /\ m1.next = m.next
          /\ m1.blocks = m.blocks /\ m1.finished = m.finished
      BY <1>1, <2>7 DEF Translators
    <2>9. O2A!Opened(m) = m1
      BY <1>3 DEF O2A!Opened, k, evs, a, b
    <2> HIDE DEF m1
    <2>10. Said(m1) = Said(m) \o evs
      BY <2>7, <2>8 DEF Said
    <2>11. Stage(m1, Said(m1))
      BY <2>4, <2>6, <2>8, <2>10 DEF Stage, NoTools
    <2> QED
      BY <2>7, <2>8, <2>9, <2>10, <2>11 DEF Sound
  <1> QED
    BY <1>2, <1>3
\* delta.content, before any tool call.
LEMMA TextIsSound ==
    ASSUME sent \in Seq(AnthropicEvents), NEW m, Sound(m), m.state \in {"STARTED", "TEXT_BLOCK", "TOOL_BLOCK"}, NoTools(m)
    PROVE  /\ Sound(O2A!WithText(m)) /\ O2A!WithText(m).state \in {"STARTED", "TEXT_BLOCK", "TOOL_BLOCK"}
           /\ O2A!WithText(m).blocks = m.blocks
  <1>1. m \in Translators /\ Said(m) \in Seq(AnthropicEvents) /\ Stage(m, Said(m))
    BY DEF Sound
  <1>2. m.state # "TOOL_BLOCK"
    <2>1. ASSUME m.state = "TOOL_BLOCK" PROVE FALSE
      <3>1. /\ m.next \in Nat \ {0} /\ m.current = m.next - 1
            /\ \E u \in ToolNumbers : m.blocks[u] = m.current
        BY <1>1, <2>1 DEF Stage
      <3>2. m.current = -1
        BY <3>1 DEF NoTools
      <3> QED
        BY <3>1, <3>2
    <2> QED
      BY <2>1
  <1> DEFINE a == <<"start", 0>>
             b == <<"delta", 0>>
  <1>3. a \in AnthropicEvents /\ b \in AnthropicEvents /\ a = <<"start", 0>> /\ b = <<"delta", 0>> /\ b = <<"delta", 1 - 1>>
    BY DEF AnthropicEvents
  <1> HIDE DEF a, b
  <1>4. CASE m.state = "STARTED"
    <2> DEFINE evs == <<a, b>>
               k == O2A!Emit(m, evs)
               m1 == [k EXCEPT !.state = "TEXT_BLOCK", !.current = 0, !.next = 1]
    <2>1. evs \in Seq(AnthropicEvents)
      BY <1>3
    <2>2. PICK t \in Seq(AnthropicEvents) : Grown(Said(m), t, a) /\ Grown(t, Said(m) \o evs, b)
      BY <1>1, <1>3, TwoSaid
    <2>3. ~m.finished /\ NoTools(m) /\ Sending(Said(m), 0, FALSE)
      BY <1>1, <1>4 DEF Stage
    <2>4. Sending(t, 1, TRUE)
      <3>1. Sending(t, 0 + 1, TRUE)
        BY <1>3, <2>2, <2>3, BlockStarts, Zenon
      <3>2. 0 + 1 = 1
        OBVIOUS
      <3> QED
        BY <3>1, <3>2, Zenon
    <2>5. Sending(Said(m) \o evs, 1, TRUE)
      BY <1>3, <2>2, <2>4, BlockGoesOn, Zenon
    <2> HIDE DEF evs
    <2>6. /\ k = [m EXCEPT !.out = m.out \o evs] /\ sent \o (m.out \o evs) = Said(m) \o evs
          /\ Said(m) \o evs \in Seq(AnthropicEvents) /\ m.out \o evs \in Seq(AnthropicEvents)
      BY <1>1, <2>1, SaysMore
    <2> HIDE DEF k
    <2>7. /\ m1 \in Translators /\ m1.state = "TEXT_BLOCK" /\ m1.out = m.out \o evs /\ m1.next = 1 /\ m1.current = 0
          /\ m1.blocks = m.blocks /\ m1.finished = m.finished
      <3>1. k \in Translators /\ k.out = m.out \o evs /\ k.blocks = m.blocks /\ k.finished = m.finished
        BY <1>1, <2>6 DEF Translators
      <3>2. PICK c \in Int, n \in Nat : c = 0 /\ n = 1
        OBVIOUS
      <3>3. m1 = [k EXCEPT !.state = "TEXT_BLOCK", !.current = c, !.next = n]
        BY <3>2, Zenon
      <3> HIDE DEF m1
      <3>4. m1 \in Translators
        BY <3>1, <3>3, Zenon DEF Translators
      <3>5. /\ m1.state = "TEXT_BLOCK" /\ m1.current = c /\ m1.next = n
            /\ m1.blocks = k.blocks /\ m1.finished = k.finished /\ m1.out = k.out
        BY <3>1, <3>3 DEF Translators
      <3> QED
        BY <3>1, <3>2, <3>4, <3>5
    <2>8. O2A!WithText(m) = m1
      BY <1>4 DEF O2A!WithText, k, evs, a, b
    <2> HIDE DEF m1
    <2>9. Said(m1) = Said(m) \o evs
      BY <2>6, <2>7 DEF Said
    <2>10. Stage(m1, Said(m1))
      BY <2>3, <2>5, <2>7, <2>9 DEF Stage, NoTools
    <2> QED
      BY <2>6, <2>7, <2>8, <2>9, <2>10 DEF Sound
  <1>5. CASE m.state = "TEXT_BLOCK"
    <2> DEFINE evs == <<b>>
               m1 == O2A!Emit(m, evs)
    <2>1. evs \in Seq(AnthropicEvents)
      BY <1>3
    <2>2. Grown(Said(m), Said(m) \o evs, b)
      BY <1>1, <1>3, OneSaid
    <2>3. ~m.finished /\ NoTools(m) /\ Sending(Said(m), 1, TRUE) /\ m.next = 1 /\ m.current = 0
      BY <1>1, <1>5 DEF Stage
    <2>4. Sending(Said(m) \o evs, 1, TRUE)
      BY <1>3, <2>2, <2>3, BlockGoesOn, Zenon
    <2> HIDE DEF evs
    <2>5. /\ m1 = [m EXCEPT !.out = m.out \o evs] /\ sent \o (m.out \o evs) = Said(m) \o evs
          /\ Said(m) \o evs \in Seq(AnthropicEvents) /\ m.out \o evs \in Seq(AnthropicEvents)
      BY <1>1, <2>1, SaysMore
    <2>6. O2A!WithText(m) = m1
      BY <1>5 DEF O2A!WithText, evs, b
    <2> HIDE DEF m1
    <2>7. /\ m1 \in Translators /\ m1.state = "TEXT_BLOCK" /\ m1.out = m.out \o evs /\ m1.next = 1 /\ m1.current = 0
          /\ m1.blocks = m.blocks /\ m1.finished = m.finished
      BY <1>1, <1>5, <2>3, <2>5 DEF Translators
    <2>8. Said(m1) = Said(m) \o evs
      BY <2>5, <2>7 DEF Said
    <2>9. Stage(m1, Said(m1))
      BY <2>3, <2>4, <2>7, <2>8 DEF Stage, NoTools
    <2> QED
      BY <2>5, <2>6, <2>7, <2>8, <2>9 DEF Sound
  <1> QED
    BY <1>2, <1>4, <1>5
\* One event or none: the arguments of a tool call.
Arguments(args, n) == IF args THEN <<<<"delta", n>>>> ELSE <<>>

\* The arguments go to the open block.
LEMMA ArgumentsAreSent ==
    ASSUME NEW s \in Seq(AnthropicEvents), NEW n \in Nat \ {0}, Sending(s, n, TRUE), NEW args \in BOOLEAN
    PROVE  Sending(s \o Arguments(args, n - 1), n, TRUE) /\ Arguments(args, n - 1) \in Seq(AnthropicEvents)
  <1>1. CASE ~args
    <2>1. Arguments(args, n - 1) = <<>>
      BY <1>1 DEF Arguments
    <2>2. s \o <<>> = s /\ <<>> \in Seq(AnthropicEvents)
      BY ConcatEmptySeq, EmptySeq
    <2> QED
      BY <2>1, <2>2
  <1>2. CASE args
    <2> DEFINE a == <<"delta", n - 1>>
    <2>1. a \in AnthropicEvents
      BY DEF AnthropicEvents
    <2>2. Arguments(args, n - 1) = <<a>>
      BY <1>2 DEF Arguments
    <2>3. Grown(s, s \o <<a>>, a) /\ <<a>> \in Seq(AnthropicEvents)
      BY <2>1, OneSaid
    <2>4. Sending(s \o <<a>>, n, TRUE)
      BY <2>3, BlockGoesOn, Zenon
    <2> QED
      BY <2>2, <2>3, <2>4
  <1> QED
    BY <1>1, <1>2

\* The open block, if any, is closed, and the next one begins.
LEMMA NextBlockBegins ==
    ASSUME NEW s \in Seq(AnthropicEvents), NEW n \in Nat, NEW open \in BOOLEAN, Sending(s, n, open), open => n # 0,
           NEW stops, stops = IF open THEN <<<<"stop", n - 1>>>> ELSE <<>>
    PROVE  /\ stops \o <<<<"start", n>>>> \in Seq(AnthropicEvents)
           /\ Sending(s \o (stops \o <<<<"start", n>>>>), n + 1, TRUE)
           /\ s \o (stops \o <<<<"start", n>>>>) \in Seq(AnthropicEvents)
  <1> DEFINE a == <<"stop", n - 1>>
             b == <<"start", n>>
  <1>1. b \in AnthropicEvents /\ (open => a \in AnthropicEvents)
    BY DEF AnthropicEvents
  <1>2. CASE ~open
    <2>1. stops \o <<b>> = <<b>> /\ <<b>> \in Seq(AnthropicEvents)
      BY <1>1, <1>2
    <2>2. Grown(s, s \o <<b>>, b)
      BY <1>1, OneSaid
    <2>3. Sending(s \o <<b>>, n + 1, TRUE)
      <3>1. open = FALSE
        BY <1>2
      <3> QED
        BY <2>2, <3>1, BlockStarts, Zenon
    <2>4. s \o <<b>> \in Seq(AnthropicEvents)
      BY <2>1, ConcatProperties
    <2> QED
      BY <2>1, <2>3, <2>4
  <1>3. CASE open
    <2>1. stops \o <<b>> = <<a, b>> /\ <<a, b>> \in Seq(AnthropicEvents)
      <3>1. a \in AnthropicEvents /\ stops = <<a>>
        BY <1>1, <1>3
      <3> HIDE DEF a, b
      <3>2. <<a>> \o <<b>> = <<a, b>> /\ <<a, b>> \in Seq(AnthropicEvents)
        <4>1. <<a, b>> \in Seq(AnthropicEvents)
          BY <1>1, <3>1
        <4> QED
          BY <1>1, <3>1, <4>1, OneAndOne
      <3> QED
        BY <3>1, <3>2, Zenon
    <2>2. PICK t \in Seq(AnthropicEvents) : Grown(s, t, a) /\ Grown(t, s \o <<a, b>>, b)
      BY <1>1, <1>3, TwoSaid
    <2>3. Sending(t, n, FALSE)
      <3>1. open = TRUE
        BY <1>3
      <3> QED
        BY <2>2, <3>1, BlockStops, Zenon
    <2>4. Sending(s \o <<a, b>>, n + 1, TRUE)
      BY <2>2, <2>3, BlockStarts, Zenon
    <2>5. s \o <<a, b>> \in Seq(AnthropicEvents)
      BY <2>1, ConcatProperties
    <2> QED
      BY <2>1, <2>4, <2>5
  <1> QED
    BY <1>2, <1>3
\* _handle_tool_calls, when no later tool call has begun.
LEMMA ToolIsSound ==
    ASSUME sent \in Seq(AnthropicEvents), NEW m, Sound(m), m.state \in {"STARTED", "TEXT_BLOCK", "TOOL_BLOCK"},
           NEW t \in ToolNumbers, NEW args \in BOOLEAN, \A x \in ToolNumbers : m.blocks[x] # -1 => x <= t
    PROVE  /\ Sound(O2A!WithTool(m, t, args)) /\ O2A!WithTool(m, t, args).state = "TOOL_BLOCK"
           /\ \A x \in ToolNumbers : O2A!WithTool(m, t, args).blocks[x] # -1 => x = t \/ m.blocks[x] # -1
  <1>1. m \in Translators /\ Said(m) \in Seq(AnthropicEvents) /\ Stage(m, Said(m))
    BY DEF Sound
  <1>2. CASE m.blocks[t] # -1
    <2>1. m.state = "TOOL_BLOCK"
      BY <1>1, <1>2 DEF Stage, NoTools
    <2>2. PICK u \in ToolNumbers : m.blocks[u] = m.current /\ \A x \in ToolNumbers : m.blocks[x] # -1 => x <= u
      BY <1>1, <2>1 DEF Stage
    <2>3. m.next \in Nat \ {0} /\ m.current = m.next - 1 /\ Sending(Said(m), m.next, TRUE) /\ ~m.finished
      BY <1>1, <2>1 DEF Stage
    <2>4. m.blocks[t] = m.next - 1
      <3>1. m.blocks[u] # -1
        BY <2>2, <2>3
      <3>2. t <= u /\ u <= t
        BY <1>2, <2>2, <3>1
      <3>3. t \in Int /\ u \in Int
        BY DEF ToolNumbers
      <3>4. t = u
        BY <3>2, <3>3
      <3> QED
        BY <2>2, <2>3, <3>4
    <2> DEFINE evs == Arguments(args, m.next - 1)
               m1 == O2A!Emit(m, evs)
    <2>5. O2A!WithTool(m, t, args) = m1
      BY <1>2, <2>4 DEF O2A!WithTool, Arguments
    <2>6. Sending(Said(m) \o evs, m.next, TRUE) /\ evs \in Seq(AnthropicEvents)
      BY <1>1, <2>3, ArgumentsAreSent
    <2> HIDE DEF evs
    <2>7. /\ m1 = [m EXCEPT !.out = m.out \o evs] /\ sent \o (m.out \o evs) = Said(m) \o evs
          /\ Said(m) \o evs \in Seq(AnthropicEvents) /\ m.out \o evs \in Seq(AnthropicEvents)
      BY <1>1, <2>6, SaysMore
    <2> HIDE DEF m1
    <2>8. /\ m1 \in Translators /\ m1.state = "TOOL_BLOCK" /\ m1.out = m.out \o evs /\ m1.next = m.next
          /\ m1.current = m.current /\ m1.blocks = m.blocks /\ m1.finished = m.finished
      BY <1>1, <2>1, <2>7 DEF Translators
    <2>9. Said(m1) = Said(m) \o evs
      BY <2>7, <2>8 DEF Said
    <2>10. Stage(m1, Said(m1))
      BY <2>2, <2>3, <2>6, <2>8, <2>9 DEF Stage
    <2> QED
      BY <2>5, <2>7, <2>8, <2>9, <2>10 DEF Sound
  <1>3. CASE m.blocks[t] = -1
    <2> DEFINE n == m.next
               begun == O2A!Before(m) \o <<<<"start", n>>>>
               delta == Arguments(args, n)
               evs == begun \o delta
               k == O2A!Emit(m, evs)
               m1 == [k EXCEPT !.state = "TOOL_BLOCK", !.current = n, !.next = @ + 1, !.blocks[t] = n]
    <2>1. PICK open \in BOOLEAN : /\ Sending(Said(m), n, open) /\ (open => n # 0) /\ n \in Nat /\ ~m.finished
                                  /\ O2A!Before(m) = IF open THEN <<<<"stop", n - 1>>>> ELSE <<>>
      <3>1. CASE m.state = "STARTED"
        <4>1. m.next = 0 /\ ~m.finished /\ Sending(Said(m), 0, FALSE) /\ O2A!Before(m) = <<>>
          BY <1>1, <3>1 DEF Stage, O2A!Before
        <4>2. Sending(Said(m), n, FALSE)
          BY <4>1, Zenon
        <4>3. n \in Nat /\ FALSE \in BOOLEAN
          BY <4>1
        <4> HIDE DEF n
        <4> QED
          BY <4>1, <4>2, <4>3
      <3>2. ASSUME m.state \in {"TEXT_BLOCK", "TOOL_BLOCK"}
            PROVE  Sending(Said(m), n, TRUE) /\ n # 0 /\ n \in Nat /\ ~m.finished
        <4>1. CASE m.state = "TEXT_BLOCK"
          <5>1. m.next = 1 /\ ~m.finished /\ Sending(Said(m), 1, TRUE)
            BY <1>1, <4>1 DEF Stage
          <5>2. Sending(Said(m), n, TRUE)
            BY <5>1, Zenon
          <5>3. n # 0 /\ n \in Nat
            BY <5>1
          <5> HIDE DEF n
          <5> QED
            BY <5>1, <5>2, <5>3
        <4>2. CASE m.state = "TOOL_BLOCK"
          BY <1>1, <4>2 DEF Stage
        <4> QED
          BY <3>2, <4>1, <4>2
      <3>3. ASSUME m.state \in {"TEXT_BLOCK", "TOOL_BLOCK"} PROVE O2A!Before(m) = <<<<"stop", n - 1>>>>
        <4>1. CASE m.state = "TEXT_BLOCK"
          <5>1. O2A!Before(m) = <<<<"stop", 0>>>>
            BY <4>1 DEF O2A!Before
          <5>2. 0 = n - 1
            BY <1>1, <4>1 DEF Stage
          <5> QED
            BY <5>1, <5>2, Zenon
        <4>2. CASE m.state = "TOOL_BLOCK"
          <5>1. O2A!Before(m) = <<<<"stop", m.current>>>>
            BY <4>2 DEF O2A!Before
          <5>2. m.current = n - 1
            BY <1>1, <4>2 DEF Stage
          <5> QED
            BY <5>1, <5>2, Zenon
        <4> QED
          BY <3>3, <4>1, <4>2
      <3>4. TRUE \in BOOLEAN
        OBVIOUS
      <3> HIDE DEF n
      <3> QED
        BY <3>1, <3>2, <3>3, <3>4
    <2>2. O2A!WithTool(m, t, args) = m1
      BY <1>3 DEF O2A!WithTool, Arguments
    <2>3. /\ begun \in Seq(AnthropicEvents) /\ Sending(Said(m) \o begun, n + 1, TRUE)
          /\ Said(m) \o begun \in Seq(AnthropicEvents)
      BY <1>1, <2>1, NextBlockBegins
    <2>4. n + 1 \in Nat \ {0} /\ (n + 1) - 1 = n /\ n \in Int
      BY <2>1
    <2> HIDE DEF begun
    <2>5. Sending((Said(m) \o begun) \o delta, n + 1, TRUE) /\ delta \in Seq(AnthropicEvents)
      <3>1. /\ Sending((Said(m) \o begun) \o Arguments(args, (n + 1) - 1), n + 1, TRUE)
            /\ Arguments(args, (n + 1) - 1) \in Seq(AnthropicEvents)
        BY <2>3, <2>4, ArgumentsAreSent
      <3> QED
        BY <2>4, <3>1, Zenon
    <2> HIDE DEF delta
    <2>6. (Said(m) \o begun) \o delta = Said(m) \o evs /\ evs \in Seq(AnthropicEvents)
      BY <1>1, <2>3, <2>5, ConcatAssociative, ConcatProperties, SMTT(30)
    <2> HIDE DEF evs
    <2>7. /\ k = [m EXCEPT !.out = m.out \o evs] /\ sent \o (m.out \o evs) = Said(m) \o evs
          /\ Said(m) \o evs \in Seq(AnthropicEvents) /\ m.out \o evs \in Seq(AnthropicEvents)
      BY <1>1, <2>6, SaysMore
    <2> HIDE DEF k
    <2>8. /\ k \in Translators /\ k.out = m.out \o evs /\ k.next = n
          /\ k.blocks = m.blocks /\ k.finished = m.finished
      BY <1>1, <2>7 DEF Translators
    <2>9. /\ m1 \in Translators /\ m1.state = "TOOL_BLOCK" /\ m1.current = n /\ m1.next = k.next + 1
          /\ m1.blocks = [k.blocks EXCEPT ![t] = n] /\ m1.finished = k.finished /\ m1.out = k.out
      <3>1. PICK next1 \in Nat : next1 = k.next + 1
        BY <2>4, <2>8
      <3>2. PICK blocks1 \in [ToolNumbers -> Int] : blocks1 = [k.blocks EXCEPT ![t] = n]
        BY <2>4, <2>8 DEF Translators
      <3>3. m1 = [[[[k EXCEPT !.state = "TOOL_BLOCK"] EXCEPT !.current = n] EXCEPT !.next = next1]
                     EXCEPT !.blocks = blocks1]
        BY <2>8, <3>1, <3>2 DEF Translators
      <3>4. m1 \in Translators
        BY <2>4, <2>8, <3>3, Zenon DEF Translators
      <3>5. /\ m1.state = "TOOL_BLOCK" /\ m1.current = n /\ m1.next = k.next + 1
            /\ m1.blocks = [k.blocks EXCEPT ![t] = n] /\ m1.finished = k.finished /\ m1.out = k.out
        BY <2>8 DEF Translators
      <3> QED
        BY <3>4, <3>5
    <2> HIDE DEF m1
    <2>10. Said(m1) = Said(m) \o evs
      BY <2>7, <2>8, <2>9 DEF Said
    <2>11. m1.blocks[t] = n /\ \A x \in ToolNumbers : x # t => m1.blocks[x] = m.blocks[x]
      BY <1>1, <2>8, <2>9 DEF Translators
    <2>12. \A x \in ToolNumbers : m1.blocks[x] # -1 => x <= t
      <3>1. t <= t
        BY DEF ToolNumbers
      <3> QED
        BY <2>11, <3>1
    <2>13. Sending(Said(m1), m1.next, TRUE) /\ m1.next \in Nat \ {0} /\ m1.current = m1.next - 1 /\ ~m1.finished
      <3>1. m1.next = n + 1
        BY <2>8, <2>9
      <3>2. Sending(Said(m1), m1.next, TRUE)
        BY <2>5, <2>6, <2>10, <3>1, Zenon
      <3> QED
        BY <2>1, <2>4, <2>8, <2>9, <3>1, <3>2
    <2>14. Stage(m1, Said(m1))
      BY <2>9, <2>11, <2>12, <2>13 DEF Stage
    <2> QED
      BY <2>2, <2>7, <2>9, <2>10, <2>11, <2>14 DEF Sound
  <1> QED
    BY <1>2, <1>3
\* The open block, if any, is closed.
LEMMA OpenIsClosed ==
    ASSUME sent \in Seq(AnthropicEvents), NEW m, Sound(m), m.state \in {"STARTED", "TEXT_BLOCK", "TOOL_BLOCK"},
           NEW stops, stops = IF O2A!Open(m) THEN <<<<"stop", m.current>>>> ELSE <<>>
    PROVE  stops \in Seq(AnthropicEvents) /\ \E n : Sending(Said(m) \o stops, n, FALSE)
  <1>1. m \in Translators /\ Said(m) \in Seq(AnthropicEvents) /\ Stage(m, Said(m))
    BY DEF Sound
  <1>2. CASE m.state = "STARTED"
    <2>1. stops = <<>> /\ Sending(Said(m), 0, FALSE)
      BY <1>1, <1>2 DEF Stage, O2A!Open
    <2>2. <<>> \in Seq(AnthropicEvents) /\ Said(m) \o <<>> = Said(m)
      BY <1>1, EmptySeq, ConcatEmptySeq
    <2> QED
      BY <2>1, <2>2, Zenon
  <1>3. ASSUME NEW n \in Nat \ {0}, Sending(Said(m), n, TRUE), m.current = n - 1, stops = <<<<"stop", m.current>>>>
        PROVE  stops \in Seq(AnthropicEvents) /\ Sending(Said(m) \o stops, n, FALSE)
    <2> DEFINE a == <<"stop", n - 1>>
    <2>1. a \in AnthropicEvents
      <3>1. n - 1 \in Nat
        OBVIOUS
      <3> QED
        BY <3>1 DEF AnthropicEvents
    <2>0. stops = <<a>>
      BY <1>3, Zenon
    <2>2. Grown(Said(m), Said(m) \o <<a>>, a) /\ <<a>> \in Seq(AnthropicEvents)
      <3> HIDE DEF a
      <3>1. <<a>> \in Seq(AnthropicEvents)
        BY <2>1
      <3> QED
        BY <1>1, <2>1, <3>1, OneSaid
    <2>3. Sending(Said(m) \o <<a>>, n, FALSE)
      BY <1>3, <2>2, BlockStops, Zenon
    <2> QED
      BY <2>0, <2>2, <2>3, Zenon
  <1>4. CASE m.state = "TEXT_BLOCK"
    <2>1. m.current = 0 /\ Sending(Said(m), 1, TRUE) /\ stops = <<<<"stop", m.current>>>>
      BY <1>1, <1>4 DEF Stage, O2A!Open
    <2>2. PICK n \in Nat \ {0} : n = 1
      OBVIOUS
    <2>3. m.current = n - 1
      BY <2>1, <2>2
    <2>4. Sending(Said(m), n, TRUE)
      BY <2>1, <2>2, Zenon
    <2> QED
      BY <1>3, <2>1, <2>3, <2>4, Zenon
  <1>5. CASE m.state = "TOOL_BLOCK"
    <2>1. /\ m.next \in Nat \ {0} /\ m.current = m.next - 1 /\ Sending(Said(m), m.next, TRUE)
          /\ stops = <<<<"stop", m.current>>>>
      BY <1>1, <1>5 DEF Stage, O2A!Open
    <2> QED
      BY <1>3, <2>1, Zenon
  <1> QED
    BY <1>2, <1>4, <1>5

\* What comes between the last block and the end: an error, or nothing.
Between(mid, bad) == mid = IF bad THEN <<<<"error">>>> ELSE <<>>

\* An error first, or nothing.
LEMMA MiddleIsSent ==
    ASSUME NEW s \in Seq(AnthropicEvents), NEW n, Sending(s, n, FALSE), NEW bad \in BOOLEAN,
           NEW mid, Between(mid, bad)
    PROVE  mid \in Seq(AnthropicEvents) /\ s \o mid \in Seq(AnthropicEvents) /\ Under(s \o mid, n, FALSE, bad, "none")
  <1>1. CASE ~bad
    <2>1. mid = <<>> /\ bad = FALSE
      BY <1>1 DEF Between
    <2>2. <<>> \in Seq(AnthropicEvents) /\ s \o <<>> = s
      BY EmptySeq, ConcatEmptySeq
    <2> QED
      BY <2>1, <2>2, Zenon DEF Sending
  <1>2. CASE bad
    <2> DEFINE a == <<"error">>
    <2>1. a \in AnthropicEvents
      BY DEF AnthropicEvents
    <2>2. mid = <<a>> /\ bad = TRUE
      BY <1>2 DEF Between
    <2>3. Grown(s, s \o <<a>>, a) /\ <<a>> \in Seq(AnthropicEvents)
      BY <2>1, OneSaid
    <2>4. s \o <<a>> \in Seq(AnthropicEvents)
      BY <2>3, ConcatProperties
    <2>5. Under(s \o <<a>>, n, FALSE, TRUE, "none")
      BY <2>3, ErrorIsSent, Zenon
    <2> QED
      BY <2>2, <2>3, <2>4, <2>5, Zenon
  <1> QED
    BY <1>1, <1>2

\* message_delta and message_stop.
LEMMA EndIsSent ==
    ASSUME NEW s \in Seq(AnthropicEvents), NEW n, NEW bad \in BOOLEAN, Under(s, n, FALSE, bad, "none"),
           NEW r \in Reasons, bad <=> r = "error"
    PROVE  /\ <<<<"message_delta", r>>, <<"message_stop">>>> \in Seq(AnthropicEvents)
           /\ WellFormed(s \o <<<<"message_delta", r>>, <<"message_stop">>>>, TRUE)
  <1> DEFINE a == <<"message_delta", r>>
             b == <<"message_stop">>
  <1>1. a \in AnthropicEvents /\ b \in AnthropicEvents
    BY DEF AnthropicEvents
  <1>2. <<a, b>> \in Seq(AnthropicEvents)
    BY <1>1
  <1>3. PICK t \in Seq(AnthropicEvents) : Grown(s, t, a) /\ Grown(t, s \o <<a, b>>, b)
    BY <1>1, TwoSaid
  <1>4. Under(t, n, FALSE, bad, r)
    BY <1>3, ReasonIsSent
  <1>5. WellFormed(s \o <<a, b>>, TRUE)
    BY <1>3, <1>4, MessageEnds
  <1> QED
    BY <1>2, <1>5

\* Four sequences, one behind the other.
Row(a, b, c, d) == (b \o c) \o d \in Seq(AnthropicEvents) /\ ((a \o b) \o c) \o d = a \o ((b \o c) \o d)

\* It does not matter which two are joined first.
LEMMA FourInARow ==
    ASSUME NEW a \in Seq(AnthropicEvents), NEW b \in Seq(AnthropicEvents),
           NEW c \in Seq(AnthropicEvents), NEW d \in Seq(AnthropicEvents)
    PROVE  Row(a, b, c, d)
  <1>1. PICK x \in Seq(AnthropicEvents) : x = b \o c
    BY ConcatProperties
  <1>2. (a \o b) \o c = a \o x
    BY <1>1, ConcatAssociative
  <1>3. (a \o x) \o d = a \o (x \o d)
    BY ConcatAssociative, SMTT(30)
  <1>4. x \o d \in Seq(AnthropicEvents)
    BY ConcatProperties
  <1> QED
    BY <1>1, <1>2, <1>3, <1>4, Zenon DEF Row

\* The message ends with this reason.
LastWords(s, r) == s[Len(s) - 1] = <<"message_delta", r>>

\* What _finish and _finish_with_error share keeps the translator sound.
LEMMA ClosingIsSound ==
    ASSUME sent \in Seq(AnthropicEvents), NEW m, Sound(m), m.state \in {"STARTED", "TEXT_BLOCK", "TOOL_BLOCK"},
           NEW bad \in BOOLEAN, NEW mid, Between(mid, bad),
           NEW r \in Reasons, bad <=> r = "error"
    PROVE  /\ Sound(O2A!Closing(m, mid, r)) /\ O2A!Closing(m, mid, r).state = "DONE"
           /\ O2A!Closing(m, mid, r).finished /\ O2A!Closing(m, mid, r).blocks = m.blocks
           /\ LastWords(Said(O2A!Closing(m, mid, r)), r)
  <1> DEFINE stops == IF O2A!Open(m) THEN <<<<"stop", m.current>>>> ELSE <<>>
             tail == <<<<"message_delta", r>>, <<"message_stop">>>>
             evs == stops \o mid \o tail
             k == O2A!Emit(m, evs)
             m1 == [k EXCEPT !.state = "DONE", !.finished = TRUE]
  <1>1. m \in Translators /\ Said(m) \in Seq(AnthropicEvents)
    BY DEF Sound
  <1>2. O2A!Closing(m, mid, r) = m1
    BY DEF O2A!Closing
  <1>3. stops \in Seq(AnthropicEvents) /\ \E n : Sending(Said(m) \o stops, n, FALSE)
    BY OpenIsClosed
  <1> HIDE DEF stops
  <1>4. PICK n : Sending(Said(m) \o stops, n, FALSE)
    BY <1>3
  <1>5. PICK s \in Seq(AnthropicEvents) : s = Said(m) \o stops
    BY <1>1, <1>3, ConcatProperties
  <1>6. mid \in Seq(AnthropicEvents) /\ s \o mid \in Seq(AnthropicEvents) /\ Under(s \o mid, n, FALSE, bad, "none")
    BY <1>4, <1>5, MiddleIsSent
  <1>7. tail \in Seq(AnthropicEvents) /\ WellFormed((s \o mid) \o tail, TRUE)
    BY <1>6, EndIsSent
  <1>15. LastWords((s \o mid) \o tail, r)
    <2>1. PICK x \in Seq(AnthropicEvents) : x = s \o mid
      BY <1>6
    <2>2. LastWords(x \o tail, r)
      BY <1>7, ConcatProperties DEF LastWords
    <2> QED
      BY <2>1, <2>2
  <1> HIDE DEF tail
  <1>8. (s \o mid) \o tail = Said(m) \o evs /\ evs \in Seq(AnthropicEvents)
    <2>1. Row(Said(m), stops, mid, tail)
      BY <1>1, <1>3, <1>6, <1>7, FourInARow
    <2> QED
      BY <1>5, <2>1, Zenon DEF Row
  <1> HIDE DEF evs
  <1>9. /\ k = [m EXCEPT !.out = m.out \o evs] /\ sent \o (m.out \o evs) = Said(m) \o evs
        /\ Said(m) \o evs \in Seq(AnthropicEvents) /\ m.out \o evs \in Seq(AnthropicEvents)
    BY <1>1, <1>8, SaysMore
  <1> HIDE DEF k
  <1>10. k \in Translators /\ k.out = m.out \o evs /\ k.blocks = m.blocks
    BY <1>1, <1>9 DEF Translators
  <1>11. m1 \in Translators
    BY <1>10, Zenon DEF Translators
  <1>12. m1.state = "DONE" /\ m1.finished /\ m1.blocks = k.blocks /\ m1.out = k.out
    BY <1>10 DEF Translators
  <1> HIDE DEF m1
  <1>13. Said(m1) = Said(m) \o evs
    BY <1>9, <1>10, <1>12 DEF Said
  <1>14. Stage(m1, Said(m1))
    BY <1>7, <1>8, <1>12, <1>13 DEF Stage
  <1> QED
    BY <1>2, <1>8, <1>9, <1>10, <1>11, <1>12, <1>13, <1>14, <1>15 DEF Sound

\* _finish, on a message that goes on.
LEMMA FinishIsSound ==
    ASSUME sent \in Seq(AnthropicEvents), NEW m, Sound(m), NEW f
    PROVE  /\ Sound(O2A!Finish(m, f)) /\ O2A!Finish(m, f).state = "DONE" /\ O2A!Finish(m, f).finished
           /\ O2A!Finish(m, f).blocks = m.blocks
           /\ ~m.finished => LastWords(Said(O2A!Finish(m, f)), O2A!StopReason(f))
  <1>1. m \in Translators /\ Stage(m, Said(m))
    BY DEF Sound
  <1>2. CASE m.finished
    <2>1. m.state = "DONE"
      BY <1>1, <1>2 DEF Stage
    <2> QED
      BY <1>2, <2>1 DEF O2A!Finish
  <1>3. CASE ~m.finished
    <2>1. m.state # "DONE"
      BY <1>1, <1>3 DEF Stage
    <2> DEFINE k == O2A!Opened(m)
               r == O2A!StopReason(f)
    <2>2. Sound(k) /\ k.state \in {"STARTED", "TEXT_BLOCK", "TOOL_BLOCK"} /\ k.blocks = m.blocks
      BY <2>1, OpenedIsSound
    <2>3. r \in Reasons /\ r # "error"
      BY DEF O2A!StopReason, Reasons
    <2>4. O2A!Finish(m, f) = O2A!Closing(k, <<>>, r)
      BY <1>3 DEF O2A!Finish
    <2> HIDE DEF k, r
    <2>5. PICK bad \in BOOLEAN : bad = FALSE
      OBVIOUS
    <2>6. PICK mid : mid = <<>>
      OBVIOUS
    <2>7. Between(mid, bad)
      BY <2>5, <2>6 DEF Between
    <2>8. bad <=> r = "error"
      BY <2>3, <2>5
    <2>9. /\ Sound(O2A!Closing(k, mid, r)) /\ O2A!Closing(k, mid, r).state = "DONE"
          /\ O2A!Closing(k, mid, r).finished /\ O2A!Closing(k, mid, r).blocks = k.blocks
          /\ LastWords(Said(O2A!Closing(k, mid, r)), r)
      BY <2>2, <2>3, <2>7, <2>8, ClosingIsSound
    <2>10. r = O2A!StopReason(f)
      BY DEF r
    <2> QED
      BY <2>2, <2>4, <2>6, <2>9, <2>10, Zenon
  <1> QED
    BY <1>2, <1>3

\* _finish_with_error, on a message that goes on.
LEMMA ErrorIsSound ==
    ASSUME sent \in Seq(AnthropicEvents), NEW m, Sound(m)
    PROVE  /\ Sound(O2A!FinishWithError(m)) /\ O2A!FinishWithError(m).finished
           /\ O2A!FinishWithError(m).blocks = m.blocks
           /\ ~m.finished => LastWords(Said(O2A!FinishWithError(m)), "error")
  <1>1. m \in Translators /\ Stage(m, Said(m))
    BY DEF Sound
  <1>2. CASE m.finished
    BY <1>2 DEF O2A!FinishWithError
  <1>3. CASE ~m.finished
    <2>1. m.state # "DONE"
      BY <1>1, <1>3 DEF Stage
    <2> DEFINE k == O2A!Opened(m)
    <2>2. Sound(k) /\ k.state \in {"STARTED", "TEXT_BLOCK", "TOOL_BLOCK"} /\ k.blocks = m.blocks
      BY <2>1, OpenedIsSound
    <2>4. O2A!FinishWithError(m) = O2A!Closing(k, <<<<"error">>>>, "error")
      BY <1>3 DEF O2A!FinishWithError
    <2> HIDE DEF k
    <2>5. PICK bad \in BOOLEAN : bad = TRUE
      OBVIOUS
    <2>6. PICK mid : mid = <<<<"error">>>>
      OBVIOUS
    <2>7. Between(mid, bad)
      BY <2>5, <2>6 DEF Between
    <2>8. "error" \in Reasons /\ (bad <=> "error" = "error")
      BY <2>5 DEF Reasons
    <2>9. /\ Sound(O2A!Closing(k, mid, "error"))
          /\ O2A!Closing(k, mid, "error").finished /\ O2A!Closing(k, mid, "error").blocks = k.blocks
          /\ LastWords(Said(O2A!Closing(k, mid, "error")), "error")
      BY <2>2, <2>7, <2>8, ClosingIsSound
    <2> QED
      BY <2>2, <2>4, <2>6, <2>9, Zenon
  <1> QED
    BY <1>2, <1>3

\* What the translator of an ordinary stream keeps, beside its stage: a tool call
\* with a block was fed, the message ended early with the first word on its end
\* and not before, and it ended with the reason of that word.
FedSound ==
    /\ \A t \in ToolNumbers : blocks[t] # -1 => \E i \in 1..Len(fed) : fed[i].tool = t
    /\ finished /\ body # "ended" => \E i \in 1..Len(fed) : O2A!Ends(fed[i])
    /\ ~finished => \A i \in 1..Len(fed) : ~O2A!Ends(fed[i])
    /\ finished => O2A!FirstWord(fed, sent[Len(sent) - 1][2])
    /\ body = "ended" => finished

O2AInv ==
    /\ fed \in Seq(O2A!Events)
    /\ O2A!Ordinary(fed) => sent \in Seq(AnthropicEvents) /\ Sound(O2A!Now) /\ FedSound

\* The parts of an upstream event.
LEMMA ChatEventIs ==
    ASSUME NEW e \in O2A!Events
    PROVE  /\ e.kind \in {"chunk", "done", "error", "noise"} /\ e.text \in BOOLEAN /\ e.args \in BOOLEAN
           /\ e.tool = 0 \/ e.tool \in ToolNumbers
           /\ e.finish \in {"none", "tool_calls"} /\ (e.kind # "chunk" => e.finish = "none")
  BY DEF O2A!Events, O2A!Finishes, ToolNumbers

\* What one more event makes of the events fed.
LEMMA OneFed ==
    ASSUME fed \in Seq(O2A!Events), NEW e \in O2A!Events, fed' = Append(fed, e)
    PROVE  /\ fed' \in Seq(O2A!Events) /\ Len(fed') = Len(fed) + 1 /\ Len(fed) \in Nat
           /\ \A i \in 1..Len(fed) : fed'[i] = fed[i] /\ i \in 1..Len(fed')
           /\ fed'[Len(fed')] = e /\ Len(fed') \in 1..Len(fed')
           /\ O2A!Ordinary(fed') => O2A!Ordinary(fed)
           /\ O2A!Ordinary(fed') => \A i \in 1..Len(fed) :
                 /\ fed[i].tool # 0 => ~e.text
                 /\ fed[i].tool # 0 /\ e.tool # 0 => fed[i].tool <= e.tool
                 /\ O2A!Ends(fed[i]) => e.kind \in {"done", "noise"}
  <1>1. /\ fed' \in Seq(O2A!Events) /\ Len(fed') = Len(fed) + 1 /\ Len(fed) \in Nat
        /\ \A i \in 1..Len(fed) : fed'[i] = fed[i]
        /\ fed'[Len(fed) + 1] = e
    BY AppendProperties
  <1>2. /\ \A i \in 1..Len(fed) : i \in 1..Len(fed') /\ i < Len(fed')
        /\ fed'[Len(fed')] = e /\ Len(fed') \in 1..Len(fed')
    BY <1>1
  <1>3. O2A!Ordinary(fed') => O2A!Ordinary(fed)
    BY <1>1, <1>2 DEF O2A!Ordinary
  <1>4. ASSUME O2A!Ordinary(fed'), NEW i \in 1..Len(fed)
        PROVE  /\ fed[i].tool # 0 => ~e.text
               /\ fed[i].tool # 0 /\ e.tool # 0 => fed[i].tool <= e.tool
               /\ O2A!Ends(fed[i]) => e.kind \in {"done", "noise"}
    <2>1. i \in 1..Len(fed') /\ Len(fed') \in 1..Len(fed') /\ i < Len(fed') /\ fed'[i] = fed[i]
      BY <1>1, <1>2
    <2>2. /\ fed'[i].tool # 0 => ~fed'[Len(fed')].text
          /\ fed'[i].tool # 0 /\ fed'[Len(fed')].tool # 0 => fed'[i].tool <= fed'[Len(fed')].tool
          /\ O2A!Ends(fed'[i]) => fed'[Len(fed')].kind \in {"done", "noise"}
      BY <1>4, <2>1 DEF O2A!Ordinary
    <2> QED
      BY <1>2, <2>1, <2>2
  <1> QED
    BY <1>1, <1>2, <1>3, <1>4

\* The first word on the end stays the first.
LEMMA FirstWordIs ==
    ASSUME fed \in Seq(O2A!Events), NEW e \in O2A!Events, fed' = Append(fed, e)
    PROVE  /\ O2A!Ends(e) /\ (\A i \in 1..Len(fed) : ~O2A!Ends(fed[i])) => O2A!FirstWord(fed', O2A!ReasonOf(e))
           /\ \A r : O2A!FirstWord(fed, r) /\ (\E i \in 1..Len(fed) : O2A!Ends(fed[i])) => O2A!FirstWord(fed', r)
  <1>1. /\ Len(fed') = Len(fed) + 1 /\ Len(fed) \in Nat
        /\ \A i \in 1..Len(fed) : fed'[i] = fed[i] /\ i \in 1..Len(fed')
        /\ fed'[Len(fed')] = e /\ Len(fed') \in 1..Len(fed')
    BY OneFed
  <1>2. ASSUME O2A!Ends(e), \A i \in 1..Len(fed) : ~O2A!Ends(fed[i])
        PROVE  O2A!FirstWord(fed', O2A!ReasonOf(e))
    <2>1. \A j \in 1..(Len(fed') - 1) : ~O2A!Ends(fed'[j])
      BY <1>1, <1>2
    <2> QED
      BY <1>1, <1>2, <2>1 DEF O2A!FirstWord
  <1>3. ASSUME NEW r, O2A!FirstWord(fed, r), \E i \in 1..Len(fed) : O2A!Ends(fed[i])
        PROVE  O2A!FirstWord(fed', r)
    <2>1. PICK i \in 1..Len(fed) : /\ O2A!Ends(fed[i]) /\ r = O2A!ReasonOf(fed[i])
                                   /\ \A j \in 1..(i - 1) : ~O2A!Ends(fed[j])
      BY <1>3 DEF O2A!FirstWord
    <2>2. \A j \in 1..(i - 1) : ~O2A!Ends(fed'[j])
      BY <1>1, <2>1
    <2>3. i \in 1..Len(fed') /\ fed'[i] = fed[i]
      BY <1>1
    <2> QED
      BY <2>1, <2>2, <2>3 DEF O2A!FirstWord
  <1> QED
    BY <1>2, <1>3

\* The parts of the translator between two events.
LEMMA NowIs ==
    /\ O2A!Now.state = state /\ O2A!Now.current = current /\ O2A!Now.next = next /\ O2A!Now.blocks = blocks
    /\ O2A!Now.finished = finished /\ O2A!Now.out = <<>>
  BY DEF O2A!Now

\* What was handled becomes the state of the translator.
LEMMA BecomesSound ==
    ASSUME sent \in Seq(AnthropicEvents), NEW m, Sound(m), O2A!Become(m)
    PROVE  /\ sent' \in Seq(AnthropicEvents) /\ Sound(O2A!Now)' /\ blocks' = m.blocks /\ finished' = m.finished
           /\ sent' = Said(m)
  <1>1. m \in Translators /\ Said(m) \in Seq(AnthropicEvents) /\ Stage(m, Said(m))
    BY DEF Sound
  <1>2. /\ state' = m.state /\ current' = m.current /\ next' = m.next
        /\ blocks' = m.blocks /\ finished' = m.finished /\ sent' = Said(m)
    BY DEF O2A!Become, Said
  <1>3. PICK k : k = O2A!Now'
    OBVIOUS
  <1>4. k = [state |-> m.state, current |-> m.current, next |-> m.next, blocks |-> m.blocks, finished |-> m.finished,
             out |-> <<>>]
    BY <1>2, <1>3 DEF O2A!Now
  <1>5. k \in Translators
    <2>1. <<>> \in Seq(AnthropicEvents)
      BY EmptySeq
    <2> QED
      BY <1>1, <1>4, <2>1 DEF Translators
  <1>6. sent' \o k.out = sent' /\ sent' \in Seq(AnthropicEvents)
    <2>1. k.out = <<>> /\ sent' \in Seq(AnthropicEvents)
      BY <1>1, <1>2, <1>4
    <2> QED
      BY <2>1, ConcatEmptySeq
  <1>7. Stage(k, Said(m))
    BY <1>1, <1>4 DEF Stage, NoTools
  <1>8. k \in Translators /\ sent' \o k.out \in Seq(AnthropicEvents) /\ Stage(k, sent' \o k.out)
    BY <1>2, <1>5, <1>6, <1>7
  <1>9. Sound(O2A!Now)'
    BY <1>3, <1>8, Zenon DEF Sound, Said
  <1> QED
    BY <1>2, <1>6, <1>9

\* A chunk of an ordinary stream, from its text to its finish_reason.
LEMMA ChunkIsSound ==
    ASSUME O2AInv, NEW e \in O2A!Events, fed' = Append(fed, e), O2A!Ordinary(fed'), e.kind = "chunk", body # "ended"
    PROVE  /\ Sound(O2A!Handled(e))
           /\ \A x \in ToolNumbers : O2A!Handled(e).blocks[x] # -1 => x = e.tool \/ blocks[x] # -1
           /\ ~finished /\ (O2A!Handled(e).finished <=> O2A!Ends(e))
           /\ O2A!Ends(e) => LastWords(Said(O2A!Handled(e)), O2A!ReasonOf(e))
  <1> DEFINE m1 == O2A!Opened(O2A!Now)
             m2 == IF e.text THEN O2A!WithText(m1) ELSE m1
             m3 == IF e.tool # 0 THEN O2A!WithTool(m2, e.tool, e.args) ELSE m2
             m4 == IF e.finish # "none" THEN O2A!Finish(m3, e.finish) ELSE m3
  <1>1. /\ e.text \in BOOLEAN /\ e.args \in BOOLEAN /\ e.finish \in {"none", "tool_calls"}
        /\ e.tool = 0 \/ e.tool \in ToolNumbers
    BY ChatEventIs
  <1>2. sent \in Seq(AnthropicEvents) /\ Sound(O2A!Now) /\ FedSound
    BY OneFed DEF O2AInv
  <1>3. \A i \in 1..Len(fed) : /\ fed[i].tool # 0 => ~e.text
                               /\ fed[i].tool # 0 /\ e.tool # 0 => fed[i].tool <= e.tool
                               /\ ~O2A!Ends(fed[i])
    BY OneFed DEF O2AInv
  <1>4. ~finished
    BY <1>2, <1>3 DEF FedSound
  <1>5. O2A!Now.state # "DONE"
    BY <1>2, <1>4, NowIs DEF Sound, Stage
  <1>6. /\ Sound(m1) /\ m1.state \in {"STARTED", "TEXT_BLOCK", "TOOL_BLOCK"} /\ m1.blocks = blocks
    BY <1>2, <1>5, OpenedIsSound, NowIs
  <1>7. O2A!Handled(e) = m4
    BY DEF O2A!Handled
  <1> HIDE DEF m1
  <1>8. Sound(m2) /\ m2.state \in {"STARTED", "TEXT_BLOCK", "TOOL_BLOCK"} /\ m2.blocks = blocks
    <2>1. CASE e.text
      <3>1. NoTools(m1)
        <4>1. ASSUME NEW t \in ToolNumbers, blocks[t] # -1 PROVE FALSE
          <5>1. PICK i \in 1..Len(fed) : fed[i].tool = t
            BY <1>2, <4>1 DEF FedSound
          <5>2. t # 0
            BY DEF ToolNumbers
          <5> QED
            BY <1>3, <2>1, <5>1, <5>2
        <4> QED
          BY <1>6, <4>1 DEF NoTools
      <3> QED
        BY <1>2, <1>6, <2>1, <3>1, TextIsSound
    <2>2. CASE ~e.text
      BY <1>6, <2>2
    <2> QED
      BY <2>1, <2>2
  <1> HIDE DEF m2
  <1>9. /\ Sound(m3) /\ m3.state \in {"STARTED", "TEXT_BLOCK", "TOOL_BLOCK"}
        /\ \A x \in ToolNumbers : m3.blocks[x] # -1 => x = e.tool \/ blocks[x] # -1
    <2>1. CASE e.tool # 0
      <3>1. e.tool \in ToolNumbers
        BY <1>1, <2>1
      <3>2. ASSUME NEW x \in ToolNumbers, m2.blocks[x] # -1 PROVE x <= e.tool
        <4>1. PICK i \in 1..Len(fed) : fed[i].tool = x
          BY <1>2, <1>8, <3>2 DEF FedSound
        <4>2. x # 0
          BY DEF ToolNumbers
        <4> QED
          BY <1>3, <2>1, <4>1, <4>2
      <3>3. m3 = O2A!WithTool(m2, e.tool, e.args)
        BY <2>1
      <3> HIDE DEF m3
      <3>4. /\ Sound(O2A!WithTool(m2, e.tool, e.args)) /\ O2A!WithTool(m2, e.tool, e.args).state = "TOOL_BLOCK"
            /\ \A x \in ToolNumbers :
                  O2A!WithTool(m2, e.tool, e.args).blocks[x] # -1 => x = e.tool \/ m2.blocks[x] # -1
        BY <1>1, <1>2, <1>8, <3>1, <3>2, ToolIsSound
      <3> QED
        BY <1>8, <3>3, <3>4
    <2>2. CASE e.tool = 0
      BY <1>8, <2>2
    <2> QED
      BY <2>1, <2>2
  <1> HIDE DEF m3
  <1>10. CASE e.finish = "none"
    <2>1. O2A!Handled(e) = m3
      BY <1>7, <1>10
    <2>2. ~m3.finished
      BY <1>9 DEF Sound, Stage
    <2>3. ~O2A!Ends(e)
      BY <1>10 DEF O2A!Ends
    <2> QED
      BY <1>4, <1>9, <2>1, <2>2, <2>3
  <1>11. CASE e.finish # "none"
    <2>1. O2A!Handled(e) = O2A!Finish(m3, e.finish)
      BY <1>7, <1>11
    <2>2. ~m3.finished
      BY <1>9 DEF Sound, Stage
    <2>3. /\ Sound(O2A!Finish(m3, e.finish)) /\ O2A!Finish(m3, e.finish).blocks = m3.blocks
          /\ O2A!Finish(m3, e.finish).finished
          /\ LastWords(Said(O2A!Finish(m3, e.finish)), O2A!StopReason(e.finish))
      BY <1>2, <1>9, <2>2, FinishIsSound
    <2>4. O2A!Ends(e) /\ O2A!StopReason(e.finish) = O2A!ReasonOf(e)
      BY <1>1, <1>11 DEF O2A!Ends, O2A!StopReason, O2A!ReasonOf
    <2> QED
      BY <1>4, <1>9, <2>1, <2>3, <2>4
  <1> QED
    BY <1>10, <1>11

\* _handle_event keeps the invariant.
LEMMA O2AEventKeeps ==
    ASSUME O2AInv, NEW e \in O2A!Events, O2A!Event(e)
    PROVE  O2AInv'
  <1>1. body = "chunk" /\ body' = body /\ O2A!Become(O2A!Handled(e)) /\ fed' = Append(fed, e)
    BY DEF O2A!Event
  <1>2. fed \in Seq(O2A!Events)
    BY DEF O2AInv
  <1>3. /\ fed' \in Seq(O2A!Events)
        /\ \A i \in 1..Len(fed) : fed'[i] = fed[i] /\ i \in 1..Len(fed')
        /\ fed'[Len(fed')] = e /\ Len(fed') \in 1..Len(fed')
        /\ O2A!Ordinary(fed') => O2A!Ordinary(fed)
    BY <1>1, <1>2, OneFed
  <1>4. ASSUME O2A!Ordinary(fed') PROVE sent' \in Seq(AnthropicEvents) /\ Sound(O2A!Now)' /\ FedSound'
    <2>1. sent \in Seq(AnthropicEvents) /\ Sound(O2A!Now) /\ FedSound
      BY <1>3, <1>4 DEF O2AInv
    <2>2. /\ Sound(O2A!Handled(e))
          /\ \A x \in ToolNumbers : O2A!Handled(e).blocks[x] # -1 => x = e.tool \/ blocks[x] # -1
          /\ O2A!Handled(e).finished => O2A!Ends(e) \/ finished
          /\ ~finished => (O2A!Handled(e).finished <=> O2A!Ends(e))
          /\ ~finished /\ O2A!Ends(e) => LastWords(Said(O2A!Handled(e)), O2A!ReasonOf(e))
          /\ finished => O2A!Handled(e) = O2A!Now
      <3>1. CASE e.kind = "done"
        <4>1. O2A!Handled(e) = O2A!Finish(O2A!Now, "none")
          BY <3>1 DEF O2A!Handled
        <4>2. /\ Sound(O2A!Finish(O2A!Now, "none")) /\ O2A!Finish(O2A!Now, "none").blocks = blocks
              /\ O2A!Finish(O2A!Now, "none").finished
              /\ ~finished => LastWords(Said(O2A!Finish(O2A!Now, "none")), O2A!StopReason("none"))
          BY <2>1, FinishIsSound, NowIs
        <4>3. O2A!Ends(e) /\ O2A!StopReason("none") = O2A!ReasonOf(e)
          BY <3>1, ChatEventIs DEF O2A!Ends, O2A!StopReason, O2A!ReasonOf
        <4>4. finished => O2A!Finish(O2A!Now, "none") = O2A!Now
          BY NowIs DEF O2A!Finish
        <4> QED
          BY <4>1, <4>2, <4>3, <4>4
      <3>2. CASE e.kind = "error"
        <4>1. O2A!Handled(e) = O2A!FinishWithError(O2A!Now)
          BY <3>2 DEF O2A!Handled
        <4>2. /\ Sound(O2A!FinishWithError(O2A!Now)) /\ O2A!FinishWithError(O2A!Now).blocks = blocks
              /\ O2A!FinishWithError(O2A!Now).finished
              /\ ~finished => LastWords(Said(O2A!FinishWithError(O2A!Now)), "error")
          BY <2>1, ErrorIsSound, NowIs
        <4>3. O2A!Ends(e) /\ "error" = O2A!ReasonOf(e)
          BY <3>2 DEF O2A!Ends, O2A!ReasonOf
        <4>4. finished => O2A!FinishWithError(O2A!Now) = O2A!Now
          BY NowIs DEF O2A!FinishWithError
        <4> QED
          BY <4>1, <4>2, <4>3, <4>4
      <3>3. CASE e.kind = "noise"
        <4>1. O2A!Handled(e) = O2A!Now
          BY <3>3 DEF O2A!Handled
        <4>2. ~O2A!Ends(e)
          BY <3>3, ChatEventIs DEF O2A!Ends
        <4> QED
          BY <2>1, <4>1, <4>2, NowIs
      <3>4. CASE e.kind = "chunk"
        BY <1>1, <1>4, <3>4, ChunkIsSound
      <3> QED
        BY <3>1, <3>2, <3>3, <3>4, ChatEventIs
    <2>3. /\ sent' \in Seq(AnthropicEvents) /\ Sound(O2A!Now)'
          /\ blocks' = O2A!Handled(e).blocks /\ finished' = O2A!Handled(e).finished
          /\ sent' = Said(O2A!Handled(e))
      BY <1>1, <2>1, <2>2, BecomesSound
    <2>4. \A t \in ToolNumbers : blocks'[t] # -1 => \E i \in 1..Len(fed') : fed'[i].tool = t
      <3> SUFFICES ASSUME NEW t \in ToolNumbers, blocks'[t] # -1 PROVE \E i \in 1..Len(fed') : fed'[i].tool = t
        OBVIOUS
      <3>1. CASE t = e.tool
        BY <1>3, <3>1
      <3>2. CASE blocks[t] # -1
        <4>1. PICK i \in 1..Len(fed) : fed[i].tool = t
          BY <2>1, <3>2 DEF FedSound
        <4> QED
          BY <1>3, <4>1
      <3> QED
        BY <2>2, <2>3, <3>1, <3>2
    <2>5. finished' => \E i \in 1..Len(fed') : O2A!Ends(fed'[i])
      <3> SUFFICES ASSUME finished' PROVE \E i \in 1..Len(fed') : O2A!Ends(fed'[i])
        OBVIOUS
      <3>1. CASE O2A!Ends(e)
        BY <1>3, <3>1
      <3>2. CASE finished
        <4>1. PICK i \in 1..Len(fed) : O2A!Ends(fed[i])
          BY <1>1, <2>1, <3>2 DEF FedSound
        <4> QED
          BY <1>3, <4>1
      <3> QED
        BY <2>2, <2>3, <3>1, <3>2
    <2>6. ~finished' => \A i \in 1..Len(fed') : ~O2A!Ends(fed'[i])
      <3> SUFFICES ASSUME ~finished', NEW i \in 1..Len(fed') PROVE ~O2A!Ends(fed'[i])
        OBVIOUS
      <3>1. ~finished /\ ~O2A!Ends(e)
        <4>1. finished => O2A!Handled(e).finished
          BY <2>2, NowIs
        <4> QED
          BY <2>2, <2>3, <4>1
      <3>2. i = Len(fed') \/ i \in 1..Len(fed)
        BY <1>1, <1>2, OneFed
      <3> QED
        BY <1>3, <2>1, <3>1, <3>2 DEF FedSound
    <2>7. finished' => O2A!FirstWord(fed', sent'[Len(sent') - 1][2])
      <3> SUFFICES ASSUME finished' PROVE O2A!FirstWord(fed', sent'[Len(sent') - 1][2])
        OBVIOUS
      <3>1. CASE finished
        <4>1. sent' = sent
          BY <2>1, <2>2, <2>3, <3>1, NowIs, ConcatEmptySeq DEF Said
        <4>2. O2A!FirstWord(fed, sent[Len(sent) - 1][2]) /\ \E i \in 1..Len(fed) : O2A!Ends(fed[i])
          BY <1>1, <2>1, <3>1 DEF FedSound
        <4> QED
          BY <1>1, <1>2, <4>1, <4>2, FirstWordIs
      <3>2. CASE ~finished
        <4>1. O2A!Ends(e) /\ \A i \in 1..Len(fed) : ~O2A!Ends(fed[i])
          BY <2>1, <2>2, <2>3, <3>2 DEF FedSound
        <4>2. sent'[Len(sent') - 1][2] = O2A!ReasonOf(e)
          BY <2>2, <2>3, <3>2, <4>1 DEF LastWords
        <4> QED
          BY <1>1, <1>2, <4>1, <4>2, FirstWordIs
      <3> QED
        BY <3>1, <3>2
    <2> QED
      BY <1>1, <2>3, <2>4, <2>5, <2>6, <2>7 DEF FedSound
  <1> QED
    BY <1>3, <1>4 DEF O2AInv

\* The beginning and the end of a chunk of the body leave all but body alone.
LEMMA O2AChunkKeeps ==
    ASSUME O2AInv, O2A!Feed \/ O2A!EndOfChunk \/ UNCHANGED o2avars
    PROVE  O2AInv'
  <1>1. UNCHANGED <<state, current, next, blocks, finished, fed, sent>>
    BY DEF O2A!Feed, O2A!EndOfChunk, o2avars
  <1>2. body' # "ended" \/ body' = body
    BY DEF O2A!Feed, O2A!EndOfChunk, o2avars
  <1>3. O2A!Now' = O2A!Now
    BY <1>1 DEF O2A!Now
  <1>4. Sound(O2A!Now) => Sound(O2A!Now)'
    BY <1>1, <1>3 DEF Sound, Said
  <1>5. O2A!Ordinary(fed) => FedSound'
    <2> SUFFICES ASSUME O2A!Ordinary(fed) PROVE FedSound'
      OBVIOUS
    <2>1. FedSound
      BY DEF O2AInv
    <2>2. body = "ended" => body' = "ended"
      BY DEF O2A!Feed, O2A!EndOfChunk, o2avars
    <2> QED
      BY <1>1, <1>2, <2>1, <2>2 DEF FedSound
  <1> QED
    BY <1>1, <1>4, <1>5 DEF O2AInv

\* finish_safely keeps the invariant.
LEMMA O2AEndKeeps ==
    ASSUME O2AInv, O2A!EndOfBody
    PROVE  O2AInv'
  <1>1. body' = "ended" /\ O2A!Become(O2A!Finish(O2A!Now, "none")) /\ fed' = fed
    BY DEF O2A!EndOfBody
  <1>2. ASSUME O2A!Ordinary(fed) PROVE sent' \in Seq(AnthropicEvents) /\ Sound(O2A!Now)' /\ FedSound'
    <2>1. sent \in Seq(AnthropicEvents) /\ Sound(O2A!Now) /\ FedSound
      BY <1>2 DEF O2AInv
    <2>2. /\ Sound(O2A!Finish(O2A!Now, "none")) /\ O2A!Finish(O2A!Now, "none").finished
          /\ O2A!Finish(O2A!Now, "none").blocks = blocks
          /\ ~finished => LastWords(Said(O2A!Finish(O2A!Now, "none")), O2A!StopReason("none"))
      BY <2>1, FinishIsSound, NowIs
    <2>3. /\ sent' \in Seq(AnthropicEvents) /\ Sound(O2A!Now)' /\ blocks' = blocks /\ finished'
          /\ sent' = Said(O2A!Finish(O2A!Now, "none"))
      BY <1>1, <2>1, <2>2, BecomesSound
    <2>4. O2A!FirstWord(fed, sent'[Len(sent') - 1][2])
      <3>1. CASE finished
        <4>1. O2A!Finish(O2A!Now, "none") = O2A!Now
          BY <3>1, NowIs DEF O2A!Finish
        <4>2. sent' = sent
          BY <2>1, <2>3, <4>1, NowIs, ConcatEmptySeq DEF Said
        <4> QED
          BY <2>1, <3>1, <4>2 DEF FedSound
      <3>2. CASE ~finished
        <4>1. sent'[Len(sent') - 1][2] = "end_turn"
          BY <2>2, <2>3, <3>2 DEF LastWords, O2A!StopReason
        <4> QED
          BY <2>1, <3>2, <4>1 DEF FedSound, O2A!FirstWord
      <3> QED
        BY <3>1, <3>2
    <2> QED
      BY <1>1, <2>1, <2>3, <2>4 DEF FedSound
  <1> QED
    BY <1>1, <1>2 DEF O2AInv

\* The translator starts within the invariant.
LEMMA O2AInit == O2A!Init => O2AInv
  <1> SUFFICES ASSUME O2A!Init PROVE O2AInv
    OBVIOUS
  <1>1. /\ state = "INIT" /\ current = 0 /\ next = 0 /\ blocks = [t \in ToolNumbers |-> -1]
        /\ finished = FALSE /\ fed = <<>> /\ sent = <<>> /\ body = "open"
    BY DEF O2A!Init, ToolNumbers
  <1>2. fed \in Seq(O2A!Events) /\ sent \in Seq(AnthropicEvents)
    BY <1>1, EmptySeq
  <1>3. O2A!Now \in Translators
    <2>1. current \in Int /\ next \in Nat /\ blocks \in [ToolNumbers -> Int]
      BY <1>1
    <2>2. finished \in BOOLEAN /\ state \in {"INIT", "STARTED", "TEXT_BLOCK", "TOOL_BLOCK", "DONE"}
      BY <1>1
    <2>3. <<>> \in Seq(AnthropicEvents)
      BY EmptySeq
    <2> QED
      BY <2>1, <2>2, <2>3, Zenon DEF O2A!Now, Translators
  <1>4. Said(O2A!Now) = <<>>
    BY <1>1, NowIs DEF Said
  <1>5. Stage(O2A!Now, <<>>)
    BY <1>1, NowIs DEF Stage, NoTools
  <1>6. Sound(O2A!Now)
    BY <1>1, <1>2, <1>3, <1>4, <1>5 DEF Sound
  <1>7. FedSound
    BY <1>1 DEF FedSound
  <1> QED
    BY <1>2, <1>6, <1>7 DEF O2AInv

\* The instance counts as FiniteSets does.
LEMMA SameCountO2A == \A what, n : O2A!Count(what, n) = CountIn(sent, what, n)
  BY DEF O2A!Count, O2A!Cardinality, Cardinality, CountIn

\* What the invariant says of the message the client got.
LEMMA O2AGives == O2AInv => AnthropicWellFormed
  <1> SUFFICES ASSUME O2AInv, O2A!Ordinary(fed)
               PROVE  /\ \A p \in 1..Len(sent) :
                            /\ (sent[p][1] = "message_start") = (p = 1)
                            /\ sent[p][1] = "start" => /\ sent[p][2] = O2A!Count("start", p - 1)
                                                       /\ O2A!Count("stop", p - 1) = O2A!Count("start", p - 1)
                            /\ sent[p][1] \in {"delta", "stop"} =>
                                  /\ sent[p][2] = O2A!Count("start", p - 1) - 1
                                  /\ O2A!Count("stop", p - 1) = O2A!Count("start", p - 1) - 1
                            /\ sent[p][1] = "message_delta" => O2A!Count("stop", p - 1) = O2A!Count("start", p - 1)
                            /\ sent[p][1] = "message_stop" => p = Len(sent) /\ sent[p - 1][1] = "message_delta"
                      /\ finished <=> O2A!Count("message_stop", Len(sent)) = 1
                      /\ O2A!Count("error", Len(sent)) = 1
                           <=> \E p \in 1..Len(sent) : sent[p] = <<"message_delta", "error">>
                      /\ finished => O2A!FirstWord(fed, sent[Len(sent) - 1][2])
                      /\ body = "ended" => finished
    BY Zenon DEF AnthropicWellFormed, O2A!AnthropicWellFormed
  <1>1. sent \in Seq(AnthropicEvents) /\ Sound(O2A!Now) /\ FedSound
    BY DEF O2AInv
  <1>2. Said(O2A!Now) = sent
    BY <1>1, NowIs, ConcatEmptySeq DEF Said
  <1>3. Stage(O2A!Now, sent)
    BY <1>1, <1>2 DEF Sound
  <1>4. finished \in BOOLEAN
    BY <1>1, NowIs DEF Sound, Translators
  <1>5. CASE finished
    <2>1. WellFormed(sent, TRUE)
      BY <1>3, <1>5, NowIs DEF Stage
    <2> QED
      BY <1>1, <1>5, <2>1, SameCountO2A DEF WellFormed, InPlace, FedSound
  <1>6. CASE ~finished
    <2>1. sent = <<>> \/ \E n : \E open \in BOOLEAN : Sending(sent, n, open)
      BY <1>3, <1>6, NowIs DEF Stage
    <2>2. WellFormed(sent, FALSE)
      BY <2>1, SendingIsWellFormed
    <2> QED
      BY <1>1, <1>6, <2>2, SameCountO2A DEF WellFormed, InPlace, FedSound
  <1> QED
    BY <1>4, <1>5, <1>6

\* Whatever an OpenAI upstream sends that is ordinary, with however many tool
\* calls and events, the client gets a well-formed Anthropic message at any time,
\* and with its end the stop reason of the upstream's first word on it.
THEOREM AnthropicWellFormedAlways == O2A!Spec => []AnthropicWellFormed
  <1>1. O2AInv /\ [O2A!Next]_o2avars => O2AInv'
    <2> SUFFICES ASSUME O2AInv, [O2A!Next]_o2avars PROVE O2AInv'
      OBVIOUS
    <2>1. CASE O2A!Feed \/ O2A!EndOfChunk \/ UNCHANGED o2avars
      BY <2>1, O2AChunkKeeps
    <2>2. CASE O2A!EndOfBody
      BY <2>2, O2AEndKeeps
    <2>3. ASSUME NEW e \in O2A!Events, O2A!Event(e) PROVE O2AInv'
      BY <2>3, O2AEventKeeps
    <2> QED
      BY <2>1, <2>2, <2>3 DEF O2A!Next
  <1> QED
    BY <1>1, O2AInit, O2AGives, PTL DEF O2A!Spec, o2avars, O2A!o2avars
==============================================================================
