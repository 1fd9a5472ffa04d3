------------------------------- MODULE McpCalls -------------------------------
(***************************************************************************)
(* McpClient on the tables tool_executions and idempotency_records: calls   *)
(* of remote tools, made by any number of requests and processes, that need *)
(* an approval and that may carry the same idempotency key.                 *)
(*                                                                         *)
(* A call is one McpClient.call_tool; every await in it is a step.  Items,  *)
(* events and JSON-RPC framing are left out: of the session only what       *)
(* call_tool makes of it is kept, a result or a failure.  Time is left out: *)
(* a waiting call gives up after MaxWaits polls, and a record may expire at *)
(* any time, a reservation only when its holder is no longer running, since *)
(* it lives longer (300 s) than a call may take (30 s).                     *)
(*                                                                         *)
(* McpClient works with and without its two stores.  A call whose client    *)
(* has no IdempotencyStore is one without a key; one whose client has no    *)
(* ToolExecutionStore, as resolve_mcp_executor builds it, or that has no    *)
(* number (tool_seq < 0) leaves no row, and its approval is the caller's    *)
(* word.                                                                    *)
(***************************************************************************)
EXTENDS Integers, FiniteSets

CONSTANTS
    Calls,          \* invocations of call_tool
    RowOf,          \* the row (response id, tool_seq) a call reports to
    Stored,         \* calls whose client has the executions store
    Numbered,       \* calls with tool_seq >= 0
    KeyOf,          \* its idempotency key, NoKey for none
    DigestOf,       \* request_digest of its server, tool and arguments
    Allowed,        \* calls whose tool is in allowed_tools
    NeedsApproval,  \* calls whose tool requires an approval
    NoKey, NoCall,
    MaxWaits,       \* polls of a waiting call, idempotency_wait_seconds
    MaxDecisions,   \* bound on approval responses
    MaxExpiries,    \* bound on expiring records
    MaxFaults       \* bound on failing database statements

Rows == {RowOf[c] : c \in Calls}
Keys == {KeyOf[c] : c \in Calls} \ {NoKey}
Digests == {DigestOf[c] : c \in Calls}
Recorded == Stored \cap Numbered

ASSUME McpAssumption ==
    /\ {Allowed, NeedsApproval, Stored, Numbered} \subseteq SUBSET Calls /\ NoCall \notin Calls
    /\ {MaxWaits, MaxDecisions, MaxExpiries, MaxFaults} \subseteq Nat

VARIABLES
    pc, waits,          \* of a call: where it stands, its polls for the reservation
    outcome,
    row,                \* tool_executions: status and approval
    rec,                \* idempotency_records
    runs,               \* the calls sent to the server since the record of a key last expired
    granted, decided,   \* the rows a client has approved, and those whose last decision is that
    claimed, cleared,   \* calls whose caller said approved=True, and whose check met such a decision
    decisions, expiries, faults

call == <<pc, waits, outcome>>
consent == <<granted, decided, claimed, cleared>>
bounds == <<decisions, expiries, faults>>
vars == <<call, row, rec, runs, consent, bounds>>

Steps == {"idle", "check", "ask", "refuse", "reserve", "lookup", "start", "send", "running", "mark",
          "finish", "fail", "twice", "end"}
Outcomes == {"none", "pending", "completed", "failed", "duplicate", "raised", "dead"}
NoRecord == [state |-> "none", holder |-> NoCall, digest |-> "none", expired |-> FALSE]

TypeOK ==
    /\ pc \in [Calls -> Steps] /\ waits \in [Calls -> 0..MaxWaits] /\ outcome \in [Calls -> Outcomes]
    /\ row \in [Rows -> [status : {"recognized", "awaiting_approval", "in_progress", "completed", "failed",
                                   "rejected", "duplicate"},
                         approval : {"none", "pending", "approved", "rejected"}]]
    /\ rec \in [Keys -> [state : {"none", "in_flight", "done"}, holder : Calls \cup {NoCall},
                         digest : Digests \cup {"none"}, expired : BOOLEAN]]
    /\ runs \in [Keys -> SUBSET Calls]
    /\ granted \subseteq Rows /\ decided \subseteq Rows /\ claimed \subseteq Calls /\ cleared \subseteq Calls
    /\ decisions \in 0..MaxDecisions /\ expiries \in 0..MaxExpiries /\ faults \in 0..MaxFaults

\* HostedToolRecognizer.persist has registered the tools of the request.
Init ==
    /\ pc = [c \in Calls |-> "idle"] /\ waits = [c \in Calls |-> 0] /\ outcome = [c \in Calls |-> "none"]
    /\ row = [r \in Rows |-> [status |-> "recognized", approval |-> "none"]]
    /\ rec = [k \in Keys |-> NoRecord] /\ runs = [k \in Keys |-> {}]
    /\ granted = {} /\ decided = {} /\ claimed = {} /\ cleared = {}
    /\ decisions = 0 /\ expiries = 0 /\ faults = 0

\* No call is made.
AtRest ==
    /\ pc = [c \in Calls |-> "end"] /\ waits = [c \in Calls |-> 0] /\ outcome = [c \in Calls |-> "none"]
    /\ row = [r \in Rows |-> [status |-> "recognized", approval |-> "none"]]
    /\ rec = [k \in Keys |-> NoRecord] /\ runs = [k \in Keys |-> {}]
    /\ granted = {} /\ decided = {} /\ claimed = {} /\ cleared = {}
    /\ decisions = MaxDecisions /\ expiries = 0 /\ faults = 0

Goto(c, step) == pc' = [pc EXCEPT ![c] = step]
Ends(c, o) == Goto(c, "end") /\ outcome' = [outcome EXCEPT ![c] = o]

\* _audit: ToolExecutionStore.record replaces the whole row.
Record(c, status, approval) ==
    row' = IF c \in Recorded THEN [row EXCEPT ![RowOf[c]] = [status |-> status, approval |-> approval]] ELSE row

Approval(c) == IF c \in NeedsApproval THEN "approved" ELSE "none"

(***************************************************************************)
(* The approval                                                            *)
(***************************************************************************)
\* What the caller says of the approval, its argument approved (None, True or
\* False); its True is looked up when the call has a number.
Hears(c, said) ==
    /\ claimed' = IF said = "yes" /\ c \in NeedsApproval THEN claimed \cup {c} ELSE claimed
    /\ Goto(c, IF c \notin Allowed THEN "fail"
               ELSE IF c \notin NeedsApproval THEN "reserve"
               ELSE CASE said = "yes" -> (IF c \in Numbered THEN "check" ELSE "reserve")
                      [] said = "none" -> "ask" [] said = "no" -> "refuse")
    /\ UNCHANGED <<waits, row, rec, runs, granted, decided, cleared, bounds>>

\* The white list, then the approval.
Begin(c, said) ==
    /\ pc[c] = "idle"
    /\ Hears(c, said)
    /\ UNCHANGED outcome

\* Mutant: the caller's word is enough.
TrustTheCaller(c) ==
    /\ pc[c] = "check"
    /\ Goto(c, "reserve")
    /\ UNCHANGED <<waits, outcome, row, rec, runs, consent, bounds>>

\* _persisted_approval: only a stored approval counts, and a failing read does
\* not; without a store the caller's word does.
CheckApproval(c) ==
    /\ pc[c] = "check"
    /\ \/ /\ c \notin Stored \/ row[RowOf[c]].approval = "approved"
          /\ Goto(c, "reserve") /\ UNCHANGED faults
          /\ cleared' = IF RowOf[c] \in decided THEN cleared \cup {c} ELSE cleared
       \/ /\ c \in Stored /\ row[RowOf[c]].approval # "approved"
          /\ Goto(c, "ask") /\ UNCHANGED <<faults, cleared>>
       \/ /\ c \in Stored /\ faults < MaxFaults /\ faults' = faults + 1
          /\ Goto(c, "ask") /\ UNCHANGED cleared
    /\ UNCHANGED <<waits, outcome, row, rec, runs, granted, decided, claimed, decisions, expiries>>

\* request_approval; the caller comes back with the client's answer.
Ask(c) ==
    /\ pc[c] = "ask"
    /\ Record(c, "awaiting_approval", "pending")
    /\ Ends(c, "pending")
    /\ UNCHANGED <<waits, rec, runs, consent, bounds>>

ComeBack(c, said) ==
    /\ pc[c] = "end" /\ outcome[c] = "pending" /\ said # "none" /\ decisions > 0
    /\ outcome' = [outcome EXCEPT ![c] = "none"]
    /\ Hears(c, said)

\* Mutant: a rejection leaves an approval that is there.
SetApprovalOnce(c, approve) == row' = IF approve THEN [row EXCEPT ![RowOf[c]].approval = "approved"] ELSE row

\* set_approval
SetApproval(c, approve) == row' = [row EXCEPT ![RowOf[c]].approval = IF approve THEN "approved" ELSE "rejected"]

\* submit_approval for the request of c: an item without approve is a rejection.
\* (A request without a row has nothing to decide about.)
Submit(c, approve) ==
    /\ decisions < MaxDecisions
    /\ decisions' = decisions + 1
    /\ SetApproval(c, approve)
    /\ granted' = IF approve THEN granted \cup {RowOf[c]} ELSE granted
    /\ decided' = IF approve THEN decided \cup {RowOf[c]} ELSE decided \ {RowOf[c]}
    /\ UNCHANGED <<call, rec, runs, claimed, cleared, expiries, faults>>

Refuse(c) ==
    /\ pc[c] = "refuse"
    /\ Record(c, "rejected", "rejected")
    /\ Ends(c, "failed")
    /\ UNCHANGED <<waits, rec, runs, consent, bounds>>

(***************************************************************************)
(* The reservation                                                         *)
(***************************************************************************)
Reservation(c) == [state |-> "in_flight", holder |-> c, digest |-> DigestOf[c], expired |-> FALSE]

\* Mutant: a record that is not done can be taken.
TakeAnything(c) ==
    /\ pc[c] = "reserve"
    /\ IF KeyOf[c] = NoKey THEN Goto(c, "start") /\ UNCHANGED rec
       ELSE LET r == rec[KeyOf[c]] IN
            IF r.state # "done" \/ r.expired
            THEN rec' = [rec EXCEPT ![KeyOf[c]] = Reservation(c)] /\ Goto(c, "start")
            ELSE Goto(c, "lookup") /\ UNCHANGED rec
    /\ UNCHANGED <<waits, outcome, row, runs, consent, bounds>>

\* IdempotencyStore.reserve: insert, or take over a record that has expired.
Reserve(c) ==
    /\ pc[c] = "reserve"
    /\ IF KeyOf[c] = NoKey THEN Goto(c, "start") /\ UNCHANGED rec
       ELSE LET r == rec[KeyOf[c]] IN
            IF r.state = "none" \/ r.expired
            THEN rec' = [rec EXCEPT ![KeyOf[c]] = Reservation(c)] /\ Goto(c, "start")
            ELSE Goto(c, "lookup") /\ UNCHANGED rec
    /\ UNCHANGED <<waits, outcome, row, runs, consent, bounds>>

\* What the record that kept the call out means to it; an expired one is absent.
Verdict(c) ==
    LET r == rec[KeyOf[c]] IN
    CASE ~r.expired /\ r.state # "none" /\ r.digest # DigestOf[c] -> "fail"
      [] ~r.expired /\ r.state = "done" /\ r.digest = DigestOf[c] -> "twice"
      [] OTHER -> IF waits[c] >= MaxWaits THEN "fail" ELSE "reserve"

\* One round of _acquire after a reservation was refused.
Lookup(c) ==
    /\ pc[c] = "lookup"
    /\ Goto(c, Verdict(c))
    /\ waits' = IF Verdict(c) = "reserve" THEN [waits EXCEPT ![c] = @ + 1] ELSE waits
    /\ UNCHANGED <<outcome, row, rec, runs, consent, bounds>>

Twice(c) ==
    /\ pc[c] = "twice"
    /\ Record(c, "duplicate", Approval(c))
    /\ Ends(c, "duplicate")
    /\ UNCHANGED <<waits, rec, runs, consent, bounds>>

(***************************************************************************)
(* The call                                                                *)
(***************************************************************************)
Start(c) ==
    /\ pc[c] = "start"
    /\ Record(c, "in_progress", Approval(c))
    /\ Goto(c, "send")
    /\ UNCHANGED <<waits, outcome, rec, runs, consent, bounds>>

Send(c) ==
    /\ pc[c] = "send"
    /\ runs' = IF KeyOf[c] = NoKey THEN runs ELSE [runs EXCEPT ![KeyOf[c]] = @ \cup {c}]
    /\ Goto(c, "running")
    /\ UNCHANGED <<waits, outcome, row, rec, consent, bounds>>

\* A result, or an error of the tool or of the transport, or the timeout.
Answered(c, ok) ==
    /\ pc[c] = "running"
    /\ Goto(c, IF ~ok THEN "fail" ELSE IF KeyOf[c] = NoKey THEN "finish" ELSE "mark")
    /\ UNCHANGED <<waits, outcome, row, rec, runs, consent, bounds>>

\* mark_executed turns whatever reservation there is to done, or inserts one.
Mark(c) ==
    /\ pc[c] = "mark"
    /\ rec' = [rec EXCEPT ![KeyOf[c]] = [Reservation(c) EXCEPT !.state = "done"]]
    /\ Goto(c, "finish")
    /\ UNCHANGED <<waits, outcome, row, runs, consent, bounds>>

FinishCall(c) ==
    /\ pc[c] = "finish"
    /\ Record(c, "completed", Approval(c))
    /\ Ends(c, "completed")
    /\ UNCHANGED <<waits, rec, runs, consent, bounds>>

\* _call_failed; a reservation stays until it expires.
Fail(c) ==
    /\ pc[c] = "fail"
    /\ Record(c, "failed", IF c \in Allowed THEN Approval(c) ELSE "none")
    /\ Ends(c, "failed")
    /\ UNCHANGED <<waits, rec, runs, consent, bounds>>

(***************************************************************************)
(* The environment                                                         *)
(***************************************************************************)
\* The next step of the call is a statement of one of its stores.
AtStatement(c) ==
    \/ pc[c] \in {"reserve", "lookup", "mark"} /\ KeyOf[c] # NoKey
    \/ pc[c] \in {"ask", "refuse", "twice", "start", "finish", "fail"} /\ c \in Recorded

\* A failing statement leaves call_tool as an exception.
Fault(c) ==
    /\ AtStatement(c) /\ faults < MaxFaults
    /\ faults' = faults + 1
    /\ Ends(c, "raised")
    /\ UNCHANGED <<waits, row, rec, runs, consent, decisions, expiries>>

\* The process of a call that holds a reservation stops.
Crash(c) ==
    /\ pc[c] \in {"start", "send", "running", "mark"} /\ faults < MaxFaults
    /\ faults' = faults + 1
    /\ Ends(c, "dead")
    /\ UNCHANGED <<waits, row, rec, runs, consent, decisions, expiries>>

Holding(k) == {c \in Calls : KeyOf[c] = k /\ pc[c] \in {"start", "send", "running", "mark"}}

Expire(k) ==
    /\ expiries < MaxExpiries /\ rec[k].state # "none" /\ ~rec[k].expired /\ Holding(k) = {}
    /\ expiries' = expiries + 1
    /\ rec' = [rec EXCEPT ![k].expired = TRUE]
    /\ runs' = [runs EXCEPT ![k] = {}]
    /\ UNCHANGED <<call, row, consent, decisions, faults>>

Step(c) ==
    \/ CheckApproval(c) \/ Ask(c) \/ Refuse(c) \/ Reserve(c) \/ Lookup(c) \/ Twice(c)
    \/ Start(c) \/ Send(c) \/ Mark(c) \/ FinishCall(c) \/ Fail(c) \/ \E ok \in BOOLEAN : Answered(c, ok)

Next ==
    \/ \E c \in Calls : Step(c) \/ Fault(c) \/ Crash(c)
    \/ \E c \in Calls, said \in {"none", "yes", "no"} : Begin(c, said) \/ ComeBack(c, said)
    \/ \E c \in NeedsApproval \cap Recorded, approve \in BOOLEAN : Submit(c, approve)
    \/ \E k \in Keys : Expire(k)

Spec == Init /\ [][Next]_vars

\* The event loop runs every call, and a call of the session ends: it has a timeout.
FairSpec == Spec /\ \A c \in Calls : WF_vars(Step(c))

(***************************************************************************)
(* Properties                                                              *)
(***************************************************************************)
Running(c) == pc[c] \in {"running", "mark", "finish"}

\* "The same idempotency key does not execute twice": until its record expires
\* a key sends one call to a server, and a
\* call reported as a duplicate was executed by a call of the same key and the
\* same arguments, to its end (_acquire).
AtMostOneExecution ==
    /\ \A k \in Keys : Cardinality(runs[k]) <= 1
    /\ \A c \in Calls : outcome[c] = "duplicate" =>
          \E d \in Calls \ {c} : KeyOf[d] = KeyOf[c] /\ DigestOf[d] = DigestOf[c]
                                 /\ (pc[d] = "finish" \/ outcome[d] \in {"completed", "raised"})

\* No other call reports to the row of c.
Alone(c) == \A d \in Calls : RowOf[d] = RowOf[c] => d = c

\* A tool that needs an approval runs only when its caller said it was approved,
\* and a call that leaves a row only after a client granted it, whatever the
\* caller says; the decision that stood when it was looked up was a grant, so
\* that an approval taken back before the check counts for nothing (call_tool,
\* _persisted_approval).  When calls share a row, the first to pass the check
\* writes "approved" over a decision that came after it.
NothingRunsUnapproved ==
    \A c \in NeedsApproval : Running(c) =>
        /\ c \in claimed
        /\ c \in Recorded => RowOf[c] \in granted /\ (Alone(c) => c \in cleared)

\* Every call ends, however long another one holds its key.
EveryCallEnds == \A c \in Calls : pc[c] # "idle" ~> pc[c] = "end"
===============================================================================
