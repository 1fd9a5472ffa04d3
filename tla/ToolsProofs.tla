----------------------------- MODULE ToolsProofs -----------------------------
(***************************************************************************)
(* The safety properties of McpCalls, for any number of calls, rows and    *)
(* keys and any bounds, and that of Agents, for any number of requests,    *)
(* sessions, keys and agents and any limit.                                *)
(***************************************************************************)
EXTENDS MCTools, FiniteSetTheorems, TLAPS

\* The key of a call is a key of the table, and its row one of the rows.
LEMMA RowsAndKeys ==
    ASSUME NEW c \in Calls
    PROVE  RowOf[c] \in Rows /\ DigestOf[c] \in Digests /\ (KeyOf[c] # NoKey => KeyOf[c] \in Keys)
  BY DEF Rows, Digests, Keys

---------------------------------------------------------------------------
(* Types *)

USE McpAssumption

\* Where call_tool goes first.
LEMMA BeginsAt ==
    ASSUME NEW c \in Calls, NEW said \in {"none", "yes", "no"}, Hears(c, said)
    PROVE  \E s \in {"fail", "reserve", "check", "ask", "refuse"} :
              /\ pc' = [pc EXCEPT ![c] = s]
              /\ s = "fail" => c \notin Allowed
              /\ s = "reserve" /\ c \in NeedsApproval => c \in claimed' /\ c \notin Numbered
              /\ s = "check" => c \in claimed'
<1> USE DEF Hears, Goto
<1>1. CASE c \notin Allowed
  <2>1. pc' = [pc EXCEPT ![c] = "fail"] BY <1>1
  <2> QED BY <1>1, <2>1
<1>2. CASE c \in Allowed /\ c \notin NeedsApproval
  <2>1. pc' = [pc EXCEPT ![c] = "reserve"] BY <1>2
  <2> QED BY <1>2, <2>1
<1>3. CASE c \in Allowed /\ c \in NeedsApproval
  <2>1. CASE said = "yes"
    <3>1. c \in claimed' BY <1>3, <2>1
    <3>2. CASE c \in Numbered
      <4>1. pc' = [pc EXCEPT ![c] = "check"] BY <1>3, <2>1, <3>2
      <4> QED BY <3>1, <4>1
    <3>3. CASE c \notin Numbered
      <4>1. pc' = [pc EXCEPT ![c] = "reserve"] BY <1>3, <2>1, <3>3
      <4> QED BY <3>1, <3>3, <4>1
    <3> QED BY <3>2, <3>3
  <2>2. CASE said = "none" BY <1>3, <2>2
  <2>3. CASE said = "no" BY <1>3, <2>3
  <2> QED BY <2>1, <2>2, <2>3
<1> QED BY <1>1, <1>2, <1>3

\* A step of a call keeps the types: one case for each await of call_tool.
LEMMA TypeStep ==
    ASSUME TypeOK, NEW c \in Calls, Step(c) PROVE TypeOK'
<1> USE RowsAndKeys DEF TypeOK, Steps, Outcomes, Goto, Ends, Record, Approval, call, bounds, consent
<1>1. CASE CheckApproval(c) BY <1>1 DEF CheckApproval
<1>2. CASE Ask(c) BY <1>2 DEF Ask
<1>3. CASE Refuse(c) BY <1>3 DEF Refuse
<1>4. CASE Reserve(c)
  <2>1. KeyOf[c] # NoKey =>
          Reservation(c) \in [state : {"none", "in_flight", "done"}, holder : Calls \cup {NoCall},
                             digest : Digests \cup {"none"}, expired : BOOLEAN]
    BY DEF Reservation
  <2>2. rec' = rec \/ (KeyOf[c] # NoKey /\ rec' = [rec EXCEPT ![KeyOf[c]] = Reservation(c)])
    BY <1>4 DEF Reserve
  <2>3. \E s \in {"start", "lookup"} : pc' = [pc EXCEPT ![c] = s]
    BY <1>4 DEF Reserve
  <2>4. rec' \in [Keys -> [state : {"none", "in_flight", "done"}, holder : Calls \cup {NoCall},
                          digest : Digests \cup {"none"}, expired : BOOLEAN]]
    BY <2>1, <2>2
  <2>5. pc' \in [Calls -> Steps] BY <2>3
  <2> QED BY <1>4, <2>4, <2>5 DEF Reserve
<1>5. CASE Lookup(c) BY <1>5 DEF Lookup, Verdict
<1>6. CASE Twice(c) BY <1>6 DEF Twice
<1>7. CASE Start(c) BY <1>7 DEF Start
<1>8. CASE Send(c) BY <1>8 DEF Send
<1>9. CASE Mark(c) BY <1>9 DEF Mark, Reservation
<1>10. CASE FinishCall(c) BY <1>10 DEF FinishCall
<1>11. CASE Fail(c) BY <1>11 DEF Fail
<1>12. ASSUME NEW ok \in BOOLEAN, Answered(c, ok) PROVE TypeOK' BY <1>12 DEF Answered
<1> QED BY <1>1, <1>2, <1>3, <1>4, <1>5, <1>6, <1>7, <1>8, <1>9, <1>10, <1>11, <1>12 DEF Step

\* A record that expires is a record.
LEMMA Expires ==
    ASSUME NEW r \in [state : {"none", "in_flight", "done"}, holder : Calls \cup {NoCall},
                      digest : Digests \cup {"none"}, expired : BOOLEAN]
    PROVE  [r EXCEPT !.expired = TRUE] \in
           [state : {"none", "in_flight", "done"}, holder : Calls \cup {NoCall},
            digest : Digests \cup {"none"}, expired : BOOLEAN]
  OBVIOUS

\* So do the steps of the environment, of a caller and of a client.
LEMMA TypeOther ==
    ASSUME TypeOK, Next, \A c \in Calls : ~Step(c) PROVE TypeOK'
<1> USE RowsAndKeys DEF TypeOK, Steps, Outcomes, Goto, Ends, call, bounds, consent
<1>1. ASSUME NEW c \in Calls, Fault(c) PROVE TypeOK' BY <1>1 DEF Fault
<1>2. ASSUME NEW c \in Calls, Crash(c) PROVE TypeOK' BY <1>2 DEF Crash
<1>3. ASSUME NEW c \in Calls, NEW said \in {"none", "yes", "no"}, Begin(c, said) PROVE TypeOK'
  <2>1. PICK s \in Steps : pc' = [pc EXCEPT ![c] = s] BY <1>3, BeginsAt DEF Begin
  <2>2. claimed' \subseteq Calls BY <1>3 DEF Begin, Hears
  <2> QED BY <1>3, <2>1, <2>2 DEF Begin, Hears
<1>4. ASSUME NEW c \in Calls, NEW said \in {"none", "yes", "no"}, ComeBack(c, said) PROVE TypeOK'
  <2>1. PICK s \in Steps : pc' = [pc EXCEPT ![c] = s] BY <1>4, BeginsAt DEF ComeBack
  <2>2. claimed' \subseteq Calls BY <1>4 DEF ComeBack, Hears
  <2> QED BY <1>4, <2>1, <2>2 DEF ComeBack, Hears
<1>5. ASSUME NEW c \in NeedsApproval \cap Recorded, NEW approve \in BOOLEAN, Submit(c, approve) PROVE TypeOK'
  <2>1. RowOf[c] \in Rows BY RowsAndKeys
  <2>2. granted' \subseteq Rows /\ decided' \subseteq Rows BY <1>5, <2>1 DEF Submit
  <2>3. row' \in [Rows -> [status : {"recognized", "awaiting_approval", "in_progress", "completed", "failed",
                                    "rejected", "duplicate"},
                          approval : {"none", "pending", "approved", "rejected"}]]
    BY <1>5, <2>1 DEF Submit, SetApproval
  <2>4. decisions' \in 0..MaxDecisions BY <1>5 DEF Submit
  <2> QED BY <1>5, <2>2, <2>3, <2>4 DEF Submit
<1>6. ASSUME NEW k \in Keys, Expire(k) PROVE TypeOK'
  <2>1. [rec[k] EXCEPT !.expired = TRUE] \in
          [state : {"none", "in_flight", "done"}, holder : Calls \cup {NoCall},
           digest : Digests \cup {"none"}, expired : BOOLEAN]
    <3>1. rec[k] \in [state : {"none", "in_flight", "done"}, holder : Calls \cup {NoCall},
               digest : Digests \cup {"none"}, expired : BOOLEAN]
      OBVIOUS
    <3> QED BY <3>1, Expires
  <2>2. rec' = [rec EXCEPT ![k] = [rec[k] EXCEPT !.expired = TRUE]] BY <1>6 DEF Expire
  <2> QED BY <1>6, <2>1, <2>2 DEF Expire
<1> QED BY <1>1, <1>2, <1>3, <1>4, <1>5, <1>6 DEF Next

\* The tables as HostedToolRecognizer.persist leaves them have their types.
LEMMA TypeInit == Init => TypeOK
  BY DEF Init, TypeOK, Steps, Outcomes, NoRecord

\* Types are kept by every step.
LEMMA TypeNext == TypeOK /\ [Next]_vars => TypeOK'
<1> SUFFICES ASSUME TypeOK, [Next]_vars PROVE TypeOK' OBVIOUS
<1>1. CASE UNCHANGED vars BY <1>1 DEF vars, call, bounds, consent, TypeOK
<1>2. CASE Next BY <1>2, TypeStep, TypeOther
<1> QED BY <1>1, <1>2

---------------------------------------------------------------------------
(* AtMostOneExecution *)

Sent(c) == pc[c] \in {"start", "send", "running", "mark"}
HasRun(c) == pc[c] = "finish" \/ outcome[c] \in {"completed", "raised"}
Twin(c) == \E d \in Calls \ {c} : KeyOf[d] = KeyOf[c] /\ DigestOf[d] = DigestOf[c] /\ HasRun(d)

\* A call has an outcome when it ended, and one that waits, marks or repeats has a key.
Tidy ==
    /\ \A c \in Calls : outcome[c] # "none" => pc[c] = "end"
    /\ \A c \in Calls : pc[c] \in {"lookup", "twice", "mark"} => KeyOf[c] # NoKey

\* A call between its reservation and its mark holds the record.
Reserved ==
    \A c \in Calls : Sent(c) /\ KeyOf[c] # NoKey =>
        rec[KeyOf[c]].state = "in_flight" /\ rec[KeyOf[c]].holder = c /\ ~rec[KeyOf[c]].expired

\* Only the holder of a record was sent, and only after it was reserved.
OneRun ==
    /\ \A k \in Keys : runs[k] \subseteq {rec[k].holder}
    /\ \A k \in Keys : rec[k].state = "none" \/ rec[k].expired => runs[k] = {}
    /\ \A c \in Calls : pc[c] \in {"start", "send"} /\ KeyOf[c] # NoKey => runs[KeyOf[c]] = {}

\* A record that is done was executed, and so was the twin of a duplicate.
DoneWasRun ==
    /\ \A k \in Keys : rec[k].state = "done" =>
          \E d \in Calls : KeyOf[d] = k /\ DigestOf[d] = rec[k].digest /\ HasRun(d)
    /\ \A c \in Calls : pc[c] = "twice" \/ outcome[c] = "duplicate" => Twin(c)

ExecInv == Tidy /\ Reserved /\ OneRun /\ DoneWasRun

\* Only call c moves.
Only(c) ==
    \A d \in Calls \ {c} : pc'[d] = pc[d] /\ outcome'[d] = outcome[d]

\* Call c stays tidy and what has run stays so.
Orderly(c) ==
    /\ Only(c)
    /\ outcome'[c] # "none" => pc'[c] = "end"
    /\ pc'[c] \in {"lookup", "twice", "mark"} => KeyOf[c] # NoKey
    /\ HasRun(c) => HasRun(c)'
    /\ pc'[c] = "twice" \/ outcome'[c] = "duplicate" => Twin(c)

\* And it neither reserves nor sends.
Quiet(c) ==
    /\ Orderly(c)
    /\ Sent(c)' => Sent(c) \/ KeyOf[c] = NoKey
    /\ pc'[c] \in {"start", "send"} => pc[c] \in {"start", "send"} \/ KeyOf[c] = NoKey
    /\ rec' = rec /\ runs' = runs

\* What has run stays, in an orderly step.
LEMMA RunsStay ==
    ASSUME NEW c \in Calls, Orderly(c), ExecInv
    PROVE  /\ \A d \in Calls : HasRun(d) => HasRun(d)'
           /\ \A d \in Calls : Twin(d) => Twin(d)'
           /\ Tidy'
           /\ \A d \in Calls : (pc[d] = "twice" \/ outcome[d] = "duplicate")' => Twin(d)'
<1>1. \A d \in Calls : HasRun(d) => HasRun(d)' BY DEF Orderly, Only, HasRun
<1>2. \A d \in Calls : Twin(d) => Twin(d)' BY <1>1 DEF Twin
<1>3. Tidy' BY DEF Orderly, Only, Tidy, ExecInv
<1>4. \A d \in Calls : (pc[d] = "twice" \/ outcome[d] = "duplicate")' => Twin(d)'
  BY <1>2 DEF Orderly, Only, ExecInv, DoneWasRun
<1> QED BY <1>1, <1>2, <1>3, <1>4

\* A quiet step keeps everything.
LEMMA QuietKeeps ==
    ASSUME NEW c \in Calls, Quiet(c), ExecInv PROVE ExecInv'
<1> USE DEF Quiet
<1>1. Reserved' BY DEF Orderly, Only, Reserved, ExecInv, Sent
<1>2. OneRun' BY DEF Orderly, Only, OneRun, ExecInv
<1>3. DoneWasRun' BY RunsStay DEF DoneWasRun, ExecInv
<1> QED BY <1>1, <1>2, <1>3, RunsStay DEF ExecInv

\* The steps of a call that neither take a record nor send.
LEMMA QuietSteps ==
    ASSUME TypeOK, ExecInv, NEW c \in Calls,
           \/ CheckApproval(c) \/ Ask(c) \/ Refuse(c) \/ Twice(c) \/ Start(c) \/ FinishCall(c)
           \/ Fail(c) \/ Fault(c) \/ Crash(c) \/ \E ok \in BOOLEAN : Answered(c, ok)
           \/ \E said \in {"none", "yes", "no"} : Begin(c, said) \/ ComeBack(c, said)
    PROVE  ExecInv'
<1> USE DEF TypeOK, Steps, Goto, Ends, Quiet, Orderly, Only, Sent, HasRun
<1>0. Tidy BY DEF ExecInv
<1>1. CASE CheckApproval(c) BY <1>0, <1>1, QuietKeeps DEF CheckApproval, Tidy
<1>2. CASE Ask(c) BY <1>0, <1>2, QuietKeeps DEF Ask, Tidy
<1>3. CASE Refuse(c) BY <1>0, <1>3, QuietKeeps DEF Refuse, Tidy
<1>4. CASE Twice(c)
  <2>1. Twin(c) BY <1>4 DEF Twice, ExecInv, DoneWasRun
  <2> QED BY <1>0, <1>4, <2>1, QuietKeeps DEF Twice, Tidy
<1>5. CASE Start(c) BY <1>0, <1>5, QuietKeeps DEF Start, Tidy
<1>6. CASE FinishCall(c) BY <1>0, <1>6, QuietKeeps DEF FinishCall, Tidy
<1>7. CASE Fail(c) BY <1>0, <1>7, QuietKeeps DEF Fail, Tidy
<1>8. CASE Fault(c) BY <1>0, <1>8, QuietKeeps DEF Fault, AtStatement, Tidy
<1>9. CASE Crash(c) BY <1>0, <1>9, QuietKeeps DEF Crash, Tidy
<1>10. ASSUME NEW ok \in BOOLEAN, Answered(c, ok) PROVE ExecInv'
  <2>1. /\ pc[c] = "running" /\ outcome' = outcome /\ rec' = rec /\ runs' = runs
        /\ pc' = [pc EXCEPT ![c] = pc'[c]] /\ pc'[c] \in {"fail", "finish", "mark"}
        /\ pc'[c] = "mark" => KeyOf[c] # NoKey
    BY <1>10 DEF Answered
  <2> QED BY <1>0, <2>1, QuietKeeps DEF Tidy
<1>11. ASSUME NEW said \in {"none", "yes", "no"}, Begin(c, said) PROVE ExecInv'
  <2>1. PICK s \in {"fail", "reserve", "check", "ask", "refuse"} : pc' = [pc EXCEPT ![c] = s]
    BY <1>11, BeginsAt DEF Begin
  <2> QED BY <1>0, <1>11, <2>1, QuietKeeps DEF Begin, Hears, Tidy
<1>12. ASSUME NEW said \in {"none", "yes", "no"}, ComeBack(c, said) PROVE ExecInv'
  <2>1. PICK s \in {"fail", "reserve", "check", "ask", "refuse"} : pc' = [pc EXCEPT ![c] = s]
    BY <1>12, BeginsAt DEF ComeBack
  <2> QED BY <1>0, <1>12, <2>1, QuietKeeps DEF ComeBack, Hears, Tidy
<1> QED BY <1>1, <1>2, <1>3, <1>4, <1>5, <1>6, <1>7, <1>8, <1>9, <1>10, <1>11, <1>12

\* A lookup that says "twice" has found the record of another call that has run.
LEMMA LookupKeeps ==
    ASSUME TypeOK, ExecInv, NEW c \in Calls, Lookup(c) PROVE ExecInv'
<1> USE DEF TypeOK, Steps, Goto
<1>1. pc[c] = "lookup" /\ outcome[c] = "none" /\ KeyOf[c] \in Keys
  BY RowsAndKeys DEF Lookup, ExecInv, Tidy
<1>2. Verdict(c) \in {"fail", "twice", "reserve"} BY DEF Verdict
<1>3. ASSUME Verdict(c) = "twice" PROVE Twin(c)
  <2>1. rec[KeyOf[c]].state = "done" /\ rec[KeyOf[c]].digest = DigestOf[c]
    BY <1>3 DEF Verdict
  <2>2. PICK d \in Calls : KeyOf[d] = KeyOf[c] /\ DigestOf[d] = DigestOf[c] /\ HasRun(d)
    BY <1>1, <2>1 DEF ExecInv, DoneWasRun
  <2>3. d # c BY <1>1, <2>2 DEF HasRun
  <2> QED BY <2>2, <2>3 DEF Twin
<1>4. Quiet(c)
  BY <1>1, <1>2, <1>3, RowsAndKeys DEF Lookup, Quiet, Orderly, Only, Sent, HasRun, Keys
<1> QED BY <1>4, QuietKeeps

\* A reservation takes a record that nobody holds: it was not there, or it expired,
\* which no record does under a running call.
LEMMA ReserveKeeps ==
    ASSUME TypeOK, ExecInv, NEW c \in Calls, Reserve(c) PROVE ExecInv'
<1> USE DEF TypeOK, Steps, Goto
<1>0. pc[c] = "reserve" /\ outcome[c] = "none" /\ outcome' = outcome /\ runs' = runs
  BY DEF Reserve, ExecInv, Tidy
<1> DEFINE Without == KeyOf[c] = NoKey /\ pc' = [pc EXCEPT ![c] = "start"] /\ rec' = rec
           Takes == /\ KeyOf[c] # NoKey /\ (rec[KeyOf[c]].state = "none" \/ rec[KeyOf[c]].expired)
                    /\ rec' = [rec EXCEPT ![KeyOf[c]] = Reservation(c)]
                    /\ pc' = [pc EXCEPT ![c] = "start"]
           Waits == KeyOf[c] # NoKey /\ pc' = [pc EXCEPT ![c] = "lookup"] /\ rec' = rec
<1>1. CASE Without \/ Waits
  BY <1>0, <1>1, QuietKeeps DEF Quiet, Orderly, Only, Sent, HasRun
<1>2. CASE Takes
  <2> DEFINE k == KeyOf[c]
  <2>1. k \in Keys BY <1>2, RowsAndKeys
  <2>2. Orderly(c) BY <1>0, <1>2 DEF Orderly, Only, HasRun
  <2>3. /\ rec'[k].state = "in_flight" /\ rec'[k].holder = c /\ rec'[k].expired = FALSE
        /\ \A l \in Keys : l # k => rec'[l] = rec[l]
    BY <1>2, <2>1 DEF Reservation
  <2>4. runs[k] = {} BY <1>2, <2>1 DEF ExecInv, OneRun
  <2>5. \A d \in Calls : d # c /\ KeyOf[d] = k => ~Sent(d)
    BY <1>2, <2>1 DEF ExecInv, Reserved
  <2>6. Reserved'
    BY <1>2, <2>1, <2>2, <2>3, <2>5, RowsAndKeys DEF Reserved, ExecInv, Orderly, Only, Sent
  <2>7. OneRun'
    BY <1>0, <1>2, <2>1, <2>2, <2>3, <2>4, RowsAndKeys DEF OneRun, ExecInv, Orderly, Only
  <2>8. DoneWasRun' BY <2>1, <2>2, <2>3, RunsStay DEF DoneWasRun, ExecInv
  <2> QED BY <2>2, <2>6, <2>7, <2>8, RunsStay DEF ExecInv
<1>3. Without \/ Takes \/ Waits BY Zenon DEF Reserve
<1> HIDE DEF Without, Takes, Waits
<1> QED BY <1>1, <1>2, <1>3

\* The holder of a record is sent once.
LEMMA SendKeeps ==
    ASSUME TypeOK, ExecInv, NEW c \in Calls, Send(c) PROVE ExecInv'
<1> USE DEF TypeOK, Steps, Goto
<1>0. pc[c] = "send" /\ outcome[c] = "none" /\ outcome' = outcome /\ rec' = rec
      /\ pc' = [pc EXCEPT ![c] = "running"]
  BY DEF Send, ExecInv, Tidy
<1>1. CASE KeyOf[c] = NoKey
  BY <1>0, <1>1, QuietKeeps DEF Send, Quiet, Orderly, Only, Sent, HasRun
<1>2. CASE KeyOf[c] # NoKey
  <2> DEFINE k == KeyOf[c]
  <2>1. k \in Keys BY <1>2, RowsAndKeys
  <2>2. Orderly(c) BY <1>0 DEF Orderly, Only, HasRun
  <2>3. runs'[k] = {c} /\ \A l \in Keys : l # k => runs'[l] = runs[l]
    BY <1>0, <1>2, <2>1 DEF Send, ExecInv, OneRun
  <2>4. rec[k].state = "in_flight" /\ rec[k].holder = c /\ ~rec[k].expired
    BY <1>0, <1>2 DEF ExecInv, Reserved, Sent
  <2>5. \A d \in Calls : d # c /\ KeyOf[d] = k => ~Sent(d)
    BY <1>2, <2>4 DEF ExecInv, Reserved
  <2>6. Reserved' BY <1>0, <2>2, <2>4 DEF Reserved, ExecInv, Orderly, Only, Sent
  <2>7. OneRun'
    BY <1>0, <2>1, <2>2, <2>3, <2>4, <2>5, RowsAndKeys, SMTT(30) DEF OneRun, ExecInv, Orderly, Only, Sent
  <2>8. DoneWasRun' BY <1>0, <2>2, RunsStay DEF DoneWasRun, ExecInv
  <2> QED BY <2>2, <2>6, <2>7, <2>8, RunsStay DEF ExecInv
<1> QED BY <1>1, <1>2

\* The mark makes the record of the call that has run done.
LEMMA MarkKeeps ==
    ASSUME TypeOK, ExecInv, NEW c \in Calls, Mark(c) PROVE ExecInv'
<1> USE DEF TypeOK, Steps, Goto
<1> DEFINE k == KeyOf[c]
<1>0. pc[c] = "mark" /\ outcome[c] = "none" /\ outcome' = outcome /\ runs' = runs /\ k # NoKey
      /\ pc' = [pc EXCEPT ![c] = "finish"]
  BY DEF Mark, ExecInv, Tidy
<1>1. k \in Keys BY <1>0, RowsAndKeys
<1>2. Orderly(c) BY <1>0 DEF Orderly, Only, HasRun
<1>3. /\ rec'[k].state = "done" /\ rec'[k].holder = c /\ rec'[k].digest = DigestOf[c]
      /\ rec'[k].expired = FALSE /\ \A l \in Keys : l # k => rec'[l] = rec[l]
  BY <1>1 DEF Mark, Reservation
<1>4. rec[k].holder = c BY <1>0 DEF ExecInv, Reserved, Sent
<1>5. \A d \in Calls : d # c /\ KeyOf[d] = k => ~Sent(d)
  BY <1>0, <1>4 DEF ExecInv, Reserved
<1>6. Reserved'
  BY <1>0, <1>1, <1>2, <1>3, <1>5, RowsAndKeys DEF Reserved, ExecInv, Orderly, Only, Sent
<1>7. OneRun'
  <2> USE DEF OneRun, ExecInv
  <2>1. \A l \in Keys : runs'[l] \subseteq {rec'[l].holder} BY <1>0, <1>1, <1>3, <1>4
  <2>2. \A l \in Keys : rec'[l].state = "none" \/ rec'[l].expired => runs'[l] = {}
    BY <1>0, <1>1, <1>3
  <2>3. \A d \in Calls : pc'[d] \in {"start", "send"} /\ KeyOf[d] # NoKey => runs'[KeyOf[d]] = {}
    BY <1>0, <1>2 DEF Orderly, Only
  <2> QED BY <2>1, <2>2, <2>3
<1>8. DoneWasRun'
  <2>1. HasRun(c)' BY <1>0 DEF HasRun
  <2> QED BY <1>1, <1>2, <1>3, <2>1, RunsStay, SMTT(30) DEF DoneWasRun, ExecInv
<1> QED BY <1>2, <1>6, <1>7, <1>8, RunsStay DEF ExecInv

\* A record expires when no call holds it, and with it the account of its runs.
LEMMA ExpireKeeps ==
    ASSUME TypeOK, ExecInv, NEW k \in Keys, Expire(k) PROVE ExecInv'
<1> USE DEF TypeOK, call
<1>0. pc' = pc /\ outcome' = outcome BY DEF Expire
<1>1. /\ rec'[k].state = rec[k].state /\ rec'[k].holder = rec[k].holder
      /\ rec'[k].digest = rec[k].digest /\ runs'[k] = {}
      /\ \A l \in Keys : l # k => rec'[l] = rec[l] /\ runs'[l] = runs[l]
  BY DEF Expire
<1>2. \A c \in Calls : KeyOf[c] = k => ~Sent(c) BY DEF Expire, Holding, Sent
<1>3. Reserved' BY <1>0, <1>1, <1>2, RowsAndKeys DEF Reserved, ExecInv, Sent
<1>4. OneRun' BY <1>0, <1>1, RowsAndKeys DEF OneRun, ExecInv
<1>5. DoneWasRun' BY <1>0, <1>1 DEF DoneWasRun, ExecInv, HasRun, Twin
<1>6. Tidy' BY <1>0 DEF Tidy, ExecInv
<1> QED BY <1>3, <1>4, <1>5, <1>6 DEF ExecInv

\* No step breaks the invariant.
LEMMA ExecNext ==
    ASSUME TypeOK, ExecInv, [Next]_vars PROVE ExecInv'
<1>1. ASSUME pc' = pc, outcome' = outcome, rec' = rec, runs' = runs PROVE ExecInv'
  BY <1>1 DEF ExecInv, Tidy, Reserved, OneRun, DoneWasRun, Sent, HasRun, Twin
<1>2. CASE UNCHANGED vars BY <1>1, <1>2 DEF vars, call
<1>3. ASSUME NEW c \in NeedsApproval \cap Recorded, NEW approve \in BOOLEAN, Submit(c, approve) PROVE ExecInv'
  BY <1>1, <1>3 DEF Submit, call
<1>4. ASSUME NEW c \in Calls, Step(c) \/ Fault(c) \/ Crash(c) PROVE ExecInv'
  BY <1>4, QuietSteps, LookupKeeps, ReserveKeeps, SendKeeps, MarkKeeps DEF Step
<1>5. ASSUME NEW c \in Calls, NEW said \in {"none", "yes", "no"}, Begin(c, said) \/ ComeBack(c, said)
      PROVE ExecInv'
  BY <1>5, QuietSteps
<1> QED BY <1>2, <1>3, <1>4, <1>5, ExpireKeeps DEF Next

\* Before the first call nothing is reserved, sent or done.
LEMMA ExecInit == Init => ExecInv
  BY DEF Init, ExecInv, Tidy, Reserved, OneRun, DoneWasRun, Sent, NoRecord

\* Until the record of a key expires one call under it reaches the server, and a call
\* reported as a duplicate was executed by another one of the same key and arguments.
THEOREM AtMostOneExecutionAlways == Spec => []AtMostOneExecution
<1>1. Init => TypeOK /\ ExecInv
  BY TypeInit, ExecInit
<1>2. TypeOK /\ ExecInv /\ [Next]_vars => (TypeOK /\ ExecInv)'
  BY TypeNext, ExecNext
<1>3. ASSUME TypeOK, ExecInv PROVE AtMostOneExecution
  <2>1. ASSUME NEW k \in Keys PROVE Cardinality(runs[k]) <= 1
    <3>1. CASE runs[k] = {} BY <3>1, FS_EmptySet
    <3>2. CASE runs[k] = {rec[k].holder}
      <4>1. Cardinality({rec[k].holder}) = 1 BY FS_Singleton
      <4> QED BY <3>2, <4>1
    <3> QED BY <1>3, <3>1, <3>2 DEF ExecInv, OneRun
  <2> QED BY <1>3, <2>1 DEF AtMostOneExecution, ExecInv, DoneWasRun, Twin, HasRun
<1> QED BY <1>1, <1>2, <1>3, PTL DEF Spec

---------------------------------------------------------------------------
(* NothingRunsUnapproved *)

\* Past the approval: every step behind the reservation, and the failure of a call
\* that was not refused by the white list.
Past(c) ==
    \/ pc[c] \in {"reserve", "lookup", "start", "send", "running", "mark", "finish", "twice"}
    \/ pc[c] = "fail" /\ c \in Allowed

\* Not yet looked up, or sent back to ask.
Before(c) == pc[c] \in {"idle", "check", "ask", "refuse"} \/ outcome[c] = "pending"

\* What a call past the approval has shown.
Shown(c) ==
    /\ c \in claimed
    /\ c \in Recorded => RowOf[c] \in granted /\ (Alone(c) => c \in cleared)

\* An approval in a row that one call has to itself is the last decision, until
\* that call is past its check.
Fresh(c) == row[RowOf[c]].approval = "approved" => RowOf[c] \in decided

\* A row says "approved" only when a client did, and so does every call past the check.
ApprovalInv ==
    /\ \A r \in Rows : row[r].approval = "approved" => r \in granted
    /\ \A c \in NeedsApproval : Past(c) => Shown(c)
    /\ \A c \in NeedsApproval : pc[c] = "check" => c \in claimed
    /\ \A c \in NeedsApproval \cap Recorded : Alone(c) /\ Before(c) => Fresh(c)

\* What call c may do.
Fits(c) ==
    /\ c \in NeedsApproval /\ Past(c)' => Shown(c)'
    /\ c \in NeedsApproval /\ pc'[c] = "check" => c \in claimed'
    /\ \A d \in Calls \ {c} : pc'[d] = pc[d] /\ outcome'[d] = outcome[d]
                              /\ (d \in claimed => d \in claimed') /\ (d \in cleared => d \in cleared')
    /\ granted' = granted /\ decided' = decided

\* A step of a call that leaves the rows alone and does not get past the check, or was past it.
LEMMA ApprovalSteps ==
    ASSUME ApprovalInv, NEW c \in Calls, Fits(c), row' = row,
           c \in NeedsApproval /\ Before(c)' => Before(c)
    PROVE  ApprovalInv'
<1> USE DEF Fits
<1>1. \A d \in Calls : d # c => Past(d)' = Past(d) /\ Before(d)' = Before(d) BY DEF Past, Before
<1>2. \A d \in Calls : d # c /\ Shown(d) => Shown(d)' BY DEF Shown, Alone
<1>3. \A d \in NeedsApproval : Past(d)' => Shown(d)' BY <1>1, <1>2 DEF ApprovalInv
<1>4. \A d \in NeedsApproval : pc'[d] = "check" => d \in claimed' BY DEF ApprovalInv
<1>5. \A d \in NeedsApproval \cap Recorded : Alone(d)' /\ Before(d)' => Fresh(d)'
  BY <1>1 DEF ApprovalInv, Fresh, Alone
<1> QED BY <1>3, <1>4, <1>5 DEF ApprovalInv

\* A step of a call that writes its row.
LEMMA ApprovalWrites ==
    ASSUME TypeOK, ApprovalInv, NEW c \in Calls, Fits(c), NEW st, NEW ap, Record(c, st, ap),
           ap = "approved" /\ c \in Recorded => RowOf[c] \in granted,
           c \in NeedsApproval /\ Before(c)' => Before(c) /\ ap # "approved"
    PROVE  ApprovalInv'
<1> USE DEF Fits
<1>1. \A d \in Calls : d # c => Past(d)' = Past(d) /\ Before(d)' = Before(d) BY DEF Past, Before
<1>2. \A d \in Calls : d # c /\ Shown(d) => Shown(d)' BY DEF Shown, Alone
<1>3. \A d \in NeedsApproval : Past(d)' => Shown(d)' BY <1>1, <1>2 DEF ApprovalInv
<1>4. \A d \in NeedsApproval : pc'[d] = "check" => d \in claimed' BY DEF ApprovalInv
<1>5. \A r \in Rows : row'[r].approval = "approved" => r \in granted
  BY RowsAndKeys DEF ApprovalInv, Record, TypeOK
<1>6. ASSUME NEW d \in NeedsApproval \cap Recorded, Alone(d), Before(d)' PROVE Fresh(d)'
  <2>1. CASE d = c
    BY <1>6, <2>1, RowsAndKeys DEF ApprovalInv, Fresh, Record, TypeOK
  <2>2. CASE d # c
    <3>1. RowOf[d] # RowOf[c] BY <1>6, <2>2 DEF Alone
    <3>2. row'[RowOf[d]] = row[RowOf[d]] BY <3>1, RowsAndKeys DEF Record, TypeOK
    <3> QED BY <1>1, <1>6, <2>2, <3>2 DEF ApprovalInv, Fresh
  <2> QED BY <2>1, <2>2
<1>7. \A d \in NeedsApproval \cap Recorded : Alone(d)' /\ Before(d)' => Fresh(d)'
  BY <1>6 DEF Alone
<1> QED BY <1>3, <1>4, <1>5, <1>7 DEF ApprovalInv

\* No step of call_tool, of the caller or of the client breaks ApprovalInv.
LEMMA ApprovalNext ==
    ASSUME TypeOK, Tidy, ApprovalInv, [Next]_vars PROVE ApprovalInv'
<1> USE RowsAndKeys DEF Goto, Ends, call, bounds, consent, Past, Before, TypeOK, Steps, Fits
<1>0. \A c \in NeedsApproval : Past(c) => Shown(c) BY DEF ApprovalInv
<1>s. ASSUME consent' = consent, NEW c \in Calls, Shown(c) PROVE Shown(c)'
  BY <1>s DEF Shown, Alone
<1>p. ASSUME NEW c \in Calls, Past(c) PROVE Approval(c) = "approved" /\ c \in Recorded => RowOf[c] \in granted
  BY <1>0, <1>p DEF Approval, Shown
<1>1. ASSUME NEW c \in Calls, CheckApproval(c) PROVE ApprovalInv'
  <2>0. claimed' = claimed /\ granted' = granted /\ decided' = decided /\ row' = row /\ outcome' = outcome
        /\ cleared \subseteq cleared' /\ outcome[c] = "none" /\ pc[c] = "check"
    BY <1>1 DEF CheckApproval, Tidy
  <2>1. CASE /\ c \notin Stored \/ row[RowOf[c]].approval = "approved"
             /\ Goto(c, "reserve")
             /\ cleared' = IF RowOf[c] \in decided THEN cleared \cup {c} ELSE cleared
    <3>1. ASSUME c \in NeedsApproval PROVE Shown(c)'
      <4>1. c \in claimed BY <2>0, <3>1 DEF ApprovalInv
      <4>2. ASSUME c \in Recorded PROVE row[RowOf[c]].approval = "approved" BY <2>1, <4>2 DEF Recorded
      <4>3. ASSUME c \in Recorded PROVE RowOf[c] \in granted BY <4>2, <4>3 DEF ApprovalInv
      <4>4. ASSUME c \in Recorded, Alone(c) PROVE c \in cleared'
        BY <2>0, <2>1, <3>1, <4>2, <4>4 DEF ApprovalInv, Fresh
      <4> QED BY <2>0, <4>1, <4>3, <4>4 DEF Shown, Alone
    <3>2. Fits(c) BY <2>0, <2>1, <3>1
    <3> QED BY <2>0, <2>1, <3>2, ApprovalSteps
  <2>2. CASE Goto(c, "ask")
    BY <2>0, <2>2, ApprovalSteps
  <2> QED BY <1>1, <2>1, <2>2 DEF CheckApproval
<1>2. ASSUME NEW c \in Calls, Ask(c) PROVE ApprovalInv' BY <1>2, ApprovalWrites DEF Ask
<1>3. ASSUME NEW c \in Calls, Refuse(c) PROVE ApprovalInv' BY <1>3, ApprovalWrites DEF Refuse, Tidy
<1>4. ASSUME NEW c \in Calls, Reserve(c) PROVE ApprovalInv'
  <2>1. PICK s \in {"start", "lookup"} : pc' = [pc EXCEPT ![c] = s] BY <1>4 DEF Reserve
  <2> QED BY <1>0, <1>s, <1>4, <2>1, ApprovalSteps DEF Reserve, Tidy
<1>5. ASSUME NEW c \in Calls, Lookup(c) PROVE ApprovalInv'
  <2>1. Verdict(c) \in {"fail", "twice", "reserve"} BY DEF Verdict
  <2> QED BY <1>0, <1>s, <1>5, <2>1, ApprovalSteps DEF Lookup, Tidy
<1>6. ASSUME NEW c \in Calls, Twice(c) PROVE ApprovalInv'
  BY <1>p, <1>6, ApprovalWrites DEF Twice
<1>7. ASSUME NEW c \in Calls, Start(c) PROVE ApprovalInv'
  BY <1>0, <1>s, <1>p, <1>7, ApprovalWrites DEF Start, Tidy
<1>8. ASSUME NEW c \in Calls, Send(c) PROVE ApprovalInv'
  BY <1>0, <1>s, <1>8, ApprovalSteps DEF Send, Tidy
<1>9. ASSUME NEW c \in Calls, Mark(c) PROVE ApprovalInv'
  BY <1>0, <1>s, <1>9, ApprovalSteps DEF Mark, Tidy
<1>10. ASSUME NEW c \in Calls, FinishCall(c) PROVE ApprovalInv'
  BY <1>p, <1>10, ApprovalWrites DEF FinishCall
<1>11. ASSUME NEW c \in Calls, Fail(c) PROVE ApprovalInv'
  BY <1>p, <1>11, ApprovalWrites DEF Fail
<1>12. ASSUME NEW c \in Calls, NEW ok \in BOOLEAN, Answered(c, ok) PROVE ApprovalInv'
  <2>1. PICK s \in {"fail", "finish", "mark"} : pc' = [pc EXCEPT ![c] = s] BY <1>12 DEF Answered
  <2> QED BY <1>0, <1>s, <1>12, <2>1, ApprovalSteps DEF Answered, Tidy
<1>13. ASSUME NEW c \in Calls, Fault(c) \/ Crash(c) PROVE ApprovalInv'
  BY <1>13, ApprovalSteps DEF Fault, Crash
<1>14. ASSUME NEW c \in Calls, NEW said \in {"none", "yes", "no"}, Begin(c, said) \/ ComeBack(c, said)
       PROVE  ApprovalInv'
  <2>1. PICK s \in {"fail", "reserve", "check", "ask", "refuse"} :
              /\ pc' = [pc EXCEPT ![c] = s]
              /\ s = "fail" => c \notin Allowed
              /\ s = "reserve" /\ c \in NeedsApproval => c \in claimed' /\ c \notin Numbered
              /\ s = "check" => c \in claimed'
    BY <1>14, BeginsAt DEF Begin, ComeBack
  <2>2. /\ claimed \subseteq claimed' /\ granted' = granted /\ decided' = decided /\ cleared' = cleared
        /\ row' = row /\ Before(c) /\ \A d \in Calls \ {c} : outcome'[d] = outcome[d]
    BY <1>14 DEF Begin, ComeBack, Hears
  <2>3. c \in NeedsApproval /\ Past(c)' => Shown(c)' BY <2>1 DEF Shown, Recorded
  <2>4. Fits(c) BY <2>1, <2>2, <2>3
  <2> QED BY <2>2, <2>4, ApprovalSteps
<1>16. ASSUME NEW c \in NeedsApproval \cap Recorded, NEW approve \in BOOLEAN, Submit(c, approve) PROVE ApprovalInv'
  <2>1. /\ pc' = pc /\ outcome' = outcome /\ claimed' = claimed /\ cleared' = cleared /\ granted \subseteq granted'
        /\ \A r \in Rows : r # RowOf[c] => row'[r] = row[r] /\ (r \in decided <=> r \in decided')
        /\ row'[RowOf[c]].approval = "approved" => RowOf[c] \in granted' /\ RowOf[c] \in decided'
    BY <1>16 DEF Submit, SetApproval
  <2>2. \A d \in Calls : Shown(d) => Shown(d)' BY <2>1 DEF Shown, Alone
  <2>3. \A d \in NeedsApproval \cap Recorded : Alone(d)' /\ Before(d)' => Fresh(d)'
    BY <2>1 DEF ApprovalInv, Fresh, Alone
  <2> QED BY <2>1, <2>2, <2>3 DEF ApprovalInv
<1>17. ASSUME NEW k \in Keys, Expire(k) PROVE ApprovalInv'
  BY <1>17 DEF Expire, ApprovalInv, Shown, Fresh, Alone
<1>18. CASE UNCHANGED vars BY <1>18 DEF vars, ApprovalInv, Shown, Fresh, Alone
<1> QED
  BY <1>1, <1>2, <1>3, <1>4, <1>5, <1>6, <1>7, <1>8, <1>9, <1>10, <1>11, <1>12, <1>13, <1>14,
     <1>16, <1>17, <1>18 DEF Next, Step

\* A tool that needs an approval runs only when its caller claims it; a call that leaves a row
\* only after a client granted it, and if the row is its own the decision that stood at its check was
\* that, for any number of calls that share rows, retries of the caller and failing statements.
THEOREM NothingRunsUnapprovedAlways == Spec => []NothingRunsUnapproved
<1>1. Init => TypeOK /\ ExecInv /\ ApprovalInv
  BY TypeInit, ExecInit, RowsAndKeys DEF Init, ApprovalInv, Past, Fresh
<1>2. TypeOK /\ ExecInv /\ ApprovalInv /\ [Next]_vars => (TypeOK /\ ExecInv /\ ApprovalInv)'
  BY TypeNext, ApprovalNext, ExecNext DEF ExecInv
<1>3. ApprovalInv => NothingRunsUnapproved
  BY DEF ApprovalInv, NothingRunsUnapproved, Running, Past, Shown
<1> QED BY <1>1, <1>2, <1>3, PTL DEF Spec

---------------------------------------------------------------------------
(* The agents of the orchestrators *)

AgentRec ==
    [orch : Nat, listed : BOOLEAN, status : Ag!Statuses, product : BOOLEAN,
     task : {"created", "running", "aborted", "cancelled", "done", "interrupted"},
     tried : Nat, text : BOOLEAN]

ReqRec == [pc : {"new", "call", "wait", "end"}, orch : Nat, on : Nat, reply : Ag!Replies]

AgentsTyped ==
    /\ registry \in [Sessions -> Nat] /\ made \in Nat
    /\ agents \in Seq(AgentRec) /\ req \in [Requests -> ReqRec]

\* The task of an agent has not been told to stop and has not come to its end.
AtWork(x) == x.task \in {"created", "running"}

\* The roll-out came to its end, with a product or after every key was asked.
Earned(x) == x.task = "done" /\ (x.product \/ x.tried = Len(Pool))

\* An agent is reported as completed only when it is, and one that is at work
\* counts for the limit of its orchestrator.
SoundAgent(x) ==
    /\ x.status = "completed" => Earned(x)
    /\ AtWork(x) => x.listed /\ x.status = "running"

\* What may become of an agent: it never goes back to work, and what it earned stays.
Ages(x, y) ==
    /\ y.orch = x.orch
    /\ AtWork(y) => AtWork(x)
    /\ Earned(x) => Earned(y)

Workers(o) == {i \in Ag!Ids : agents[i].orch = o /\ agents[i].task \in {"created", "running"}}

SoundAgents == \A i \in Ag!Ids : SoundAgent(agents[i])

SoundRequests ==
    \A r \in Requests :
        /\ req[r].pc = "wait" => req[r].on \in Ag!Ids /\ req[r].reply = "none"
        /\ req[r].pc \in {"new", "call"} => req[r].reply = "none"
        /\ req[r].reply = "completed" => req[r].on \in Ag!Ids /\ Earned(agents[req[r].on])

WithinLimit == \A o \in Nat : Cardinality(Workers(o)) <= MaxThreads

AgentsInv == AgentsTyped /\ SoundAgents /\ SoundRequests /\ WithinLimit

\* The instance counts as this module does.
LEMMA SameCount == \A S : Ag!Cardinality(S) = Cardinality(S)
  BY DEF Ag!Cardinality, Cardinality

HIDE McpAssumption
USE AgentsAssumption

\* The agents are counted from one, so that those of an orchestrator are finitely many.
LEMMA FewAgents ==
    ASSUME AgentsTyped
    PROVE  /\ Ag!Ids = 1..Len(agents) /\ Len(agents) \in Nat /\ IsFiniteSet(Ag!Ids)
           /\ \A i \in Ag!Ids : agents[i] \in AgentRec
           /\ \A o : IsFiniteSet(Workers(o)) /\ IsFiniteSet(Ag!Active(o))
<1>1. agents \in Seq(AgentRec) BY DEF AgentsTyped
<1>2. Ag!Ids = 1..Len(agents) /\ Len(agents) \in Nat BY <1>1 DEF Ag!Ids
<1>3. IsFiniteSet(Ag!Ids) BY <1>2, FS_Interval
<1>4. \A i \in Ag!Ids : agents[i] \in AgentRec BY <1>1, <1>2
<1>5. ASSUME NEW o PROVE IsFiniteSet(Workers(o)) /\ IsFiniteSet(Ag!Active(o))
  <2>1. Workers(o) \subseteq Ag!Ids /\ Ag!Active(o) \subseteq Ag!Ids BY DEF Workers, Ag!Active
  <2> QED BY <1>3, <2>1, FS_Subset
<1> QED BY <1>2, <1>3, <1>4, <1>5

\* A step that changes one agent, in a way an agent may change, keeps the invariant as
\* far as the agents and the requests it leaves alone are concerned.
LEMMA OneAgentAges ==
    ASSUME AgentsInv, NEW i \in Ag!Ids, NEW y \in AgentRec,
           SoundAgent(y), Ages(agents[i], y),
           agents' = [agents EXCEPT ![i] = y]
    PROVE  /\ agents' \in Seq(AgentRec) /\ Ag!Ids' = Ag!Ids
           /\ SoundAgents' /\ WithinLimit'
           /\ \A k \in Ag!Ids : Earned(agents[k]) => Earned(agents'[k])
<1> USE DEF AgentsInv
<1>1. /\ Ag!Ids = 1..Len(agents) /\ Len(agents) \in Nat /\ agents \in Seq(AgentRec)
      /\ \A k \in Ag!Ids : agents[k] \in AgentRec
  BY FewAgents DEF AgentsTyped
<1>2. agents' \in Seq(AgentRec) /\ Len(agents') = Len(agents) BY <1>1
<1>3. Ag!Ids' = Ag!Ids BY <1>1, <1>2 DEF Ag!Ids
<1>4. agents'[i] = y /\ \A k \in Ag!Ids : k # i => agents'[k] = agents[k] BY <1>1
<1>5. SoundAgents' BY <1>3, <1>4 DEF SoundAgents, SoundAgent, Earned, AtWork
<1>6. \A k \in Ag!Ids : Earned(agents[k]) => Earned(agents'[k]) BY <1>4 DEF Ages, Earned
<1>7. ASSUME NEW o \in Nat PROVE Cardinality(Workers(o)') <= MaxThreads
  <2>1. Workers(o)' \subseteq Workers(o) BY <1>3, <1>4 DEF Workers, Ages, AtWork
  <2>2. IsFiniteSet(Workers(o)) BY FewAgents
  <2>3. Cardinality(Workers(o)') <= Cardinality(Workers(o)) /\ IsFiniteSet(Workers(o)') BY <2>1, <2>2, FS_Subset
  <2>4. Cardinality(Workers(o)) \in Nat /\ Cardinality(Workers(o)') \in Nat BY <2>2, <2>3, FS_CardinalityType
  <2>5. Cardinality(Workers(o)) <= MaxThreads BY DEF WithinLimit
  <2> QED BY <2>3, <2>4, <2>5
<1>8. WithinLimit'
  BY <1>7 DEF WithinLimit
<1> QED BY <1>2, <1>3, <1>5, <1>6, <1>8

\* A step of the roll-out touches no request.
LEMMA RollsKeeps ==
    ASSUME AgentsInv, NEW i \in Ag!Ids, NEW y \in AgentRec, Ag!Rolls(i, y),
           SoundAgent(y), Ages(agents[i], y)
    PROVE  AgentsInv'
<1>1. /\ agents' = [agents EXCEPT ![i] = y]
      /\ registry' = registry /\ made' = made /\ req' = req
  BY DEF Ag!Rolls
<1>2. /\ agents' \in Seq(AgentRec) /\ Ag!Ids' = Ag!Ids
      /\ SoundAgents' /\ WithinLimit'
      /\ \A k \in Ag!Ids : Earned(agents[k]) => Earned(agents'[k])
  BY <1>1, OneAgentAges
<1>3. AgentsTyped' BY <1>1, <1>2 DEF AgentsInv, AgentsTyped
<1>4. SoundRequests' BY <1>1, <1>2 DEF AgentsInv, SoundRequests, Earned
<1> QED BY <1>2, <1>3, <1>4 DEF AgentsInv

\* A request that ends, or goes to wait for an agent, while an agent may change.
LEMMA RequestKeeps ==
    ASSUME AgentsInv, NEW r \in Requests, NEW q \in ReqRec,
           req' = [req EXCEPT ![r] = q], registry' \in [Sessions -> Nat], made' \in Nat,
           q.pc = "wait" => q.on \in Ag!Ids /\ q.reply = "none",
           q.pc \in {"new", "call"} => q.reply = "none",
           q.reply = "completed" => q.on \in Ag!Ids /\ Earned(agents'[q.on]),
           agents' \in Seq(AgentRec), Ag!Ids \subseteq Ag!Ids', SoundAgents', WithinLimit',
           \A k \in Ag!Ids : Earned(agents[k]) => Earned(agents'[k])
    PROVE  AgentsInv'
<1> USE DEF AgentsInv
<1>1. req \in [Requests -> ReqRec] BY DEF AgentsTyped
<1>2. req' \in [Requests -> ReqRec] /\ req'[r] = q /\ \A t \in Requests : t # r => req'[t] = req[t]
  BY <1>1
<1>3. AgentsTyped' BY <1>2 DEF AgentsTyped
<1>4. SoundRequests'
  <2> SUFFICES ASSUME NEW t \in Requests
               PROVE  /\ req'[t].pc = "wait" => req'[t].on \in Ag!Ids' /\ req'[t].reply = "none"
                      /\ req'[t].pc \in {"new", "call"} => req'[t].reply = "none"
                      /\ req'[t].reply = "completed" => req'[t].on \in Ag!Ids' /\ Earned(agents'[req'[t].on])
    BY DEF SoundRequests, Earned
  <2>1. CASE t = r BY <1>2, <2>1
  <2>2. CASE t # r BY <1>2, <2>2 DEF SoundRequests
  <2> QED BY <2>1, <2>2
<1> QED BY <1>3, <1>4

\* A request that leaves the agents alone.
LEMMA QuietRequest ==
    ASSUME AgentsInv, NEW r \in Requests, NEW q \in ReqRec, agents' = agents,
           req' = [req EXCEPT ![r] = q], registry' \in [Sessions -> Nat], made' \in Nat,
           q.pc = "wait" => q.on \in Ag!Ids /\ q.reply = "none",
           q.pc \in {"new", "call"} => q.reply = "none",
           q.reply = "completed" => q.on \in Ag!Ids /\ Earned(agents[q.on])
    PROVE  AgentsInv'
<1>1. agents' \in Seq(AgentRec) /\ Ag!Ids' = Ag!Ids BY DEF AgentsInv, AgentsTyped, Ag!Ids
<1>2. SoundAgents' BY <1>1 DEF AgentsInv, SoundAgents
<1>3. WithinLimit'
  <2>1. \A o : Workers(o)' = Workers(o) BY <1>1 DEF Workers
  <2> QED BY <2>1 DEF AgentsInv, WithinLimit
<1>4. /\ q.reply = "completed" => q.on \in Ag!Ids /\ Earned(agents'[q.on])
      /\ \A k \in Ag!Ids : Earned(agents[k]) => Earned(agents'[k])
  OBVIOUS
<1> QED BY <1>1, <1>2, <1>3, <1>4, RequestKeeps

\* A session is entered, goes idle or is evicted: its agents go on.
LEMMA SessionSteps ==
    ASSUME AgentsInv,
           \/ \E r \in Requests : Ag!Enter(r)
           \/ \E s \in Sessions : Ag!GoesIdle(s) \/ Ag!Evict(s)
    PROVE  AgentsInv'
<1> USE DEF AgentsInv
<1>1. ASSUME NEW r \in Requests, Ag!Enter(r) PROVE AgentsInv'
  <2> DEFINE s == SessionOf[r]
             o == IF registry[s] = Ag!None THEN made + 1 ELSE registry[s]
             q == [req[r] EXCEPT !.pc = "call", !.orch = o]
  <2>1. s \in Sessions /\ o \in Nat BY DEF AgentsTyped
  <2>2. req[r] \in ReqRec /\ req[r].pc = "new" BY <1>1 DEF AgentsTyped, Ag!Enter
  <2>3. q \in ReqRec /\ q.pc = "call" /\ q.reply = "none"
    BY <2>1, <2>2 DEF ReqRec, SoundRequests
  <2>4. req' = [req EXCEPT ![r] = q]
    BY <1>1, <2>2 DEF Ag!Enter, AgentsTyped, ReqRec
  <2>5. registry' \in [Sessions -> Nat] /\ made' \in Nat /\ agents' = agents
    BY <1>1, <2>1 DEF Ag!Enter, AgentsTyped
  <2> HIDE DEF q, o, s
  <2> QED BY <2>3, <2>4, <2>5, QuietRequest
<1>2. ASSUME NEW s \in Sessions, Ag!GoesIdle(s) \/ Ag!Evict(s) PROVE AgentsInv'
  <2>0. registry' = registry \/ registry' = [registry EXCEPT ![s] = 0]
    BY <1>2 DEF Ag!GoesIdle, Ag!Evict, Ag!None
  <2>1. agents' = agents /\ req' = req /\ made' = made BY <1>2 DEF Ag!GoesIdle, Ag!Evict
  <2>2. Ag!Ids' = Ag!Ids BY <2>1 DEF Ag!Ids
  <2>3. \A o : Workers(o)' = Workers(o) BY <2>1, <2>2 DEF Workers
  <2>4. registry' \in [Sessions -> Nat]
    <3>1. registry \in [Sessions -> Nat] /\ 0 \in Nat BY DEF AgentsTyped
    <3> QED BY <2>0, <3>1
  <2> QED BY <2>1, <2>2, <2>3, <2>4 DEF AgentsTyped, SoundAgents, SoundRequests, WithinLimit
<1> QED BY <1>1, <1>2

\* How a tool call ends: with one assignment to its request.
LEMMA EndsAs ==
    ASSUME AgentsTyped, NEW r \in Requests, NEW i \in Nat, NEW reply \in Ag!Replies, Ag!Ends(r, i, reply)
    PROVE  \E q \in ReqRec : /\ req' = [req EXCEPT ![r] = q]
                             /\ q.pc = "end" /\ q.on = i /\ q.reply = reply
<1> DEFINE q == [req[r] EXCEPT !.pc = "end", !.on = i, !.reply = reply]
<1>1. req[r] \in ReqRec BY DEF AgentsTyped
<1>2. q \in ReqRec /\ q.pc = "end" /\ q.on = i /\ q.reply = reply BY <1>1 DEF ReqRec
<1>3. req' = [req EXCEPT ![r] = q] BY <1>1 DEF Ag!Ends, AgentsTyped, ReqRec
<1> QED BY <1>2, <1>3

\* task.cancel() stops an agent that is at work and leaves what another one earned.
LEMMA CancelTaskIs ==
    ASSUME AgentsInv, NEW i \in Ag!Ids
    PROVE  /\ Ag!CancelTask(i) \in AgentRec /\ ~AtWork(Ag!CancelTask(i))
           /\ Ages(agents[i], Ag!CancelTask(i)) /\ SoundAgent(Ag!CancelTask(i))
           /\ LET y == [Ag!CancelTask(i) EXCEPT !.status = "closed", !.listed = FALSE]
              IN  y \in AgentRec /\ Ages(agents[i], y) /\ SoundAgent(y)
<1> DEFINE y == Ag!CancelTask(i)
<1>1. agents[i] \in AgentRec /\ SoundAgent(agents[i]) BY FewAgents DEF AgentsInv, SoundAgents
<1>2. /\ y \in AgentRec /\ y.orch = agents[i].orch /\ y.status = agents[i].status
      /\ y.product = agents[i].product /\ y.tried = agents[i].tried
      /\ y.task \notin {"created", "running"}
      /\ agents[i].task = "done" => y.task = "done"
      /\ agents[i].task \notin {"created", "running"} => y.task = agents[i].task
  BY <1>1 DEF Ag!CancelTask, AgentRec
<1> HIDE DEF y
<1>3. ~AtWork(y) /\ Ages(agents[i], y) /\ SoundAgent(y)
  BY <1>1, <1>2 DEF AtWork, Ages, SoundAgent, Earned
<1> DEFINE z == [y EXCEPT !.status = "closed", !.listed = FALSE]
<1>4. /\ z \in AgentRec /\ z.status = "closed" /\ z.task = y.task /\ z.orch = y.orch
      /\ z.product = y.product /\ z.tried = y.tried
  BY <1>2 DEF AgentRec, Ag!Statuses
<1> HIDE DEF z
<1>5. Ages(agents[i], z) /\ SoundAgent(z)
  BY <1>1, <1>2, <1>4 DEF AtWork, Ages, SoundAgent, Earned
<1> QED BY <1>2, <1>3, <1>4, <1>5 DEF y, z

\* spawn_agent: the new agent is one more at work, and there was room for it.
LEMMA SpawnKeeps ==
    ASSUME AgentsInv, NEW r \in Requests,
           NEW path \in Ag!Paths, NEW arg \in Ag!Arguments, NEW user \in BOOLEAN, Ag!Spawn(r, path, arg, user)
    PROVE  AgentsInv'
<1> USE DEF AgentsInv
<1>1. registry' = registry /\ made' = made BY DEF Ag!Spawn
<1>2. registry \in [Sessions -> Nat] /\ made \in Nat /\ agents \in Seq(AgentRec) BY DEF AgentsTyped
<1>3. CASE agents' = agents /\ \E reply \in {"refused", "limit"} : Ag!Ends(r, Ag!None, reply)
  <2>1. PICK reply \in {"refused", "limit"} : Ag!Ends(r, Ag!None, reply) BY <1>3
  <2>2. reply \in Ag!Replies /\ Ag!None \in Nat BY DEF Ag!Replies, Ag!None
  <2>3. PICK q \in ReqRec : /\ req' = [req EXCEPT ![r] = q]
                            /\ q.pc = "end" /\ q.on = Ag!None /\ q.reply = reply
    BY <2>1, <2>2, EndsAs
  <2> QED BY <1>1, <1>2, <1>3, <2>3, QuietRequest
<1>4. CASE /\ Cardinality(Ag!Active(req[r].orch)) < MaxThreads
           /\ agents' = Append(agents, Ag!NewAgent(req[r].orch))
           /\ Ag!Ends(r, Len(agents) + 1, "running")
  <2> DEFINE new == Ag!NewAgent(req[r].orch)
             n == Len(agents) + 1
  <2>1. req[r].orch \in Nat BY DEF AgentsTyped, ReqRec
  <2>2. new \in AgentRec /\ SoundAgent(new) /\ new.orch = req[r].orch
    BY <2>1 DEF AgentRec, SoundAgent, AtWork, Earned, Ag!NewAgent, Ag!Statuses
  <2>3. Ag!Ids = 1..Len(agents) /\ Len(agents) \in Nat /\ \A k \in Ag!Ids : agents[k] \in AgentRec BY FewAgents
  <2> HIDE DEF new
  <2>4. agents' \in Seq(AgentRec) /\ Len(agents') = n /\ agents'[n] = new
        /\ \A k \in 1..Len(agents) : agents'[k] = agents[k]
    BY <1>2, <1>4, <2>2, <2>3 DEF new
  <2>5. Ag!Ids' = Ag!Ids \cup {n} /\ n \notin Ag!Ids BY <2>3, <2>4 DEF Ag!Ids
  <2>6. SoundAgents' BY <2>2, <2>3, <2>4, <2>5 DEF SoundAgents, SoundAgent, Earned, AtWork
  <2>7. \A k \in Ag!Ids : Earned(agents[k]) => Earned(agents'[k]) BY <2>3, <2>4 DEF Earned
  <2>8. ASSUME NEW o \in Nat PROVE Cardinality(Workers(o)') <= MaxThreads
    <3>1. IsFiniteSet(Workers(o)) /\ IsFiniteSet(Ag!Active(o)) BY FewAgents
    <3>2. Cardinality(Workers(o)) \in Nat /\ Cardinality(Ag!Active(o)) \in Nat BY <3>1, FS_CardinalityType
    <3>3. CASE o # req[r].orch
      <4>1. Workers(o)' = Workers(o) BY <2>2, <2>3, <2>4, <2>5, <3>3 DEF Workers
      <4> QED BY <4>1 DEF WithinLimit
    <3>4. CASE o = req[r].orch
      <4>1. Workers(o) \subseteq Ag!Active(o)
        BY DEF Workers, Ag!Active, SoundAgents, SoundAgent, AtWork, Ag!Live
      <4>2. Cardinality(Workers(o)) <= Cardinality(Ag!Active(o)) BY <3>1, <4>1, FS_Subset
      <4>3. Workers(o)' \subseteq Workers(o) \cup {n} BY <2>3, <2>4, <2>5 DEF Workers
      <4>4. n \notin Workers(o) BY <2>5 DEF Workers
      <4>5. /\ IsFiniteSet(Workers(o) \cup {n})
            /\ Cardinality(Workers(o) \cup {n}) = Cardinality(Workers(o)) + 1
        BY <3>1, <4>4, FS_AddElement
      <4>6. /\ Cardinality(Workers(o)') <= Cardinality(Workers(o) \cup {n})
            /\ IsFiniteSet(Workers(o)')
        BY <4>3, <4>5, FS_Subset
      <4>7. Cardinality(Workers(o)') \in Nat BY <4>6, FS_CardinalityType
      <4>8. Cardinality(Ag!Active(o)) < MaxThreads BY <1>4, <3>4
      <4> QED BY <3>2, <4>2, <4>5, <4>6, <4>7, <4>8
    <3> QED BY <3>3, <3>4
  <2>9. WithinLimit' BY <2>8 DEF WithinLimit
  <2>10. n \in Nat /\ "running" \in Ag!Replies BY <2>3 DEF Ag!Replies, Ag!Statuses
  <2>11. PICK q \in ReqRec : /\ req' = [req EXCEPT ![r] = q]
                             /\ q.pc = "end" /\ q.on = n /\ q.reply = "running"
    BY <1>4, <2>10, EndsAs
  <2> QED BY <1>1, <1>2, <2>4, <2>5, <2>6, <2>7, <2>9, <2>11, RequestKeeps
<1> QED BY <1>3, <1>4, SameCount DEF Ag!Spawn

\* The calls that name an agent, and the waiters.
LEMMA CallKeeps ==
    ASSUME AgentsInv, NEW r \in Requests, NEW i \in Ag!Ids,
           Ag!Unknown(r, i) \/ Ag!SendInput(r, i) \/ Ag!Wait(r, i) \/ Ag!Close(r, i)
    PROVE  AgentsInv'
<1> USE DEF AgentsInv
<1>0. registry \in [Sessions -> Nat] /\ made \in Nat /\ agents \in Seq(AgentRec) BY DEF AgentsTyped
<1>1. i \in Nat /\ agents[i] \in AgentRec /\ SoundAgent(agents[i]) BY FewAgents DEF SoundAgents
<1>2. registry' = registry /\ made' = made BY DEF Ag!Unknown, Ag!SendInput, Ag!Wait, Ag!Close
<1>3. ASSUME NEW reply \in Ag!Replies, Ag!Ends(r, i, reply), agents' = agents,
             reply = "completed" => Earned(agents[i])
      PROVE  AgentsInv'
  <2>1. PICK q \in ReqRec : /\ req' = [req EXCEPT ![r] = q]
                            /\ q.pc = "end" /\ q.on = i /\ q.reply = reply
    BY <1>1, <1>3, EndsAs
  <2> QED BY <1>0, <1>2, <1>3, <2>1, QuietRequest
<1>4. CASE Ag!Unknown(r, i) \/ Ag!SendInput(r, i)
  <2>1. PICK reply \in {"unknown", "acknowledged"} : Ag!Ends(r, i, reply) BY <1>4 DEF Ag!Unknown, Ag!SendInput
  <2>2. reply \in Ag!Replies /\ reply # "completed" BY DEF Ag!Replies
  <2>3. agents' = agents BY <1>4 DEF Ag!Unknown, Ag!SendInput
  <2> QED BY <1>3, <2>1, <2>2, <2>3
<1>5. CASE Ag!Wait(r, i) /\ Ag!Over(i)
  <2>1. Ag!Ends(r, i, agents[i].status) /\ agents' = agents BY <1>5 DEF Ag!Wait
  <2>2. agents[i].status \in Ag!Replies /\ (agents[i].status = "completed" => Earned(agents[i]))
    BY <1>1 DEF AgentRec, Ag!Replies, SoundAgent
  <2> QED BY <1>3, <2>1, <2>2
<1>6. CASE Ag!Wait(r, i) /\ ~Ag!Over(i)
  <2> DEFINE q == [req[r] EXCEPT !.pc = "wait", !.on = i]
  <2>1. req[r] \in ReqRec /\ req[r].reply = "none" BY <1>6 DEF AgentsTyped, Ag!Wait, SoundRequests
  <2>2. q \in ReqRec /\ q.pc = "wait" /\ q.on = i /\ q.reply = "none" BY <1>1, <2>1 DEF ReqRec
  <2>3. req' = [req EXCEPT ![r] = q] /\ agents' = agents BY <1>6, <2>1 DEF Ag!Wait, AgentsTyped, ReqRec
  <2> HIDE DEF q
  <2> QED BY <1>0, <1>2, <2>2, <2>3, QuietRequest
<1>7. CASE Ag!Close(r, i)
  <2> DEFINE y == [Ag!CancelTask(i) EXCEPT !.status = "closed", !.listed = FALSE]
  <2>1. agents' = [agents EXCEPT ![i] = y] /\ Ag!Ends(r, i, "closed") BY <1>7 DEF Ag!Close
  <2>2. y \in AgentRec /\ Ages(agents[i], y) /\ SoundAgent(y) BY CancelTaskIs
  <2> HIDE DEF y
  <2>3. /\ agents' \in Seq(AgentRec) /\ Ag!Ids' = Ag!Ids
        /\ SoundAgents' /\ WithinLimit'
        /\ \A k \in Ag!Ids : Earned(agents[k]) => Earned(agents'[k])
    BY <2>1, <2>2, OneAgentAges
  <2>4. "closed" \in Ag!Replies BY DEF Ag!Replies, Ag!Statuses
  <2>5. PICK q \in ReqRec : /\ req' = [req EXCEPT ![r] = q]
                            /\ q.pc = "end" /\ q.on = i /\ q.reply = "closed"
    BY <1>1, <2>1, <2>4, EndsAs
  <2> QED BY <1>0, <1>2, <2>3, <2>5, RequestKeeps
<1> QED BY <1>4, <1>5, <1>6, <1>7

\* wait_agent returns: a task that was cancelled is reported as closed, another one by
\* its status.
LEMMA WaitReturnsKeeps ==
    ASSUME AgentsInv, NEW r \in Requests, Ag!WaitReturns(r) PROVE AgentsInv'
<1> USE DEF AgentsInv
<1> DEFINE i == req[r].on
<1>0. registry \in [Sessions -> Nat] /\ made \in Nat /\ agents \in Seq(AgentRec) BY DEF AgentsTyped
<1>1. req[r].pc = "wait" /\ i \in Ag!Ids BY DEF Ag!WaitReturns, SoundRequests
<1>2. i \in Nat /\ agents[i] \in AgentRec /\ SoundAgent(agents[i]) BY <1>1, FewAgents DEF SoundAgents
<1>3. registry' = registry /\ made' = made BY DEF Ag!WaitReturns
<1>4. CASE agents[i].task = "interrupted"
  <2> DEFINE y == [agents[i] EXCEPT !.status = "closed"]
  <2>1. agents' = [agents EXCEPT ![i] = y] /\ Ag!Ends(r, i, "closed")
    BY <1>0, <1>1, <1>2, <1>4, FewAgents DEF Ag!WaitReturns, AgentRec
  <2>2. /\ y \in AgentRec /\ y.status = "closed" /\ y.task = "interrupted" /\ y.orch = agents[i].orch
    BY <1>2, <1>4 DEF AgentRec, Ag!Statuses
  <2> HIDE DEF y
  <2>3. Ages(agents[i], y) /\ SoundAgent(y) BY <1>4, <2>2 DEF Ages, SoundAgent, AtWork, Earned
  <2> HIDE DEF i
  <2>4. /\ agents' \in Seq(AgentRec) /\ Ag!Ids' = Ag!Ids
        /\ SoundAgents' /\ WithinLimit'
        /\ \A k \in Ag!Ids : Earned(agents[k]) => Earned(agents'[k])
    BY <1>1, <2>1, <2>2, <2>3, OneAgentAges
  <2>5. "closed" \in Ag!Replies BY DEF Ag!Replies, Ag!Statuses
  <2>6. PICK q \in ReqRec : /\ req' = [req EXCEPT ![r] = q]
                            /\ q.pc = "end" /\ q.on = i /\ q.reply = "closed"
    BY <1>2, <2>1, <2>5, EndsAs
  <2> QED BY <1>0, <1>3, <2>4, <2>6, RequestKeeps
<1>5. CASE agents[i].task # "interrupted"
  <2>1. agents' = agents /\ Ag!Ends(r, i, agents[i].status) BY <1>5 DEF Ag!WaitReturns
  <2>2. agents[i].status \in Ag!Replies /\ (agents[i].status = "completed" => Earned(agents[i]))
    BY <1>2 DEF AgentRec, Ag!Replies, SoundAgent
  <2> HIDE DEF i
  <2>3. PICK q \in ReqRec : /\ req' = [req EXCEPT ![r] = q]
                            /\ q.pc = "end" /\ q.on = i /\ q.reply = agents[i].status
    BY <1>2, <2>1, <2>2, EndsAs
  <2> QED BY <1>0, <1>1, <1>3, <2>1, <2>2, <2>3, QuietRequest
<1> QED BY <1>4, <1>5

\* A request that is cancelled while it waits cancels the agent.
LEMMA CancelRequestKeeps ==
    ASSUME AgentsInv, NEW r \in Requests, Ag!CancelRequest(r) PROVE AgentsInv'
<1> DEFINE i == req[r].on
           y == Ag!CancelTask(i)
<1>1. i \in Ag!Ids BY DEF AgentsInv, SoundRequests, Ag!CancelRequest
<1>2. y \in AgentRec /\ Ages(agents[i], y) /\ SoundAgent(y) BY <1>1, CancelTaskIs
<1>3. Ag!Rolls(i, y) BY DEF Ag!CancelRequest, Ag!Rolls
<1> HIDE DEF i, y
<1> QED BY <1>1, <1>2, <1>3, RollsKeeps

\* The steps of the roll-out.
LEMMA RollOutKeeps ==
    ASSUME AgentsInv, NEW i \in Ag!Ids,
           Ag!Begin(i) \/ Ag!Ask(i) \/ Ag!Finish(i) \/ Ag!Fails(i) \/ Ag!Interrupted(i)
    PROVE  AgentsInv'
<1>1. agents[i] \in AgentRec /\ SoundAgent(agents[i]) BY FewAgents DEF AgentsInv, SoundAgents
<1> DEFINE May(y) == y \in AgentRec /\ Ages(agents[i], y) /\ SoundAgent(y) /\ Ag!Rolls(i, y)
<1> USE DEF AgentRec, Ages, SoundAgent, Earned, AtWork, Ag!Statuses
<1>2. CASE Ag!Begin(i)
  <2>1. May([agents[i] EXCEPT !.task = "running"]) BY <1>1, <1>2 DEF Ag!Begin
  <2> QED BY <2>1, RollsKeeps
<1>3. CASE Ag!Ask(i)
  <2>1. PICK text \in BOOLEAN : Ag!Rolls(i, [agents[i] EXCEPT !.tried = @ + 1, !.text = text])
    BY <1>3 DEF Ag!Ask
  <2> DEFINE y == [agents[i] EXCEPT !.tried = @ + 1, !.text = text]
  <2>2. /\ y \in AgentRec /\ y.orch = agents[i].orch /\ y.status = agents[i].status
        /\ y.listed = agents[i].listed /\ y.task = "running" /\ agents[i].task = "running"
    <3>1. agents[i].task = "running" BY <1>3 DEF Ag!Ask
    <3>2. agents[i].tried + 1 \in Nat BY <1>1
    <3>3. y = [agents[i] EXCEPT !.tried = agents[i].tried + 1, !.text = text] OBVIOUS
    <3> QED BY <1>1, <3>1, <3>2, <3>3
  <2>3. Ag!Rolls(i, y) BY <2>1
  <2> HIDE DEF y
  <2>4. May(y) BY <1>1, <2>2, <2>3
  <2> QED BY <2>4, RollsKeeps
<1>4. CASE Ag!Finish(i)
  <2>1. May([agents[i] EXCEPT !.task = "done", !.status = "completed", !.product = agents[i].text])
    BY <1>1, <1>4 DEF Ag!Finish
  <2> QED BY <2>1, RollsKeeps
<1>5. CASE Ag!Fails(i)
  <2>1. May([agents[i] EXCEPT !.task = "done", !.status = "failed"]) BY <1>1, <1>5 DEF Ag!Fails
  <2> QED BY <2>1, RollsKeeps
<1>6. CASE Ag!Interrupted(i)
  <2>1. CASE agents[i].task = "aborted" /\ Ag!Rolls(i, [agents[i] EXCEPT !.task = "interrupted"])
    <3>1. May([agents[i] EXCEPT !.task = "interrupted"]) BY <1>1, <2>1
    <3> QED BY <3>1, RollsKeeps
  <2>2. CASE /\ agents[i].task = "cancelled"
             /\ Ag!Rolls(i, [agents[i] EXCEPT !.task = "interrupted", !.status = "closed"])
    <3>1. May([agents[i] EXCEPT !.task = "interrupted", !.status = "closed"]) BY <1>1, <2>2
    <3> QED BY <3>1, RollsKeeps
  <2>3. CASE /\ agents[i].task = "cancelled"
             /\ Ag!Rolls(i, [agents[i] EXCEPT !.task = "done", !.status = "completed", !.product = TRUE])
    <3>1. May([agents[i] EXCEPT !.task = "done", !.status = "completed", !.product = TRUE]) BY <1>1, <2>3
    <3> QED BY <3>1, RollsKeeps
  <2> QED BY <1>6, <2>1, <2>2, <2>3 DEF Ag!Interrupted
<1> QED BY <1>2, <1>3, <1>4, <1>5, <1>6

\* No step breaks the invariant.
LEMMA AgentsNext == AgentsInv /\ [Ag!Next]_Ag!vars => AgentsInv'
<1> SUFFICES ASSUME AgentsInv, [Ag!Next]_Ag!vars PROVE AgentsInv' OBVIOUS
<1>1. CASE UNCHANGED Ag!vars
  <2>1. registry' = registry /\ made' = made /\ agents' = agents /\ req' = req BY <1>1 DEF Ag!vars
  <2>2. Ag!Ids' = Ag!Ids BY <2>1 DEF Ag!Ids
  <2>3. \A o : Workers(o)' = Workers(o) BY <2>1, <2>2 DEF Workers
  <2> QED BY <2>1, <2>2, <2>3 DEF AgentsInv, AgentsTyped, SoundAgents, SoundRequests, WithinLimit
<1>2. ASSUME NEW r \in Requests, Ag!Call(r) PROVE AgentsInv'
  BY <1>2, SpawnKeeps, CallKeeps DEF Ag!Call
<1> QED BY <1>1, <1>2, SessionSteps, WaitReturnsKeeps, CancelRequestKeeps, RollOutKeeps DEF Ag!Next

\* wait_agent tells the truth about the roll-out of an agent, whoever closed or cancelled
\* it, and an orchestrator runs no more than max_threads agents at a time.
THEOREM WaitTellsTheTruthAlways == Ag!Spec => []WaitTellsTheTruth
<1>1. Ag!Init => AgentsInv
  <2> SUFFICES ASSUME Ag!Init PROVE AgentsInv OBVIOUS
  <2>1. AgentsTyped
    BY DEF Ag!Init, AgentsTyped, ReqRec, Ag!Replies, Ag!None
  <2>2. Ag!Ids = {} BY DEF Ag!Ids, Ag!Init
  <2>3. \A o : Workers(o) = {} BY <2>2 DEF Workers
  <2>4. WithinLimit BY <2>3, FS_EmptySet DEF WithinLimit
  <2>5. SoundRequests BY DEF Ag!Init, SoundRequests
  <2> QED BY <2>1, <2>2, <2>4, <2>5 DEF AgentsInv, SoundAgents
<1>2. AgentsInv => WaitTellsTheTruth
  <2> SUFFICES ASSUME AgentsInv PROVE Ag!WaitTellsTheTruth BY DEF WaitTellsTheTruth
  <2>1. ASSUME NEW o \in 1..made
        PROVE  Cardinality({i \in Ag!Ids : agents[i].orch = o /\ agents[i].task \in {"created", "running"}})
                  <= MaxThreads
    <3>1. o \in Nat BY DEF AgentsInv, AgentsTyped
    <3>2. Cardinality(Workers(o)) <= MaxThreads BY <3>1 DEF AgentsInv, WithinLimit
    <3> QED BY <3>2 DEF Workers
  <2>2. ASSUME NEW r \in Requests, req[r].reply = "completed" PROVE Earned(agents[req[r].on])
    BY <2>2 DEF AgentsInv, SoundRequests
  <2> QED BY <2>1, <2>2, SameCount DEF Ag!WaitTellsTheTruth, Earned
<1> QED BY <1>1, <1>2, AgentsNext, PTL DEF Ag!Spec
===============================================================================
