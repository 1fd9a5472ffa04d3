---------------------------- MODULE PipelineProofs ----------------------------
(***************************************************************************)
(* ItemLifecycle and NoWhitewash of the streaming pipeline, and that it      *)
(* implements ResponseStream, for any tool calls, settings, frames, queue    *)
(* length and failing appends.                                               *)
(*                                                                           *)
(* The inductive invariant has five parts.  Queued: what the adapter knows   *)
(* of a tool call, against what waits in the queue and what the consumer has *)
(* taken.  Planned: the events a chunk still leads to fit the consumer's     *)
(* fields.  Tracked: these fields are an account of the log.  Ending: what   *)
(* the end of a stream will write closes what is open.  Told: terminal       *)
(* reason and status agree with what happened.                               *)
(***************************************************************************)
EXTENDS Pipeline, FiniteSetTheorems, SequenceTheorems, WellFoundedInduction, TLAPS

(***************************************************************************)
(* The queue                                                               *)
(***************************************************************************)
IsDone(c, t) == c.type = "tool_call_done" /\ c.tool = t

\* A fragment after which the consumer knows the call.
Announces(c, t) == c.type = "tool_call" /\ c.tool = t /\ (t \in cfg.special => c.named)

Known(t) == IF t \in cfg.special THEN t \in cons.special ELSE cons.acc[t].idx # NoIdx

Adapter ==
    /\ \A i, k \in DOMAIN up.open : up.open[i] = up.open[k] => i = k
    /\ \A i \in DOMAIN up.open :
          /\ up.open[i] \in up.begun \ up.closed
          /\ Known(up.open[i]) \/ \E k \in DOMAIN queue : Announces(queue[k], up.open[i])
    /\ \A t \in up.begun : t \in up.closed \/ \E i \in DOMAIN up.open : up.open[i] = t

\* One terminator for each call, behind the fragment that announces it.
Terminators ==
    \A i \in DOMAIN queue : \A t \in Tools : IsDone(queue[i], t) =>
        /\ t \in up.closed /\ ~cons.acc[t].final
        /\ \A k \in DOMAIN queue : IsDone(queue[k], t) => k = i
        /\ Known(t) \/ \E k \in DOMAIN queue : k < i /\ Announces(queue[k], t)

ToolChunks == \A i \in DOMAIN queue : queue[i].type \in {"tool_call", "tool_call_done"} => queue[i].tool \in Tools

Queued ==
    cons.pc = "run" => /\ Adapter /\ Terminators /\ ToolChunks
                       /\ \A t \in Tools : cons.acc[t].final => t \in up.closed

(***************************************************************************)
(* The events of a chunk                                                   *)
(***************************************************************************)
\* What may follow an event of a chunk.
Follows(o, p) ==
    \/ o.op = "reasonOpen" /\ p.op \in {"reasonEmpty", "reasonDelta"}
    \/ o.op = "reasonEmpty" /\ p.op = "reasonClose"
    \/ o.op = "reasonClose" /\ p.op = "msgOpen"
    \/ o.op = "msgOpen" /\ p.op = "msgDelta"
    \/ o.op = "toolOpen" /\ p.op = "toolDelta" /\ p.tool = o.tool
    \/ o.op = "argsDone" /\ p.op = "toolClose" /\ p.tool = o.tool
    \/ o.op = "itemOpen" /\ p.op = "itemClose"
    \/ o.op = "itemClose" /\ p.op = "itemOpen"

ToolOp == {"toolOpen", "toolDelta", "argsDone", "toolClose"}

\* The fields an event of a chunk meets.
Fits(c, o) ==
    /\ o.op \notin {"msgClose", "rawEnd", "end"}
    /\ o.op = "reasonOpen" => c.reason = NoIdx
    /\ o.op \in {"reasonEmpty", "reasonDelta", "reasonClose"} => c.reason # NoIdx
    /\ o.op = "msgOpen" => c.reason = NoIdx
    /\ o.op = "msgDelta" => c.msg # NoIdx
    /\ o.op = "toolOpen" => c.acc[o.tool].idx # NoIdx /\ ~c.acc[o.tool].added
    /\ o.op = "toolDelta" => c.acc[o.tool].added
    /\ o.op \in {"argsDone", "toolClose"} => /\ c.acc[o.tool].added /\ ~c.acc[o.tool].done
                                            /\ c.acc[o.tool].final
    /\ o.op = "itemClose" => c.out > 0

Planned ==
    LET c == cons
        n == Len(c.todo) IN
    c.pc = "run" =>
        /\ \A i \in 1..n : c.todo[i].op \in ToolOp => c.todo[i].tool \in Tools
        /\ \A i \in 1..n : i < n => Follows(c.todo[i], c.todo[i + 1])
        /\ n > 0 => Fits(c, c.todo[1]) /\ c.todo[n].op \in {"created", "msgDelta", "reasonDelta", "toolDelta",
                                                            "toolClose", "itemClose", "rawOpen", "rawClose"}
        /\ \A i \in 1..n : c.todo[i].op = "msgOpen" => c.msg = NoIdx
        /\ \A t \in Tools :
              /\ c.acc[t].idx # NoIdx /\ ~c.acc[t].added => n > 0 /\ c.todo[1].op = "toolOpen" /\ c.todo[1].tool = t
              /\ c.acc[t].argsDone /\ ~c.acc[t].done => n > 0 /\ c.todo[n].op = "toolClose" /\ c.todo[n].tool = t
              /\ c.acc[t].done => c.acc[t].final

(***************************************************************************)
(* The log                                                                 *)
(***************************************************************************)
ItemEvents == {"added", "delta", "args_done", "done"}

\* In log l, item x of kind k was added and is not done.
Open(l, k, x) ==
    /\ \E i \in DOMAIN l : l[i].ev = "added" /\ l[i].kind = k /\ l[i].idx = x
    /\ \A i \in DOMAIN l : l[i].ev = "done" => l[i].idx # x

Done(i) == \E k \in DOMAIN log : k > i /\ log[k].ev = "done" /\ Same(k, i)

Numbered ==
    /\ \A i \in DOMAIN log : log[i].ev \in ItemEvents => log[i].idx \in 0..(cons.out - 1)
    /\ \A i, k \in DOMAIN log : log[i].ev \in ItemEvents /\ log[k].ev \in ItemEvents /\ Same(i, k)
                                => log[i].kind = log[k].kind

Calls ==
    /\ \A t, u \in Tools : cons.acc[t].idx = cons.acc[u].idx /\ cons.acc[t].idx # NoIdx => t = u
    /\ \A t \in Tools : LET a == cons.acc[t] IN
          /\ a.idx # NoIdx => a.idx \in 0..(cons.out - 1)
          /\ a.added => /\ a.idx # NoIdx
                        /\ \E i \in DOMAIN log : log[i].ev = "added" /\ log[i].kind = "function_call" /\ log[i].idx = a.idx
          /\ a.done => a.added
          /\ a.added /\ ~a.done => Open(log, "function_call", a.idx)
          /\ a.idx # NoIdx /\ ~a.added => \A i \in DOMAIN log : log[i].ev \in ItemEvents => log[i].idx # a.idx

Items ==
    /\ cons.reason # NoIdx => Open(log, "reasoning", cons.reason)
    /\ cons.msg # NoIdx => Open(log, "message", cons.msg)
    /\ \A i, k \in DOMAIN cons.raw : cons.raw[i] = cons.raw[k] => i = k
    /\ \A i \in DOMAIN cons.raw : Open(log, "raw", cons.raw[i])
    /\ cons.pc = "run" /\ cons.todo # <<>> /\ cons.todo[1].op = "itemClose" => Open(log, "special", cons.out - 1)

\* Whatever the log has open is in one of the fields.
Listed ==
    \A i \in DOMAIN log : log[i].ev = "added" /\ ~Done(i) =>
        \/ log[i].kind = "reasoning" /\ log[i].idx = cons.reason
        \/ log[i].kind = "message" /\ log[i].idx = cons.msg
        \/ log[i].kind = "function_call" /\ \E t \in Tools : cons.acc[t].added /\ ~cons.acc[t].done /\ cons.acc[t].idx = log[i].idx
        \/ log[i].kind = "raw" /\ \E k \in DOMAIN cons.raw : cons.raw[k] = log[i].idx
        \/ /\ log[i].kind = "special" /\ log[i].idx = cons.out - 1
           /\ cons.pc \in {"run", "gone"} /\ cons.todo # <<>> /\ cons.todo[1].op = "itemClose"

Tracked == Numbered /\ Calls /\ Items /\ Listed /\ AddedFirst /\ EachOnce /\ ReasoningFirst

(***************************************************************************)
(* The end                                                                 *)
(***************************************************************************)
Closers == {"reasonClose", "msgClose", "toolClose", "rawEnd"}

\* Among the events q is one of operation op for tool call, or index, t.
Has(q, op, t) == \E i \in DOMAIN q : q[i].op = op /\ q[i].tool = t

Distinct(q) == \A i, k \in DOMAIN q : q[i].op = q[k].op /\ q[i].tool = q[k].tool => i = k

OpenTools(c) == {t \in Tools : c.acc[t].added /\ ~c.acc[t].done}

\* What the end will close is what is open.
Covers(c) ==
    /\ Distinct(c.todo)
    /\ \A t \in Int :
          /\ Has(c.todo, "reasonClose", t) <=> c.reason # NoIdx /\ t = NoIdx
          /\ Has(c.todo, "msgClose", t) <=> c.msg # NoIdx /\ t = NoIdx
          /\ Has(c.todo, "toolClose", t) <=> t \in OpenTools(c)
          /\ Has(c.todo, "rawEnd", t) <=> \E k \in DOMAIN c.raw : c.raw[k] = t

\* The status s can be that of this stream, after k failing appends, in this mode.
Fair(c, s, k, strict) ==
    /\ s \in {"completed", "incomplete", "failed"}
    /\ c.invalid => s # "completed"
    /\ k > 0 => s = "failed"
    /\ c.why = "none" => s = "completed"
    /\ strict /\ c.why # "none" => s # "completed"

\* The events of the end: one for each open item, and the terminal event.
EndPlan(c, k, strict) ==
    LET n == Len(c.todo) IN
    /\ n > 0 /\ Fair(c, c.todo[n].st, k, strict)
    /\ \A i \in 1..n : IF i = n THEN c.todo[i].op = "end" ELSE c.todo[i].op \in Closers
    /\ \A i \in 1..n : c.todo[i].op = "toolClose" => c.todo[i].tool \in Tools

Ending ==
    LET c == cons IN
    /\ c.pc = "closing" => EndPlan(c, faults, cfg.strict) /\ \A i \in c.frames : ~HasContent(log[i])
    /\ c.pc \in {"ended", "raised", "gone"} => c.todo = <<>>
    /\ c.todo = <<>> => c.frames = {}
    /\ c.pc = "ended" => log # <<>> /\ Fair(c, log[Len(log)].ev, faults, cfg.strict)
    /\ c.pc = "run" => faults = 0
    /\ c.pc \in {"closing", "ended"} /\ faults = 0 => Covers(c)

\* What is known before the first chunk, and of the ways a stream is stopped.
Told ==
    /\ \A t \in Tools : cons.acc[t].final /\ ~cons.acc[t].argsDone => cons.invalid
    /\ ~produced => /\ \A i \in DOMAIN queue : queue[i].type \in Stops
                    /\ \A i \in DOMAIN log : log[i].ev # "added"
                    /\ \A i \in DOMAIN cons.todo : cons.todo[i].op \in {"created", "end"}
                    /\ cons.reason = NoIdx /\ cons.msg = NoIdx /\ cons.raw = <<>>
                    /\ \A t \in Tools : ~cons.acc[t].added
    /\ \A i \in DOMAIN queue : /\ queue[i].type = "first_token" => ~produced
                               /\ queue[i].type = "client_cancel" => watch = "off"
    /\ cons.pc = "run" => cons.why = "none"
    /\ cons.why \in {"first_token", "connect"} => ~produced
    /\ cons.pc \in {"closing", "ended"} /\ cons.why = "none" => cons.finish \/ watch = "off"

Inv == TypeOK /\ Queued /\ Planned /\ Ending /\ Told /\ (faults = 0 => Tracked)

(***************************************************************************)
(* Sequences                                                               *)
(***************************************************************************)
\* _raw_open.remove and _open_tools.remove, on a list without duplicates.
LEMMA RemoveFirstOnce ==
    ASSUME NEW S, NEW s \in Seq(S), NEW r, NEW t, t = RemoveFirst(s, r),
           \A i, k \in DOMAIN s : s[i] = s[k] => i = k
    PROVE  /\ t \in Seq(S)
           /\ \A i \in DOMAIN t : t[i] # r /\ \E k \in DOMAIN s : t[i] = s[k]
           /\ \A k \in DOMAIN s : s[k] # r => \E i \in DOMAIN t : t[i] = s[k]
           /\ \A i, k \in DOMAIN t : t[i] = t[k] => i = k
<1>1. CASE ~ \E i \in 1..Len(s) : s[i] = r
  <2>1. t = s
    BY <1>1 DEF RemoveFirst
  <2> QED BY <2>1, <1>1
<1>2. CASE \E i \in 1..Len(s) : s[i] = r
  <2>1. PICK j \in 1..Len(s) : s[j] = r
    BY <1>2
  <2> DEFINE I == {i \in 1..Len(s) : s[i] = r}
  <2>2. I = {j}
    BY <2>1
  <2>3. Min(I) = j
    BY <2>2 DEF Min
  <2>4. t = RemoveAt(s, j)
    BY <1>2, <2>2, <2>3 DEF RemoveFirst, SelectInSeq
  <2> DEFINE a == SubSeq(s, 1, j - 1)
             b == SubSeq(s, j + 1, Len(s))
  <2>5. t = a \o b
    BY <2>4 DEF RemoveAt
  <2>6. Len(s) \in Nat /\ j \in 1..Len(s)
    OBVIOUS
  <2>7. /\ a \in Seq(S) /\ Len(a) = j - 1
        /\ \A i \in 1..(j - 1) : a[i] = s[i]
    BY <2>6
  <2>8. /\ b \in Seq(S) /\ Len(b) = Len(s) - j
        /\ \A i \in 1..(Len(s) - j) : b[i] = s[i + j]
    BY <2>6
  <2> HIDE DEF a, b
  <2>9. /\ t \in Seq(S) /\ Len(t) = Len(a) + Len(b)
        /\ \A i \in 1..Len(t) : t[i] = IF i <= Len(a) THEN a[i] ELSE b[i - Len(a)]
    <3>1. a \in Seq(S) /\ b \in Seq(S)
      BY <2>7, <2>8
    <3>2. /\ a \o b \in Seq(S) /\ Len(a \o b) = Len(a) + Len(b)
          /\ \A i \in 1..(Len(a) + Len(b)) : (a \o b)[i] = IF i <= Len(a) THEN a[i] ELSE b[i - Len(a)]
      BY <3>1, ConcatProperties, Zenon
    <3> QED BY <2>5, <3>2, Zenon
  <2>10. Len(t) = Len(s) - 1 /\ \A i \in 1..Len(t) : t[i] = IF i < j THEN s[i] ELSE s[i + 1]
    <3>1. ASSUME NEW i \in 1..Len(t) PROVE t[i] = IF i < j THEN s[i] ELSE s[i + 1]
      <4>1. CASE i < j
        BY <2>9, <2>6, <2>7, <4>1
      <4>2. CASE i >= j
        <5>1. i - (j - 1) \in 1..(Len(s) - j) /\ (i - (j - 1)) + j = i + 1
          BY <2>9, <2>6, <2>7, <2>8, <4>2
        <5>2. t[i] = b[i - (j - 1)]
          BY <2>9, <2>6, <2>7, <4>2
        <5> QED BY <5>1, <5>2, <2>8, <2>6, <4>2
      <4> QED BY <4>1, <4>2, <2>6, <2>7, <2>8, <2>9
    <3> QED BY <2>9, <3>1, <2>6, <2>7, <2>8
  <2>11. \A i \in 1..Len(t) : t[i] # r /\ \E k \in DOMAIN s : t[i] = s[k]
    BY <2>1, <2>6, <2>10
  <2>12. \A i, k \in 1..Len(t) : t[i] = t[k] => i = k
    BY <2>6, <2>10, SMTT(30)
  <2>13. ASSUME NEW k \in DOMAIN s, s[k] # r PROVE \E i \in DOMAIN t : t[i] = s[k]
    <3>1. k \in 1..Len(s) /\ k # j
      BY <2>1, <2>13
    <3>2. DOMAIN t = 1..Len(t)
      BY <2>9
    <3>3. CASE k < j
      <4>1. k \in 1..Len(t) /\ t[k] = s[k]
        BY <2>6, <2>10, <3>1, <3>3
      <4> QED BY <4>1, <3>2
    <3>4. CASE k > j
      <4>1. (k - 1) \in 1..Len(t) /\ t[k - 1] = s[k]
        BY <2>6, <2>10, <3>1, <3>4
      <4> QED BY <4>1, <3>2
    <3> QED BY <3>1, <3>3, <3>4, <2>6
  <2> QED BY <2>9, <2>11, <2>12, <2>13
<1> QED BY <1>1, <1>2

\* Concatenation, by the places of its elements.
LEMMA Concat ==
    ASSUME NEW S, NEW a \in Seq(S), NEW b \in Seq(S)
    PROVE  /\ a \o b \in Seq(S) /\ Len(a \o b) = Len(a) + Len(b)
           /\ DOMAIN (a \o b) = 1..(Len(a) + Len(b))
           /\ \A i \in DOMAIN a : (a \o b)[i] = a[i]
           /\ \A k \in DOMAIN b : (Len(a) + k) \in DOMAIN (a \o b) /\ (a \o b)[Len(a) + k] = b[k]
           /\ \A i \in DOMAIN (a \o b) :
                 \/ i \in DOMAIN a /\ (a \o b)[i] = a[i]
                 \/ i \notin DOMAIN a /\ \E k \in DOMAIN b : i = Len(a) + k /\ (a \o b)[i] = b[k]
<1> DEFINE c == a \o b
<1>1. /\ c \in Seq(S) /\ Len(c) = Len(a) + Len(b)
      /\ \A i \in 1..Len(c) : c[i] = IF i <= Len(a) THEN a[i] ELSE b[i - Len(a)]
  BY ConcatProperties, Zenon
<1>2. /\ Len(a) \in Nat /\ DOMAIN a = 1..Len(a) /\ Len(b) \in Nat /\ DOMAIN b = 1..Len(b)
  OBVIOUS
<1> HIDE DEF c
<1>3. DOMAIN c = 1..Len(c)
  BY <1>1
<1>4. \A i \in DOMAIN a : c[i] = a[i]
  BY <1>1, <1>2
<1>5. \A k \in DOMAIN b : (Len(a) + k) \in DOMAIN c /\ c[Len(a) + k] = b[k]
  BY <1>1, <1>2, <1>3
<1>6. ASSUME NEW i \in DOMAIN c
      PROVE  \/ i \in DOMAIN a /\ c[i] = a[i]
             \/ i \notin DOMAIN a /\ \E k \in DOMAIN b : i = Len(a) + k /\ c[i] = b[k]
  <2>1. CASE i <= Len(a)
    BY <1>1, <1>2, <1>3, <2>1
  <2>2. CASE i > Len(a)
    <3>1. (i - Len(a)) \in DOMAIN b /\ i = Len(a) + (i - Len(a)) /\ c[i] = b[i - Len(a)]
      BY <1>1, <1>2, <1>3, <2>2
    <3> QED BY <3>1, <1>2, <2>2
  <2> QED BY <2>1, <2>2, <1>1, <1>2, <1>3
<1> QED BY <1>1, <1>3, <1>4, <1>5, <1>6 DEF c

\* The incomplete calls, each once.
LEMMA SetToSeqIsOnce ==
    ASSUME NEW T, IsFiniteSet(T)
    PROVE  /\ SetToSeq(T) \in Seq(T)
           /\ \A t \in T : \E i \in DOMAIN SetToSeq(T) : SetToSeq(T)[i] = t
           /\ \A i, k \in DOMAIN SetToSeq(T) : SetToSeq(T)[i] = SetToSeq(T)[k] => i = k
<1>1. Cardinality(T) \in Nat /\ ExistsBijection(1..Cardinality(T), T)
  BY FS_CardinalityType
<1>2. PICK g : g \in Bijection(1..Cardinality(T), T)
  BY <1>1 DEF ExistsBijection
<1> DEFINE n == Cardinality(T)
           f == SetToSeq(T)
<1>3. f \in [1..n -> T] /\ IsInjective(f)
  <2>1. g \in [1..n -> T] /\ IsInjective(g)
    BY <1>2 DEF Bijection, Injection, IsInjective
  <2> QED BY <2>1 DEF SetToSeq
<1> HIDE DEF f
<1>4. f \in Injection(1..n, T)
  BY <1>3 DEF Injection, IsInjective
<1>5. f \in Seq(T) /\ DOMAIN f = 1..n
  BY <1>1, <1>3
<1>6. f \in Surjection(1..n, T)
  <2>1. IsFiniteSet(1..n) /\ Cardinality(1..n) = n
    BY <1>1, FS_Interval
  <2> QED BY <1>4, <2>1, FS_Injection, Zenon
<1>7. \A t \in T : \E i \in 1..n : f[i] = t
  BY <1>6 DEF Surjection
<1>8. \A i, k \in DOMAIN f : f[i] = f[k] => i = k
  BY <1>3 DEF IsInjective
<1> QED BY <1>5, <1>7, <1>8 DEF f

\* The events of a concatenation.
LEMMA ConcatHas ==
    ASSUME NEW a \in Seq(Op), NEW b \in Seq(Op)
    PROVE  /\ a \o b \in Seq(Op)
           /\ \A op, t : Has(a \o b, op, t) <=> Has(a, op, t) \/ Has(b, op, t)
           /\ Distinct(a) /\ Distinct(b) /\ (\A op, t : ~(Has(a, op, t) /\ Has(b, op, t))) => Distinct(a \o b)
<1> DEFINE c == a \o b
<1>1. /\ c \in Seq(Op) /\ Len(c) = Len(a) + Len(b)
      /\ \A i \in DOMAIN a : c[i] = a[i]
      /\ \A k \in DOMAIN b : (Len(a) + k) \in DOMAIN c /\ c[Len(a) + k] = b[k]
      /\ \A i \in DOMAIN c : \/ i \in DOMAIN a /\ c[i] = a[i]
                             \/ i \notin DOMAIN a /\ \E k \in DOMAIN b : i = Len(a) + k /\ c[i] = b[k]
  BY Concat
<1> HIDE DEF c
<1>2. \A i \in DOMAIN a : i \in DOMAIN c
  BY <1>1
<1>3. ASSUME NEW op, NEW t PROVE Has(c, op, t) <=> Has(a, op, t) \/ Has(b, op, t)
  BY <1>1, <1>2, ZenonT(30) DEF Has
<1>4. ASSUME Distinct(a), Distinct(b), \A op, t : ~(Has(a, op, t) /\ Has(b, op, t)) PROVE Distinct(c)
  <2> SUFFICES ASSUME NEW i \in DOMAIN c, NEW k \in DOMAIN c, c[i].op = c[k].op, c[i].tool = c[k].tool
               PROVE  i = k
    BY DEF Distinct
  <2>0. \A x \in DOMAIN a, y \in DOMAIN b : ~(a[x].op = b[y].op /\ a[x].tool = b[y].tool)
    BY <1>4, Zenon DEF Has
  <2>1. CASE i \in DOMAIN a /\ k \in DOMAIN a
    BY <1>1, <1>4, <2>1, Zenon DEF Distinct
  <2>2. CASE i \in DOMAIN a /\ k \notin DOMAIN a
    BY <1>1, <2>0, <2>2, ZenonT(30)
  <2>3. CASE i \notin DOMAIN a /\ k \in DOMAIN a
    <3>1. PICK y \in DOMAIN b : c[i] = b[y]
      BY <1>1, <2>3, Zenon
    <3>2. a[k].op = b[y].op /\ a[k].tool = b[y].tool
      BY <1>1, <2>3, <3>1
    <3> QED BY <2>0, <2>3, <3>2, Zenon
  <2>4. CASE i \notin DOMAIN a /\ k \notin DOMAIN a
    <3>1. PICK x \in DOMAIN b : i = Len(a) + x /\ c[i] = b[x]
      BY <1>1, <2>4, Zenon
    <3>2. PICK y \in DOMAIN b : k = Len(a) + y /\ c[k] = b[y]
      BY <1>1, <2>4, Zenon
    <3>3. b[x].op = b[y].op /\ b[x].tool = b[y].tool
      BY <3>1, <3>2
    <3>4. x = y
      BY <1>4, <3>3, Zenon DEF Distinct
    <3> QED BY <3>1, <3>2, <3>4
  <2> QED BY <2>1, <2>2, <2>3, <2>4
<1> QED BY <1>1, <1>3, <1>4 DEF c

\* The rest of a list of events.
LEMMA TailHas ==
    ASSUME NEW q \in Seq(Op), q # <<>>
    PROVE  /\ Tail(q) \in Seq(Op) /\ Len(Tail(q)) = Len(q) - 1 /\ Len(q) \in Nat \ {0}
           /\ Head(q) = q[1] /\ q[1] \in Op
           /\ \A i \in 1..(Len(q) - 1) : Tail(q)[i] = q[i + 1]
           /\ Tail(q) = <<>> <=> Len(q) = 1
           /\ Distinct(q) => /\ Distinct(Tail(q))
                             /\ \A op, t : Has(Tail(q), op, t) <=> Has(q, op, t) /\ ~(q[1].op = op /\ q[1].tool = t)
<1> DEFINE r == Tail(q)
<1>1. /\ r \in Seq(Op) /\ Len(r) = Len(q) - 1 /\ Len(q) \in Nat \ {0}
      /\ Head(q) = q[1] /\ q[1] \in Op
      /\ \A i \in 1..(Len(q) - 1) : r[i] = q[i + 1]
  OBVIOUS
<1> HIDE DEF r
<1>0. r = <<>> <=> Len(q) = 1
  <2>1. ASSUME Len(q) = 1 PROVE r = <<>>
    BY <1>1, <2>1, EmptySeq
  <2>2. ASSUME r = <<>> PROVE Len(q) = 1
    <3>1. Len(r) = 0
      BY <2>2
    <3> QED BY <1>1, <3>1
  <2> QED BY <2>1, <2>2
<1>2. DOMAIN r = 1..(Len(q) - 1) /\ DOMAIN q = 1..Len(q)
  BY <1>1
<1>3. ASSUME Distinct(q) PROVE Distinct(r)
  <2> SUFFICES ASSUME NEW i \in DOMAIN r, NEW k \in DOMAIN r, r[i].op = r[k].op, r[i].tool = r[k].tool
               PROVE  i = k
    BY DEF Distinct
  <2>1. (i + 1) \in DOMAIN q /\ (k + 1) \in DOMAIN q /\ r[i] = q[i + 1] /\ r[k] = q[k + 1]
    BY <1>1, <1>2
  <2>2. i + 1 = k + 1
    BY <1>3, <2>1, Zenon DEF Distinct
  <2> QED BY <1>2, <1>1, <2>2
<1>4. ASSUME Distinct(q), NEW op, NEW t
      PROVE  Has(r, op, t) <=> Has(q, op, t) /\ ~(q[1].op = op /\ q[1].tool = t)
  <2>1. ASSUME Has(r, op, t) PROVE Has(q, op, t) /\ ~(q[1].op = op /\ q[1].tool = t)
    <3>1. PICK i \in 1..(Len(q) - 1) : r[i].op = op /\ r[i].tool = t
      BY <1>2, <2>1 DEF Has
    <3>2. (i + 1) \in DOMAIN q /\ 1 \in DOMAIN q /\ i + 1 # 1 /\ q[i + 1].op = op /\ q[i + 1].tool = t
      BY <1>1, <1>2, <3>1
    <3> QED BY <1>4, <3>2, Zenon DEF Has, Distinct
  <2>2. ASSUME Has(q, op, t), ~(q[1].op = op /\ q[1].tool = t) PROVE Has(r, op, t)
    <3>1. PICK i \in DOMAIN q : q[i].op = op /\ q[i].tool = t
      BY <2>2 DEF Has
    <3>2. i # 1
      BY <3>1, <2>2
    <3>3. (i - 1) \in DOMAIN r /\ r[i - 1] = q[i]
      BY <1>1, <1>2, <3>2
    <3> QED BY <3>1, <3>3 DEF Has
  <2> QED BY <2>1, <2>2
<1> QED BY <1>0, <1>1, <1>3, <1>4 DEF r

\* No event, and one event.
LEMMA FewHas ==
    /\ <<>> \in Seq(Op) /\ Distinct(<<>>) /\ \A op, t : ~Has(<<>>, op, t)
    /\ \A o \in Op : /\ <<o>> \in Seq(Op) /\ Distinct(<<o>>)
                     /\ \A op, t : Has(<<o>>, op, t) <=> o.op = op /\ o.tool = t
<1>1. <<>> \in Seq(Op) /\ DOMAIN <<>> = {}
  OBVIOUS
<1>2. Distinct(<<>>) /\ \A op, t : ~Has(<<>>, op, t)
  BY <1>1, Zenon DEF Has, Distinct
<1>3. ASSUME NEW o \in Op
      PROVE  /\ <<o>> \in Seq(Op) /\ Distinct(<<o>>)
             /\ \A op, t : Has(<<o>>, op, t) <=> o.op = op /\ o.tool = t
  <2> DEFINE q == <<o>>
  <2>1. q \in Seq(Op) /\ DOMAIN q = {1} /\ q[1] = o
    OBVIOUS
  <2> HIDE DEF q
  <2>2. Distinct(q) /\ \A op, t : Has(q, op, t) <=> o.op = op /\ o.tool = t
    BY <2>1, Zenon DEF Has, Distinct
  <2> QED BY <2>1, <2>2 DEF q
<1> QED BY <1>1, <1>2, <1>3

\* The calls ToolCallCollection.incomplete returns.
Unfinished(c) == {t \in OpenTools(c) : c.acc[t].stray \/ ~c.acc[t].argsDone}

\* One closing event for each of the elements of a list.
LEMMA EachHas ==
    ASSUME NEW x \in Seq(Int), NEW op, NEW q, DOMAIN q = DOMAIN x,
           \A i \in DOMAIN x : q[i].op = op /\ q[i].tool = x[i]
    PROVE  /\ \A p, t : Has(q, p, t) <=> p = op /\ \E i \in DOMAIN x : x[i] = t
           /\ (\A i, k \in DOMAIN x : x[i] = x[k] => i = k) => Distinct(q)
<1>1. ASSUME NEW p, NEW t PROVE Has(q, p, t) <=> p = op /\ \E i \in DOMAIN x : x[i] = t
  <2>1. ASSUME Has(q, p, t) PROVE p = op /\ \E i \in DOMAIN x : x[i] = t
    BY <2>1 DEF Has
  <2>2. ASSUME p = op, NEW i \in DOMAIN x, x[i] = t PROVE Has(q, p, t)
    BY <2>2 DEF Has
  <2> QED BY <2>1, <2>2
<1>2. ASSUME \A i, k \in DOMAIN x : x[i] = x[k] => i = k PROVE Distinct(q)
  BY <1>2 DEF Distinct
<1> QED BY <1>1, <1>2

\* _close_open_items: what it closes, and that it closes it once.
LEMMA ClosePlan ==
    ASSUME NEW c \in State, NEW s \in {"completed", "incomplete"}, NEW q, q = CloseOpenItems(c, s)
    PROVE  /\ q \in Seq(Op)
           /\ \A i \in DOMAIN q : q[i].op \in Closers
           /\ \A op, t : Has(q, op, t) <=>
                 \/ op = "reasonClose" /\ c.reason # NoIdx /\ t = NoIdx
                 \/ op = "msgClose" /\ c.msg # NoIdx /\ t = NoIdx
                 \/ op = "toolClose" /\ t \in Unfinished(c)
                 \/ op = "rawEnd" /\ \E k \in DOMAIN c.raw : c.raw[k] = t
           /\ (\A i, k \in DOMAIN c.raw : c.raw[i] = c.raw[k] => i = k) => Distinct(q)
<1> DEFINE o1 == DoTool("reasonClose", NoIdx, s)
           o2 == DoTool("msgClose", NoIdx, s)
           p1 == IF c.reason # NoIdx THEN <<o1>> ELSE <<>>
           p2 == IF c.msg # NoIdx THEN <<o2>> ELSE <<>>
           calls == OpenCalls(c)
           p3 == [i \in DOMAIN calls |-> DoTool("toolClose", calls[i], s)]
           p4 == [i \in DOMAIN c.raw |-> DoTool("rawEnd", c.raw[i], "incomplete")]
<1>0. q = ((p1 \o p2) \o p3) \o p4
  BY DEF CloseOpenItems
<1>1. /\ p1 \in Seq(Op) /\ Distinct(p1)
      /\ \A op, t : Has(p1, op, t) <=> op = "reasonClose" /\ c.reason # NoIdx /\ t = NoIdx
  <2>1. o1 \in Op /\ o1.op = "reasonClose" /\ o1.tool = NoIdx
    BY DEF DoTool, Op, Ops, NoIdx
  <2> HIDE DEF o1
  <2> QED BY <2>1, FewHas, Zenon
<1>2. /\ p2 \in Seq(Op) /\ Distinct(p2)
      /\ \A op, t : Has(p2, op, t) <=> op = "msgClose" /\ c.msg # NoIdx /\ t = NoIdx
  <2>1. o2 \in Op /\ o2.op = "msgClose" /\ o2.tool = NoIdx
    BY DEF DoTool, Op, Ops, NoIdx
  <2> HIDE DEF o2
  <2> QED BY <2>1, FewHas, Zenon
<1>3. /\ p3 \in Seq(Op) /\ Distinct(p3)
      /\ \A op, t : Has(p3, op, t) <=> op = "toolClose" /\ t \in Unfinished(c)
  <2>1. calls = SetToSeq(Unfinished(c))
    <3>1. Unfinished(c) = {t \in Tools : /\ c.acc[t].added /\ ~c.acc[t].done
                                         /\ c.acc[t].stray \/ ~c.acc[t].argsDone}
      BY DEF Unfinished, OpenTools
    <3> QED BY <3>1 DEF OpenCalls
  <2>2. IsFiniteSet(Unfinished(c)) /\ Unfinished(c) \subseteq Int
    <3>1. Unfinished(c) \in SUBSET Tools
      BY DEF Unfinished, OpenTools
    <3>2. IsFiniteSet(Unfinished(c))
      BY <3>1, PipelineAssumption, FS_Subset
    <3>3. Tools \subseteq Int
      BY PipelineAssumption
    <3> QED BY <3>1, <3>2, <3>3
  <2>3. /\ calls \in Seq(Unfinished(c))
        /\ \A t \in Unfinished(c) : \E i \in DOMAIN calls : calls[i] = t
        /\ \A i, k \in DOMAIN calls : calls[i] = calls[k] => i = k
    BY <2>1, <2>2, SetToSeqIsOnce
  <2> HIDE DEF calls
  <2>4. calls \in Seq(Int) /\ \A i \in DOMAIN calls : calls[i] \in Unfinished(c)
    BY <2>2, <2>3
  <2>5. "toolClose" \in Ops
    BY DEF Ops
  <2>6. p3 \in Seq(Op) /\ DOMAIN p3 = DOMAIN calls /\ \A i \in DOMAIN calls : p3[i].op = "toolClose" /\ p3[i].tool = calls[i]
    <3>1. \A i \in DOMAIN calls : DoTool("toolClose", calls[i], s) \in Op
      BY <2>4, <2>5 DEF DoTool, Op
    <3>2. Len(calls) \in Nat /\ DOMAIN calls = 1..Len(calls)
      BY <2>4, <2>5
    <3>3. p3 \in [1..Len(calls) -> Op]
      BY <3>1, <3>2
    <3>4. \A i \in DOMAIN calls : p3[i].op = "toolClose" /\ p3[i].tool = calls[i]
      BY DEF DoTool
    <3> HIDE DEF p3
    <3> QED BY <3>2, <3>3, <3>4
  <2> HIDE DEF p3
  <2>7. /\ \A op, t : Has(p3, op, t) <=> op = "toolClose" /\ \E k \in DOMAIN calls : calls[k] = t
        /\ (\A i, k \in DOMAIN calls : calls[i] = calls[k] => i = k) => Distinct(p3)
    <3>1. ASSUME NEW op, NEW t PROVE Has(p3, op, t) <=> op = "toolClose" /\ \E k \in DOMAIN calls : calls[k] = t
      BY <2>6 DEF Has
    <3>2. ASSUME \A i, k \in DOMAIN calls : calls[i] = calls[k] => i = k PROVE Distinct(p3)
      BY <2>6, <3>2 DEF Distinct
    <3> QED BY <3>1, <3>2
  <2>8. \A t : (\E i \in DOMAIN calls : calls[i] = t) <=> t \in Unfinished(c)
    BY <2>3, <2>4
  <2> QED BY <2>3, <2>6, <2>7, <2>8, Zenon
<1>4. /\ p4 \in Seq(Op)
      /\ \A op, t : Has(p4, op, t) <=> op = "rawEnd" /\ \E k \in DOMAIN c.raw : c.raw[k] = t
      /\ (\A i, k \in DOMAIN c.raw : c.raw[i] = c.raw[k] => i = k) => Distinct(p4)
  <2>1. c.raw \in Seq(Int) /\ "rawEnd" \in Ops
    BY DEF State, Ops
  <2>2. /\ p4 \in Seq(Op) /\ DOMAIN p4 = DOMAIN c.raw
        /\ \A i \in DOMAIN c.raw : p4[i].op = "rawEnd" /\ p4[i].tool = c.raw[i]
    <3>1. \A i \in DOMAIN c.raw : DoTool("rawEnd", c.raw[i], "incomplete") \in Op
      BY <2>1 DEF DoTool, Op
    <3>2. Len(c.raw) \in Nat /\ DOMAIN c.raw = 1..Len(c.raw)
      BY <2>1
    <3>3. p4 \in [1..Len(c.raw) -> Op]
      BY <3>1, <3>2
    <3>4. \A i \in DOMAIN c.raw : p4[i].op = "rawEnd" /\ p4[i].tool = c.raw[i]
      BY DEF DoTool
    <3> HIDE DEF p4
    <3> QED BY <3>2, <3>3, <3>4
  <2> HIDE DEF p4
  <2> QED BY <2>1, <2>2, EachHas, Zenon
<1> HIDE DEF o1, o2, p1, p2, calls, p3, p4
<1> DEFINE r == p1 \o p2
<1>5. /\ r \in Seq(Op)
      /\ \A op, t : Has(r, op, t) <=> Has(p1, op, t) \/ Has(p2, op, t)
      /\ Distinct(r)
  <2>1. \A op, t : ~(Has(p1, op, t) /\ Has(p2, op, t))
    BY <1>1, <1>2
  <2> QED BY <1>1, <1>2, <2>1, ConcatHas, Zenon
<1> HIDE DEF r
<1> DEFINE u == r \o p3
<1>6. /\ u \in Seq(Op)
      /\ \A op, t : Has(u, op, t) <=> Has(r, op, t) \/ Has(p3, op, t)
      /\ Distinct(u)
  <2>1. \A op, t : ~(Has(r, op, t) /\ Has(p3, op, t))
    BY <1>1, <1>2, <1>3, <1>5
  <2> QED BY <1>3, <1>5, <2>1, ConcatHas, Zenon
<1> HIDE DEF u
<1>7. /\ q \in Seq(Op)
      /\ \A op, t : Has(q, op, t) <=> Has(u, op, t) \/ Has(p4, op, t)
      /\ Distinct(p4) => Distinct(q)
  <2>1. \A op, t : ~(Has(u, op, t) /\ Has(p4, op, t))
    BY <1>1, <1>2, <1>3, <1>4, <1>5, <1>6, ZenonT(50)
  <2>2. q = u \o p4
    BY <1>0 DEF u, r
  <2>3. /\ u \o p4 \in Seq(Op)
        /\ \A op, t : Has(u \o p4, op, t) <=> Has(u, op, t) \/ Has(p4, op, t)
        /\ Distinct(u) /\ Distinct(p4) => Distinct(u \o p4)
    BY <1>4, <1>6, <2>1, ConcatHas, Zenon
  <2> QED BY <1>6, <2>2, <2>3, Zenon
<1>8. \A op, t : Has(q, op, t) <=>
                 \/ op = "reasonClose" /\ c.reason # NoIdx /\ t = NoIdx
                 \/ op = "msgClose" /\ c.msg # NoIdx /\ t = NoIdx
                 \/ op = "toolClose" /\ t \in Unfinished(c)
                 \/ op = "rawEnd" /\ \E k \in DOMAIN c.raw : c.raw[k] = t
  BY <1>1, <1>2, <1>3, <1>4, <1>5, <1>6, <1>7, Zenon
<1>9. \A i \in DOMAIN q : q[i].op \in Closers
  <2> TAKE i \in DOMAIN q
  <2>1. Has(q, q[i].op, q[i].tool)
    BY DEF Has
  <2> QED BY <2>1, <1>8 DEF Closers
<1> QED BY <1>4, <1>7, <1>8, <1>9

(***************************************************************************)
(* What one event does to the consumer's fields                            *)
(***************************************************************************)
\* Fields no event touches.
Kept(c, d) ==
    /\ d.special = c.special /\ d.finish = c.finish /\ d.invalid = c.invalid /\ d.why = c.why
    /\ \A t \in Tools : /\ d.acc[t].idx = c.acc[t].idx /\ d.acc[t].valid = c.acc[t].valid
                        /\ d.acc[t].argsDone = c.acc[t].argsDone /\ d.acc[t].final = c.acc[t].final
                        /\ d.acc[t].stray = c.acc[t].stray

NewIndex == {"reasonOpen", "msgOpen", "rawOpen", "rawClose", "itemOpen"}

\* d is c after the event o.
Step(c, o, d) ==
    /\ Kept(c, d)
    /\ d.out = IF o.op \in NewIndex THEN c.out + 1 ELSE c.out
    /\ d.reason = IF o.op = "reasonOpen" THEN c.out ELSE IF o.op = "reasonClose" THEN NoIdx ELSE c.reason
    /\ d.msg = IF o.op = "msgOpen" THEN c.out ELSE IF o.op = "msgClose" THEN NoIdx ELSE c.msg
    /\ d.raw = IF o.op = "rawOpen" THEN Append(c.raw, c.out)
               ELSE IF o.op = "rawEnd" THEN RemoveFirst(c.raw, o.tool) ELSE c.raw
    /\ \A t \in Tools : /\ d.acc[t].added <=> c.acc[t].added \/ (o.op = "toolOpen" /\ o.tool = t)
                        /\ d.acc[t].done <=> c.acc[t].done \/ (o.op = "toolClose" /\ o.tool = t)

\* The fields set before the append.
LEMMA BeforeStep ==
    ASSUME NEW c \in State, NEW o \in Op, NEW b, b = Before(c, o)
    PROVE  /\ b \in State
           /\ b.pc = c.pc /\ b.todo = c.todo /\ b.frames = c.frames /\ b.special = c.special
           /\ b.finish = c.finish /\ b.invalid = c.invalid /\ b.why = c.why /\ b.acc = c.acc
           /\ b.raw = c.raw
           /\ b.out = IF o.op \in NewIndex THEN c.out + 1 ELSE c.out
           /\ b.reason = IF o.op = "reasonOpen" THEN c.out ELSE c.reason
           /\ b.msg = IF o.op = "msgOpen" THEN c.out ELSE c.msg
<1>1. CASE o.op = "reasonOpen"
  <2>1. b = [c EXCEPT !.reason = c.out, !.out = @ + 1]
    BY <1>1 DEF Before
  <2>2. c.out \in Nat /\ c.out \in Int /\ c.out + 1 \in Nat
    BY DEF State
  <2>3. b \in State
    BY <2>1, <2>2 DEF State
  <2>4. b.out = c.out + 1 /\ b.reason = c.out
    BY <2>1 DEF State
  <2>5. o.op \in NewIndex
    BY <1>1 DEF NewIndex
  <2> QED BY <1>1, <2>1, <2>3, <2>4, <2>5 DEF State
<1>2. CASE o.op = "msgOpen"
  <2>1. b = [c EXCEPT !.msg = c.out, !.out = @ + 1]
    BY <1>2 DEF Before
  <2>2. c.out \in Nat /\ c.out \in Int /\ c.out + 1 \in Nat
    BY DEF State
  <2>3. b \in State
    BY <2>1, <2>2 DEF State
  <2>4. b.out = c.out + 1 /\ b.msg = c.out
    BY <2>1 DEF State
  <2>5. o.op \in NewIndex
    BY <1>2 DEF NewIndex
  <2> QED BY <1>2, <2>1, <2>3, <2>4, <2>5 DEF State
<1>3. CASE o.op \in {"rawOpen", "rawClose", "itemOpen"}
  <2>1. b = [c EXCEPT !.out = @ + 1]
    BY <1>3 DEF Before
  <2>2. o.op \in NewIndex /\ o.op # "reasonOpen" /\ o.op # "msgOpen"
    BY <1>3 DEF NewIndex
  <2>3. c.out + 1 \in Nat
    BY DEF State
  <2>4. b \in State
    BY <2>1, <2>3 DEF State
  <2> QED BY <2>1, <2>2, <2>4 DEF State
<1>4. CASE o.op \notin NewIndex
  <2>1. b = c
    BY <1>4 DEF Before, NewIndex
  <2>2. o.op # "reasonOpen" /\ o.op # "msgOpen"
    BY <1>4 DEF NewIndex
  <2> QED BY <1>4, <2>1, <2>2
<1> QED BY <1>1, <1>2, <1>3, <1>4 DEF NewIndex

\* The fields set after it.
LEMMA AfterStep ==
    ASSUME NEW c \in State, NEW o \in Op, NEW d, d = After(c, o),
           o.op \in ToolOp => o.tool \in Tools,
           o.op = "rawOpen" => c.out > 0,
           o.op = "rawEnd" => RemoveFirst(c.raw, o.tool) \in Seq(Int)
    PROVE  /\ d \in State /\ Kept(c, d) /\ d.out = c.out
           /\ d.pc = c.pc /\ d.todo = c.todo /\ d.frames = c.frames
           /\ d.reason = IF o.op = "reasonClose" THEN NoIdx ELSE c.reason
           /\ d.msg = IF o.op = "msgClose" THEN NoIdx ELSE c.msg
           /\ d.raw = IF o.op = "rawOpen" THEN Append(c.raw, c.out - 1)
                      ELSE IF o.op = "rawEnd" THEN RemoveFirst(c.raw, o.tool) ELSE c.raw
           /\ \A t \in Tools : /\ d.acc[t].added <=> c.acc[t].added \/ (o.op = "toolOpen" /\ o.tool = t)
                               /\ d.acc[t].done <=> c.acc[t].done \/ (o.op = "toolClose" /\ o.tool = t)
<1> DEFINE special == {"reasonDelta", "reasonClose", "msgClose", "toolOpen", "toolClose", "rawOpen", "rawEnd"}
<1>1. CASE o.op = "reasonDelta"
  <2>1. d = [c EXCEPT !.reasoned = TRUE]
    BY <1>1 DEF After
  <2> QED BY <1>1, <2>1 DEF State, Kept
<1>2. CASE o.op = "reasonClose"
  <2>1. d = [c EXCEPT !.reason = NoIdx]
    BY <1>2 DEF After
  <2>2. NoIdx \in Int
    BY DEF NoIdx
  <2>3. d \in State /\ Kept(c, d)
    BY <2>1, <2>2 DEF State, Kept
  <2> QED BY <1>2, <2>1, <2>3 DEF State
<1>3. CASE o.op = "msgClose"
  <2>1. d = [c EXCEPT !.msg = NoIdx]
    BY <1>3 DEF After
  <2>2. NoIdx \in Int
    BY DEF NoIdx
  <2>3. d \in State /\ Kept(c, d)
    BY <2>1, <2>2 DEF State, Kept
  <2> QED BY <1>3, <2>1, <2>3 DEF State
<1>4. CASE o.op = "toolOpen"
  <2>1. d = [c EXCEPT !.acc[o.tool].added = TRUE]
    BY <1>4 DEF After
  <2>2. o.tool \in Tools
    BY <1>4 DEF ToolOp
  <2>3. c.acc \in [Tools -> Accumulator] /\ d.acc = [c.acc EXCEPT ![o.tool] = [@ EXCEPT !.added = TRUE]]
    BY <2>1 DEF State
  <2>4. d.acc \in [Tools -> Accumulator]
    <3>1. [c.acc[o.tool] EXCEPT !.added = TRUE] \in Accumulator
      <4>1. PICK x \in Accumulator : x = c.acc[o.tool]
        BY <2>2, <2>3
      <4> QED BY <4>1 DEF Accumulator
    <3> QED BY <2>2, <2>3, <3>1
  <2>5. d = [c EXCEPT !.acc = d.acc]
    BY <2>1, <2>3 DEF State
  <2>6. d \in State
    BY <2>4, <2>5 DEF State
  <2>7. \A t \in Tools : /\ d.acc[t].idx = c.acc[t].idx /\ d.acc[t].valid = c.acc[t].valid
                         /\ d.acc[t].argsDone = c.acc[t].argsDone /\ d.acc[t].final = c.acc[t].final
                         /\ d.acc[t].stray = c.acc[t].stray
                         /\ d.acc[t].added <=> c.acc[t].added \/ (o.op = "toolOpen" /\ o.tool = t)
                         /\ d.acc[t].done <=> c.acc[t].done \/ (o.op = "toolClose" /\ o.tool = t)
    BY <1>4, <2>2, <2>3 DEF Accumulator
  <2>8. /\ Kept(c, d) /\ d.out = c.out /\ d.reason = c.reason /\ d.msg = c.msg /\ d.raw = c.raw
        /\ d.pc = c.pc /\ d.todo = c.todo /\ d.frames = c.frames
    BY <2>5, <2>7 DEF State, Kept
  <2> QED BY <1>4, <2>6, <2>7, <2>8
<1>5. CASE o.op = "toolClose"
  <2>1. d = [c EXCEPT !.acc[o.tool].done = TRUE]
    BY <1>5 DEF After
  <2>2. o.tool \in Tools
    BY <1>5 DEF ToolOp
  <2>3. c.acc \in [Tools -> Accumulator] /\ d.acc = [c.acc EXCEPT ![o.tool] = [@ EXCEPT !.done = TRUE]]
    BY <2>1 DEF State
  <2>4. d.acc \in [Tools -> Accumulator]
    <3>1. [c.acc[o.tool] EXCEPT !.done = TRUE] \in Accumulator
      <4>1. PICK x \in Accumulator : x = c.acc[o.tool]
        BY <2>2, <2>3
      <4> QED BY <4>1 DEF Accumulator
    <3> QED BY <2>2, <2>3, <3>1
  <2>5. d = [c EXCEPT !.acc = d.acc]
    BY <2>1, <2>3 DEF State
  <2>6. d \in State
    BY <2>4, <2>5 DEF State
  <2>7. \A t \in Tools : /\ d.acc[t].idx = c.acc[t].idx /\ d.acc[t].valid = c.acc[t].valid
                         /\ d.acc[t].argsDone = c.acc[t].argsDone /\ d.acc[t].final = c.acc[t].final
                         /\ d.acc[t].stray = c.acc[t].stray
                         /\ d.acc[t].added <=> c.acc[t].added \/ (o.op = "toolOpen" /\ o.tool = t)
                         /\ d.acc[t].done <=> c.acc[t].done \/ (o.op = "toolClose" /\ o.tool = t)
    BY <1>5, <2>2, <2>3 DEF Accumulator
  <2>8. /\ Kept(c, d) /\ d.out = c.out /\ d.reason = c.reason /\ d.msg = c.msg /\ d.raw = c.raw
        /\ d.pc = c.pc /\ d.todo = c.todo /\ d.frames = c.frames
    BY <2>5, <2>7 DEF State, Kept
  <2> QED BY <1>5, <2>6, <2>7, <2>8
<1>6. CASE o.op = "rawOpen"
  <2>1. d = [c EXCEPT !.raw = Append(@, c.out - 1)]
    BY <1>6 DEF After
  <2>2. Append(c.raw, c.out - 1) \in Seq(Int)
    BY <1>6 DEF State
  <2> QED BY <1>6, <2>1, <2>2 DEF State, Kept
<1>7. CASE o.op = "rawEnd"
  <2>1. d = [c EXCEPT !.raw = RemoveFirst(@, o.tool)]
    BY <1>7 DEF After
  <2> QED BY <1>7, <2>1 DEF State, Kept
<1>8. CASE o.op \notin special
  <2>1. d = c
    BY <1>8 DEF After
  <2> QED BY <1>8, <2>1 DEF State, Kept
<1> QED BY <1>1, <1>2, <1>3, <1>4, <1>5, <1>6, <1>7, <1>8

Adders == {"reasonOpen", "msgOpen", "toolOpen", "rawOpen", "itemOpen"}
Deltas == {"reasonDelta", "reasonEmpty", "msgDelta", "toolDelta"}
Doners == {"reasonClose", "msgClose", "toolClose", "rawClose", "rawEnd", "itemClose"}
ReasonOp == {"reasonOpen", "reasonDelta", "reasonEmpty", "reasonClose"}
MsgOp == {"msgOpen", "msgDelta", "msgClose"}
RawOp == {"rawOpen", "rawClose", "rawEnd"}
ItemOp == {"itemOpen", "itemClose"}

\* The frame of event o, written when the consumer's fields are c and d = After(Before(c, o), o).
Writes(c, o, f) ==
    /\ f \in Frame
    /\ o.op \in Adders => f.ev = "added"
    /\ o.op \in Deltas => f.ev = "delta"
    /\ o.op = "argsDone" => f.ev = "args_done"
    /\ o.op \in Doners => f.ev = "done"
    /\ o.op = "created" => f.ev = "created"
    /\ o.op = "end" => f.ev = o.st
    /\ o.op \in ReasonOp => f.kind = "reasoning" /\ f.idx = IF o.op = "reasonOpen" THEN c.out ELSE c.reason
    /\ o.op \in MsgOp => f.kind = "message" /\ f.idx = IF o.op = "msgOpen" THEN c.out ELSE c.msg
    /\ o.op \in ToolOp => f.kind = "function_call" /\ f.idx = c.acc[o.tool].idx
    /\ o.op \in RawOp => f.kind = "raw" /\ f.idx = IF o.op = "rawEnd" THEN o.tool ELSE c.out
    /\ o.op \in ItemOp => f.kind = "special" /\ f.idx = IF o.op = "itemOpen" THEN c.out ELSE c.out - 1

\* The names of the events.
LEMMA EventIs ==
    ASSUME NEW o \in Op
    PROVE  /\ o.op \in Adders => Event(o) = "added"
           /\ o.op \in Deltas => Event(o) = "delta"
           /\ o.op = "argsDone" => Event(o) = "args_done"
           /\ o.op \in Doners => Event(o) = "done"
           /\ o.op = "created" => Event(o) = "created"
           /\ o.op = "end" => Event(o) = o.st
<1>1. ASSUME o.op \in Adders PROVE Event(o) = "added"
  BY <1>1 DEF Event, Adders
<1>2. ASSUME o.op \in Deltas PROVE Event(o) = "delta"
  BY <1>2 DEF Event, Deltas
<1>3. ASSUME o.op = "argsDone" PROVE Event(o) = "args_done"
  BY <1>3 DEF Event
<1>4. ASSUME o.op \in Doners PROVE Event(o) = "done"
  BY <1>4 DEF Event, Doners
<1>5. ASSUME o.op = "created" PROVE Event(o) = "created"
  BY <1>5 DEF Event
<1>6. ASSUME o.op = "end" PROVE Event(o) = o.st
  BY <1>6 DEF Event
<1> QED BY <1>1, <1>2, <1>3, <1>4, <1>5, <1>6

\* The kinds of items.
LEMMA KindIs ==
    ASSUME NEW o \in Op
    PROVE  /\ o.op \in ReasonOp => Kind(o) = "reasoning"
           /\ o.op \in MsgOp => Kind(o) = "message"
           /\ o.op \in ToolOp => Kind(o) = "function_call"
           /\ o.op \in RawOp => Kind(o) = "raw"
           /\ o.op \in ItemOp => Kind(o) = "special"
           /\ o.op \in {"created", "end"} => Kind(o) = "response"
<1>1. ASSUME o.op \in ReasonOp PROVE Kind(o) = "reasoning"
  BY <1>1 DEF Kind, ReasonOp
<1>2. ASSUME o.op \in MsgOp PROVE Kind(o) = "message"
  BY <1>2 DEF Kind, MsgOp
<1>3. ASSUME o.op \in ToolOp PROVE Kind(o) = "function_call"
  BY <1>3 DEF Kind, ToolOp
<1>4. ASSUME o.op \in RawOp PROVE Kind(o) = "raw"
  BY <1>4 DEF Kind, RawOp
<1>5. ASSUME o.op \in ItemOp PROVE Kind(o) = "special"
  BY <1>5 DEF Kind, ItemOp
<1>6. ASSUME o.op \in {"created", "end"} PROVE Kind(o) = "response"
  BY <1>6 DEF Kind
<1> QED BY <1>1, <1>2, <1>3, <1>4, <1>5, <1>6

\* The frame that is appended.
LEMMA FrameIs ==
    ASSUME NEW c \in State, NEW o \in Op, o.op \in ToolOp => o.tool \in Tools,
           o.op = "end" => o.st # "none", NEW f, f = FrameOf(Before(c, o), o)
    PROVE  Writes(c, o, f)
<1> DEFINE b == Before(c, o)
<1>1. /\ b \in State /\ b.acc = c.acc /\ c.out \in Nat
      /\ b.out = IF o.op \in NewIndex THEN c.out + 1 ELSE c.out
      /\ b.reason = IF o.op = "reasonOpen" THEN c.out ELSE c.reason
      /\ b.msg = IF o.op = "msgOpen" THEN c.out ELSE c.msg
  <2>1. c.out \in Nat
    BY DEF State
  <2> QED BY <2>1, BeforeStep
<1> HIDE DEF b
<1> DEFINE st == IF Event(o) # "done" THEN "none" ELSE IF o.st = "none" THEN "completed" ELSE o.st
<1>2. f = [ev |-> Event(o), idx |-> Index(b, o), kind |-> Kind(o), st |-> st]
  BY DEF FrameOf, b
<1>3. st \in {"none", "completed", "incomplete", "failed"}
  BY DEF Op
<1> HIDE DEF st
<1>4. f.ev = Event(o) /\ f.idx = Index(b, o) /\ f.kind = Kind(o)
  BY <1>2
<1>5. o.op \in ReasonOp \cup MsgOp \cup ToolOp \cup RawOp \cup ItemOp \cup {"created", "end"}
  BY DEF Op, Ops, ReasonOp, MsgOp, ToolOp, RawOp, ItemOp
<1>6. /\ o.op \in ReasonOp => Index(b, o) = b.reason
      /\ o.op \in MsgOp => Index(b, o) = b.msg
      /\ o.op \in ToolOp => Index(b, o) = c.acc[o.tool].idx
      /\ o.op = "rawEnd" => Index(b, o) = o.tool
      /\ o.op \in {"rawOpen", "rawClose", "itemOpen", "itemClose"} => Index(b, o) = b.out - 1
      /\ o.op \in {"created", "end"} => Index(b, o) = NoIdx
  <2>1. ASSUME o.op \in ReasonOp PROVE Index(b, o) = b.reason
    <3>1. Kind(o) = "reasoning" /\ o.op # "rawEnd"
      BY <2>1, KindIs DEF ReasonOp
    <3> QED BY <3>1 DEF Index
  <2>2. ASSUME o.op \in MsgOp PROVE Index(b, o) = b.msg
    <3>1. Kind(o) = "message" /\ o.op # "rawEnd"
      BY <2>2, KindIs DEF MsgOp
    <3> QED BY <3>1 DEF Index
  <2>3. ASSUME o.op \in ToolOp PROVE Index(b, o) = c.acc[o.tool].idx
    <3>1. Kind(o) = "function_call" /\ o.op # "rawEnd"
      BY <2>3, KindIs DEF ToolOp
    <3> QED BY <3>1, <1>1 DEF Index
  <2>4. ASSUME o.op = "rawEnd" PROVE Index(b, o) = o.tool
    <3>1. Kind(o) = "raw"
      BY <2>4, KindIs DEF RawOp
    <3> QED BY <2>4, <3>1 DEF Index
  <2>5. ASSUME o.op \in {"rawOpen", "rawClose", "itemOpen", "itemClose"} PROVE Index(b, o) = b.out - 1
    <3>1. Kind(o) \in {"raw", "special"} /\ o.op # "rawEnd"
      BY <2>5, KindIs DEF RawOp, ItemOp
    <3> QED BY <3>1 DEF Index
  <2>6. ASSUME o.op \in {"created", "end"} PROVE Index(b, o) = NoIdx
    <3>1. Kind(o) = "response" /\ o.op # "rawEnd"
      BY <2>6, KindIs
    <3> QED BY <3>1 DEF Index
  <2> QED BY <2>1, <2>2, <2>3, <2>4, <2>5, <2>6
<1>7. Event(o) \in {"created", "added", "delta", "args_done", "done", "completed", "incomplete", "failed"}
  <2>1. o.op \in Adders \cup Deltas \cup Doners \cup {"created", "end", "argsDone"}
    BY DEF Op, Ops, Adders, Deltas, Doners
  <2>2. o.op = "end" => o.st \in {"completed", "incomplete", "failed"}
    BY DEF Op
  <2> QED BY <2>1, <2>2, EventIs
<1>8. Kind(o) \in {"response", "message", "reasoning", "function_call", "raw", "special"}
  BY <1>5, KindIs
<1>9. Index(b, o) \in Int
  <2>1. b.reason \in Int /\ b.msg \in Int /\ b.out \in Nat /\ o.tool \in Int /\ NoIdx \in Int
    BY <1>1 DEF State, Op, NoIdx
  <2>2. o.op \in ToolOp => c.acc[o.tool].idx \in Int
    BY DEF State, Accumulator
  <2>3. o.op \in RawOp => o.op = "rawEnd" \/ o.op \in {"rawOpen", "rawClose", "itemOpen", "itemClose"}
    BY DEF RawOp
  <2>4. o.op \in ItemOp => o.op \in {"rawOpen", "rawClose", "itemOpen", "itemClose"}
    BY DEF ItemOp
  <2> QED BY <1>5, <1>6, <2>1, <2>2, <2>3, <2>4
<1>10. f \in Frame
  BY <1>2, <1>3, <1>7, <1>8, <1>9 DEF Frame
<1>11. o.op \in RawOp => f.idx = IF o.op = "rawEnd" THEN o.tool ELSE c.out
  <2>1. o.op \in {"rawOpen", "rawClose"} => b.out - 1 = c.out
    BY <1>1 DEF NewIndex
  <2> QED BY <1>4, <1>6, <2>1 DEF RawOp
<1>12. o.op \in ItemOp => f.idx = IF o.op = "itemOpen" THEN c.out ELSE c.out - 1
  <2>1. o.op = "itemOpen" => b.out - 1 = c.out
    BY <1>1 DEF NewIndex
  <2>2. o.op = "itemClose" => b.out = c.out
    BY <1>1 DEF NewIndex
  <2> QED BY <1>4, <1>6, <2>1, <2>2 DEF ItemOp
<1>13. /\ o.op \in ReasonOp => f.idx = IF o.op = "reasonOpen" THEN c.out ELSE c.reason
       /\ o.op \in MsgOp => f.idx = IF o.op = "msgOpen" THEN c.out ELSE c.msg
       /\ o.op \in ToolOp => f.idx = c.acc[o.tool].idx
  BY <1>1, <1>4, <1>6
<1> QED BY <1>4, <1>10, <1>11, <1>12, <1>13, EventIs, KindIs DEF Writes

(***************************************************************************)
(* What one event does to the log                                          *)
(***************************************************************************)
\* The frame f is appended.
Appended(f) ==
    /\ f \in Frame /\ Len(log) \in Nat
    /\ \A i \in DOMAIN log : i \in DOMAIN log' /\ log'[i] = log[i] /\ i \in Nat /\ i < Len(log) + 1 /\ log[i] \in Frame
    /\ (Len(log) + 1) \in DOMAIN log' /\ log'[Len(log) + 1] = f
    /\ \A i \in DOMAIN log' : i \in DOMAIN log \/ i = Len(log) + 1

\* The event o fits the fields, and the log: an item's number is new, or that of
\* a call that is not in the log yet, or that of an item of its kind; what is done
\* is open.
Meets(o, f) ==
    /\ o.op = "reasonOpen" => cons.reason = NoIdx
    /\ o.op = "msgOpen" => cons.reason = NoIdx /\ cons.msg = NoIdx
    /\ o.op \in ToolOp => o.tool \in Tools /\ cons.acc[o.tool].idx # NoIdx
    /\ o.op = "toolOpen" => ~cons.acc[o.tool].added
    /\ o.op = "toolClose" => cons.acc[o.tool].added /\ ~cons.acc[o.tool].done
    /\ f.ev \in ItemEvents /\ o.op \notin NewIndex /\ o.op # "toolOpen" =>
          \E i \in DOMAIN log : log[i].ev = "added" /\ log[i].kind = f.kind /\ log[i].idx = f.idx
    /\ f.ev = "done" /\ o.op # "rawClose" => Open(log, f.kind, f.idx)

\* Everything a step of the log is known to be.
LogStep(o, f) ==
    /\ cons \in State /\ o \in Op /\ (o.op = "end" => o.st # "none")
    /\ Step(cons, o, cons') /\ Writes(cons, o, f) /\ Appended(f) /\ Meets(o, f)

\* Append.
LEMMA AppendIs ==
    ASSUME log \in Seq(Frame), NEW f \in Frame, log' = Append(log, f)
    PROVE  Appended(f) /\ log' \in Seq(Frame) /\ Len(log') = Len(log) + 1
<1>1. /\ log' \in Seq(Frame) /\ Len(log') = Len(log) + 1 /\ Len(log) \in Nat
      /\ DOMAIN log = 1..Len(log) /\ DOMAIN log' = 1..(Len(log) + 1)
      /\ \A i \in 1..Len(log) : log'[i] = log[i] /\ log[i] \in Frame
      /\ log'[Len(log) + 1] = f
  OBVIOUS
<1> QED BY <1>1 DEF Appended

\* The event and the kind of the frame, from the operation, and back.
LEMMA FrameSort ==
    ASSUME NEW o, NEW f, LogStep(o, f)
    PROVE  /\ f.ev = "added" <=> o.op \in Adders
           /\ f.ev = "done" <=> o.op \in Doners
           /\ f.ev \in ItemEvents <=> o.op \in Adders \cup Doners \cup Deltas \cup {"argsDone"}
           /\ f.ev \in ItemEvents /\ f.kind = "reasoning" => o.op \in ReasonOp
           /\ f.ev \in ItemEvents /\ f.kind = "message" => o.op \in MsgOp
           /\ f.ev \in ItemEvents /\ f.kind = "function_call" => o.op \in ToolOp
           /\ f.ev \in ItemEvents /\ f.kind = "raw" => o.op \in RawOp
           /\ f.ev \in ItemEvents /\ f.kind = "special" => o.op \in ItemOp
<1>1. /\ o.op \in Adders \cup Deltas \cup Doners \cup {"created", "end", "argsDone"}
      /\ o.op = "end" => o.st \in {"completed", "incomplete", "failed"}
  BY DEF LogStep, Op, Ops, Adders, Deltas, Doners
<1>2. /\ f.ev = "added" <=> o.op \in Adders
      /\ f.ev = "done" <=> o.op \in Doners
      /\ f.ev \in ItemEvents <=> o.op \in Adders \cup Doners \cup Deltas \cup {"argsDone"}
  <2>1. /\ o.op \in Adders => f.ev = "added"
        /\ o.op \in Deltas => f.ev = "delta"
        /\ o.op = "argsDone" => f.ev = "args_done"
        /\ o.op \in Doners => f.ev = "done"
        /\ o.op = "created" => f.ev = "created"
        /\ o.op = "end" => f.ev \in {"completed", "incomplete", "failed"}
    BY <1>1 DEF LogStep, Writes
  <2>2. /\ o.op \in Adders => o.op \notin Deltas \cup Doners \cup {"created", "end", "argsDone"}
        /\ o.op \in Doners => o.op \notin Deltas \cup Adders \cup {"created", "end", "argsDone"}
        /\ o.op \in Deltas => o.op \notin {"created", "end", "argsDone"}
    BY DEF Adders, Deltas, Doners
  <2> QED BY <1>1, <2>1, <2>2 DEF ItemEvents
<1>3. o.op \in Adders \cup Doners \cup Deltas \cup {"argsDone"}
         => o.op \in ReasonOp \cup MsgOp \cup ToolOp \cup RawOp \cup ItemOp
  BY DEF Adders, Deltas, Doners, ReasonOp, MsgOp, ToolOp, RawOp, ItemOp
<1>4. /\ o.op \in ReasonOp => f.kind = "reasoning"
      /\ o.op \in MsgOp => f.kind = "message"
      /\ o.op \in ToolOp => f.kind = "function_call"
      /\ o.op \in RawOp => f.kind = "raw"
      /\ o.op \in ItemOp => f.kind = "special"
  BY DEF LogStep, Writes
<1> QED BY <1>2, <1>3, <1>4

\* The number of the frame: fresh, or a call's, or known.
LEMMA FrameIndex ==
    ASSUME NEW o, NEW f, LogStep(o, f)
    PROVE  /\ cons.out \in Nat /\ cons'.out \in Nat /\ cons'.out >= cons.out
           /\ o.op \in NewIndex => f.idx = cons.out /\ cons'.out = cons.out + 1
           /\ o.op \in ToolOp => f.idx = cons.acc[o.tool].idx
           /\ o.op \in ReasonOp /\ o.op # "reasonOpen" => f.idx = cons.reason
           /\ o.op \in MsgOp /\ o.op # "msgOpen" => f.idx = cons.msg
           /\ o.op = "rawEnd" => f.idx = o.tool
           /\ o.op = "itemClose" => f.idx = cons.out - 1
           /\ f.idx \in Int
<1>1. cons.out \in Nat
  BY DEF LogStep, State
<1>2. cons'.out = IF o.op \in NewIndex THEN cons.out + 1 ELSE cons.out
  BY DEF LogStep, Step
<1>3. o.op \in NewIndex => f.idx = cons.out
  BY DEF LogStep, Writes, NewIndex, ReasonOp, MsgOp, RawOp, ItemOp
<1>4. f.idx \in Int
  BY DEF LogStep, Writes, Frame
<1>5. /\ o.op \in ToolOp => f.idx = cons.acc[o.tool].idx
      /\ o.op \in ReasonOp /\ o.op # "reasonOpen" => f.idx = cons.reason
      /\ o.op \in MsgOp /\ o.op # "msgOpen" => f.idx = cons.msg
      /\ o.op = "rawEnd" => f.idx = o.tool
      /\ o.op = "itemClose" => f.idx = cons.out - 1
  BY DEF LogStep, Writes, RawOp, ItemOp
<1> QED BY <1>1, <1>2, <1>3, <1>4, <1>5

\* A fresh number, and the number of a call that is not added, are in no event.
LEMMA FreshIsNew ==
    ASSUME NEW o, NEW f, LogStep(o, f), Tracked, o.op \in NewIndex \/ o.op = "toolOpen",
           NEW i \in DOMAIN log, log[i].ev \in ItemEvents
    PROVE  log[i].idx # f.idx
<1>1. CASE o.op \in NewIndex
  BY <1>1, FrameIndex DEF Tracked, Numbered
<1>2. CASE o.op = "toolOpen"
  <2>1. o.op \in ToolOp
    BY <1>2 DEF ToolOp
  <2>2. o.tool \in Tools /\ cons.acc[o.tool].idx # NoIdx /\ ~cons.acc[o.tool].added
    BY <1>2, <2>1 DEF LogStep, Meets
  <2>3. f.idx = cons.acc[o.tool].idx
    BY <2>1, FrameIndex
  <2> QED BY <2>2, <2>3 DEF Tracked, Calls
<1> QED BY <1>1, <1>2

\* Every event of an item has a number that was given out, and one kind.
LEMMA NumberedStep ==
    ASSUME NEW o, NEW f, LogStep(o, f), Tracked
    PROVE  Numbered'
<1>1. /\ Appended(f) /\ f.idx \in Int
      /\ cons.out \in Nat /\ cons'.out \in Nat /\ cons'.out >= cons.out
      /\ o.op \in NewIndex => f.idx = cons.out /\ cons'.out = cons.out + 1
  BY FrameIndex DEF LogStep
<1>2. ASSUME f.ev \in ItemEvents PROVE f.idx \in 0..(cons'.out - 1)
  <2>1. CASE o.op \in NewIndex
    BY <1>1, <2>1
  <2>2. CASE o.op = "toolOpen"
    <3>1. f.idx \in 0..(cons.out - 1)
      <4>1. o.op \in ToolOp
        BY <2>2 DEF ToolOp
      <4>2. f.idx = cons.acc[o.tool].idx /\ o.tool \in Tools /\ cons.acc[o.tool].idx # NoIdx
        BY <4>1, FrameIndex DEF LogStep, Meets
      <4> QED BY <4>2 DEF Tracked, Calls
    <3> QED BY <1>1, <3>1
  <2>3. CASE o.op \notin NewIndex /\ o.op # "toolOpen"
    <3>1. PICK i \in DOMAIN log : log[i].ev = "added" /\ log[i].idx = f.idx
      BY <1>2, <2>3 DEF LogStep, Meets
    <3>2. f.idx \in 0..(cons.out - 1)
      BY <3>1 DEF Tracked, Numbered, ItemEvents
    <3> QED BY <1>1, <3>2
  <2> QED BY <2>1, <2>2, <2>3
<1>3. ASSUME f.ev \in ItemEvents, NEW k \in DOMAIN log, log[k].ev \in ItemEvents, log[k].idx = f.idx
      PROVE  log[k].kind = f.kind
  <2>1. o.op \notin NewIndex /\ o.op # "toolOpen"
    BY <1>3, FreshIsNew
  <2>2. PICK i \in DOMAIN log : log[i].ev = "added" /\ log[i].idx = f.idx /\ log[i].kind = f.kind
    BY <1>3, <2>1 DEF LogStep, Meets
  <2> QED BY <1>3, <2>2 DEF Tracked, Numbered, ItemEvents, Same
<1>4. ASSUME NEW i \in DOMAIN log', log'[i].ev \in ItemEvents PROVE log'[i].idx \in 0..(cons'.out - 1)
  <2>1. CASE i \in DOMAIN log
    <3>1. log[i].idx \in 0..(cons.out - 1)
      BY <1>1, <1>4, <2>1 DEF Appended, Tracked, Numbered
    <3> QED BY <1>1, <2>1, <3>1 DEF Appended
  <2>2. CASE i = Len(log) + 1
    BY <1>1, <1>2, <1>4, <2>2 DEF Appended
  <2> QED BY <1>1, <2>1, <2>2 DEF Appended
<1>5. ASSUME NEW i \in DOMAIN log', NEW k \in DOMAIN log', log'[i].ev \in ItemEvents, log'[k].ev \in ItemEvents,
             log'[i].idx = log'[k].idx
      PROVE  log'[i].kind = log'[k].kind
  <2>1. CASE i \in DOMAIN log /\ k \in DOMAIN log
    BY <1>1, <1>5, <2>1 DEF Appended, Tracked, Numbered, Same
  <2>2. CASE i \in DOMAIN log /\ k = Len(log) + 1
    BY <1>1, <1>3, <1>5, <2>2 DEF Appended
  <2>3. CASE i = Len(log) + 1 /\ k \in DOMAIN log
    BY <1>1, <1>3, <1>5, <2>3 DEF Appended
  <2>4. CASE i = Len(log) + 1 /\ k = Len(log) + 1
    BY <2>4
  <2> QED BY <1>1, <2>1, <2>2, <2>3, <2>4 DEF Appended
<1> QED BY <1>4, <1>5 DEF Numbered, Same

\* An item that is open stays open, unless it is done now.
LEMMA OpenStays ==
    ASSUME NEW f, Appended(f), NEW k, NEW x, Open(log, k, x), ~(f.ev = "done" /\ f.idx = x)
    PROVE  Open(log', k, x)
<1>1. PICK i \in DOMAIN log : log[i].ev = "added" /\ log[i].kind = k /\ log[i].idx = x
  BY DEF Open
<1>2. i \in DOMAIN log' /\ log'[i] = log[i]
  BY DEF Appended
<1>3. ASSUME NEW j \in DOMAIN log', log'[j].ev = "done" PROVE log'[j].idx # x
  <2>1. CASE j \in DOMAIN log
    BY <1>3, <2>1 DEF Appended, Open
  <2>2. CASE j = Len(log) + 1
    BY <1>3, <2>2 DEF Appended
  <2> QED BY <2>1, <2>2 DEF Appended
<1> QED BY <1>1, <1>2, <1>3 DEF Open

\* An item that is added is open.
LEMMA OpenStarts ==
    ASSUME NEW o, NEW f, LogStep(o, f), Tracked, f.ev = "added"
    PROVE  Open(log', f.kind, f.idx)
<1>1. o.op \in NewIndex \/ o.op = "toolOpen"
  BY FrameSort DEF Adders, NewIndex
<1>2. \A i \in DOMAIN log : log[i].ev = "done" => log[i].idx # f.idx
  BY <1>1, FreshIsNew DEF ItemEvents
<1>3. ASSUME NEW j \in DOMAIN log', log'[j].ev = "done" PROVE log'[j].idx # f.idx
  <2>1. CASE j \in DOMAIN log
    BY <1>2, <1>3, <2>1 DEF Appended, LogStep
  <2>2. CASE j = Len(log) + 1
    BY <1>3, <2>2 DEF Appended, LogStep
  <2> QED BY <2>1, <2>2 DEF Appended, LogStep
<1>4. (Len(log) + 1) \in DOMAIN log' /\ log'[Len(log) + 1] = f
  BY DEF LogStep, Appended
<1> QED BY <1>3, <1>4 DEF Open

\* An event that ends item x of kind k has this kind.
LEMMA DoneHasKind ==
    ASSUME NEW o, NEW f, LogStep(o, f), Tracked, f.ev = "done",
           NEW i \in DOMAIN log, log[i].ev = "added", log[i].idx = f.idx
    PROVE  f.kind = log[i].kind /\ o.op # "rawClose"
<1>1. o.op \notin NewIndex
  BY FreshIsNew DEF ItemEvents
<1>2. o.op # "rawClose"
  BY <1>1 DEF NewIndex
<1>3. Open(log, f.kind, f.idx)
  BY <1>2 DEF LogStep, Meets
<1>4. PICK k \in DOMAIN log : log[k].ev = "added" /\ log[k].kind = f.kind /\ log[k].idx = f.idx
  BY <1>3 DEF Open
<1> QED BY <1>2, <1>4 DEF Tracked, Numbered, ItemEvents, Same

\* AddedFirst and EachOnce.
LEMMA RulesStep ==
    ASSUME NEW o, NEW f, LogStep(o, f), Tracked
    PROVE  AddedFirst' /\ EachOnce' /\ ReasoningFirst'
<1> DEFINE n == Len(log) + 1
           A(ev) == {i \in DOMAIN log' : log'[i].ev = ev /\ log'[i].kind # "raw"}
<1>0. Appended(f)
  BY DEF LogStep
<1>1. /\ n \in DOMAIN log' /\ log'[n] = f /\ n \in Nat
      /\ \A i \in DOMAIN log : i \in DOMAIN log' /\ log'[i] = log[i] /\ i < n /\ i \in Nat /\ n # i /\ ~(n < i)
      /\ \A i \in DOMAIN log' : i \in DOMAIN log \/ i = n
  BY <1>0 DEF Appended
<1> HIDE DEF n
<1>2. ASSUME NEW ev, NEW i \in A(ev) PROVE i \in At(ev) \/ (i = n /\ f.ev = ev /\ f.kind # "raw")
  BY <1>1, <1>2 DEF At
<1>3. ASSUME NEW ev, NEW i \in At(ev) PROVE i \in A(ev) /\ i \in DOMAIN log
  BY <1>1, <1>3 DEF At
<1> HIDE DEF A
<1>4. ASSUME f.ev \in {"delta", "args_done", "done"}, f.kind # "raw"
      PROVE  \E j \in At("added") : log[j].idx = f.idx
  <2>1. o.op \notin NewIndex /\ o.op # "toolOpen"
    <3>1. o.op \notin Adders
      BY <1>4, FrameSort
    <3>2. f.ev \in ItemEvents
      BY <1>4 DEF ItemEvents
    <3>3. o.op # "rawClose"
      BY <1>4 DEF LogStep, Writes, RawOp
    <3> QED BY <3>1, <3>3 DEF Adders, NewIndex
  <2>2. f.ev \in ItemEvents
    BY <1>4 DEF ItemEvents
  <2>3. PICK j \in DOMAIN log : log[j].ev = "added" /\ log[j].kind = f.kind /\ log[j].idx = f.idx
    BY <2>1, <2>2 DEF LogStep, Meets
  <2> QED BY <1>4, <2>3 DEF At
<1>5. AddedFirst'
  <2> SUFFICES ASSUME NEW i \in A("delta") \cup A("args_done") \cup A("done")
               PROVE  \E j \in A("added") : j < i /\ log'[i].idx = log'[j].idx
    BY DEF AddedFirst, At, Same, A
  <2>1. CASE i \in At("delta") \cup At("args_done") \cup At("done")
    <3>1. PICK j \in At("added") : j < i /\ log[i].idx = log[j].idx
      BY <2>1 DEF Tracked, AddedFirst, Same
    <3>2. i \in DOMAIN log /\ j \in DOMAIN log /\ j \in A("added")
      BY <1>3, <2>1, <3>1
    <3> QED BY <1>1, <3>1, <3>2
  <2>2. CASE i = n /\ f.ev \in {"delta", "args_done", "done"} /\ f.kind # "raw"
    <3>1. PICK j \in At("added") : log[j].idx = f.idx
      BY <1>4, <2>2
    <3>2. j \in DOMAIN log /\ j \in A("added")
      BY <1>3, <3>1
    <3> QED BY <1>1, <2>2, <3>1, <3>2
  <2> QED BY <1>2, <2>1, <2>2
<1>6. ASSUME f.ev \in {"added", "done"}, f.kind # "raw", NEW j \in At(f.ev) PROVE log[j].idx # f.idx
  <2>0. j \in DOMAIN log /\ log[j].ev = f.ev
    BY <1>6 DEF At
  <2>1. CASE f.ev = "added"
    <3>1. o.op \in NewIndex \/ o.op = "toolOpen"
      BY <2>1, FrameSort DEF Adders, NewIndex
    <3> QED BY <2>0, <2>1, <3>1, FreshIsNew DEF ItemEvents
  <2>2. CASE f.ev = "done"
    <3>1. o.op # "rawClose"
      BY <1>6 DEF LogStep, Writes, RawOp
    <3>2. Open(log, f.kind, f.idx)
      BY <2>2, <3>1 DEF LogStep, Meets
    <3> QED BY <2>0, <2>2, <3>2 DEF Open
  <2> QED BY <1>6, <2>1, <2>2
<1>7. EachOnce'
  <2> SUFFICES ASSUME NEW ev \in {"added", "done"}, NEW i \in A(ev), NEW j \in A(ev), log'[i].idx = log'[j].idx
               PROVE  i = j
    BY DEF EachOnce, At, Same, A
  <2>1. CASE i \in At(ev) /\ j \in At(ev)
    <3>1. log[i].idx = log[j].idx
      BY <1>1, <1>3, <2>1
    <3> QED BY <2>1, <3>1 DEF Tracked, EachOnce, Same
  <2>2. CASE i \in At(ev) /\ j = n /\ f.ev = ev /\ f.kind # "raw"
    BY <1>1, <1>3, <1>6, <2>2
  <2>3. CASE j \in At(ev) /\ i = n /\ f.ev = ev /\ f.kind # "raw"
    BY <1>1, <1>3, <1>6, <2>3
  <2> QED BY <1>2, <2>1, <2>2, <2>3
<1>8. ReasoningFirst'
  <2> SUFFICES ASSUME NEW i \in A("added"), NEW j \in A("added"), j < i,
                      log'[i].kind = "message", log'[j].kind = "reasoning"
               PROVE  \E k \in A("done") : k < i /\ log'[k].idx = log'[j].idx
    BY DEF ReasoningFirst, At, Same, A
  <2>1. CASE i \in At("added")
    <3>1. i \in DOMAIN log /\ j # n
      BY <1>1, <1>3, <2>1
    <3>2. j \in At("added") /\ j \in DOMAIN log
      BY <1>2, <1>3, <3>1
    <3>3. log[i].kind = "message" /\ log[j].kind = "reasoning"
      BY <1>1, <3>1, <3>2
    <3>4. PICK k \in At("done") : k < i /\ log[k].idx = log[j].idx
      BY <2>1, <3>2, <3>3 DEF Tracked, ReasoningFirst, Same
    <3>5. k \in A("done") /\ k \in DOMAIN log
      BY <1>3, <3>4
    <3> QED BY <1>1, <3>2, <3>4, <3>5
  <2>2. CASE i = n /\ f.ev = "added"
    <3>1. f.kind = "message"
      BY <1>1, <2>2
    <3>2. o.op = "msgOpen"
      <4>1. o.op \in Adders /\ o.op \in MsgOp
        BY <2>2, <3>1, FrameSort DEF ItemEvents
      <4> QED BY <4>1 DEF Adders, MsgOp
    <3>3. cons.reason = NoIdx
      BY <3>2 DEF LogStep, Meets
    <3>4. j \in At("added") /\ j \in DOMAIN log /\ log[j].kind = "reasoning" /\ log[j].ev = "added"
      <4>1. j \in At("added")
        BY <1>1, <1>2, <2>2
      <4> QED BY <1>1, <1>3, <4>1 DEF At
    <3>5. log[j].idx # NoIdx
      BY <3>4 DEF Tracked, Numbered, ItemEvents, NoIdx
    <3>6. Done(j)
      BY <3>3, <3>4, <3>5 DEF Tracked, Listed
    <3>7. PICK k \in DOMAIN log : log[k].ev = "done" /\ log[k].idx = log[j].idx
      BY <3>6 DEF Done, Same
    <3>8. log[k].kind = "reasoning"
      BY <3>4, <3>7 DEF Tracked, Numbered, ItemEvents, Same
    <3>9. k \in A("done")
      <4>1. k \in At("done")
        BY <3>7, <3>8 DEF At
      <4> QED BY <1>3, <4>1
    <3> QED BY <1>1, <2>2, <3>4, <3>7, <3>9
  <2> QED BY <1>2, <2>1, <2>2
<1> QED BY <1>5, <1>7, <1>8

\* The tool calls and the log.
LEMMA CallsStep ==
    ASSUME NEW o, NEW f, LogStep(o, f), Tracked
    PROVE  Calls'
<1>0. /\ Appended(f) /\ cons.out \in Nat /\ cons'.out \in Nat /\ cons'.out >= cons.out
      /\ o.op \in NewIndex => f.idx = cons.out
      /\ o.op \in ToolOp => f.idx = cons.acc[o.tool].idx
  BY FrameIndex DEF LogStep
<1>1. \A t \in Tools : /\ cons'.acc[t].idx = cons.acc[t].idx
                       /\ cons'.acc[t].added <=> cons.acc[t].added \/ (o.op = "toolOpen" /\ o.tool = t)
                       /\ cons'.acc[t].done <=> cons.acc[t].done \/ (o.op = "toolClose" /\ o.tool = t)
  BY DEF LogStep, Step, Kept
<1>2. /\ \A t, u \in Tools : cons.acc[t].idx = cons.acc[u].idx /\ cons.acc[t].idx # NoIdx => t = u
      /\ Calls
  BY DEF Tracked, Calls
<1>3. \A t, u \in Tools : cons'.acc[t].idx = cons'.acc[u].idx /\ cons'.acc[t].idx # NoIdx => t = u
  BY <1>1, <1>2
<1>4. ASSUME NEW t \in Tools
      PROVE  LET a == cons'.acc[t] IN
             /\ a.idx # NoIdx => a.idx \in 0..(cons'.out - 1)
             /\ a.added => /\ a.idx # NoIdx
                           /\ \E i \in DOMAIN log' : log'[i].ev = "added" /\ log'[i].kind = "function_call" /\ log'[i].idx = a.idx
             /\ a.done => a.added
             /\ a.added /\ ~a.done => Open(log', "function_call", a.idx)
             /\ a.idx # NoIdx /\ ~a.added => \A i \in DOMAIN log' : log'[i].ev \in ItemEvents => log'[i].idx # a.idx
  <2> DEFINE x == cons.acc[t].idx
  <2>0. /\ cons'.acc[t].idx = x
        /\ cons'.acc[t].added <=> cons.acc[t].added \/ (o.op = "toolOpen" /\ o.tool = t)
        /\ cons'.acc[t].done <=> cons.acc[t].done \/ (o.op = "toolClose" /\ o.tool = t)
    BY <1>1
  <2>1. x # NoIdx => x \in 0..(cons.out - 1)
    BY <1>2 DEF Calls
  <2>2. ASSUME o.op = "toolOpen", o.tool = t
        PROVE  x # NoIdx /\ f.ev = "added" /\ f.kind = "function_call" /\ f.idx = x
    <3>1. o.op \in ToolOp /\ o.op \in Adders
      BY <2>2 DEF ToolOp, Adders
    <3> QED BY <1>0, <2>2, <3>1 DEF LogStep, Meets, Writes
  <2>3. ASSUME cons'.acc[t].added
        PROVE  x # NoIdx /\ \E i \in DOMAIN log' : log'[i].ev = "added" /\ log'[i].kind = "function_call" /\ log'[i].idx = x
    <3>1. CASE cons.acc[t].added
      <4>1. x # NoIdx /\ \E i \in DOMAIN log : log[i].ev = "added" /\ log[i].kind = "function_call" /\ log[i].idx = x
        BY <1>2, <3>1 DEF Calls
      <4> QED BY <1>0, <4>1 DEF Appended
    <3>2. CASE o.op = "toolOpen" /\ o.tool = t
      BY <1>0, <2>2, <3>2 DEF Appended
    <3> QED BY <2>0, <2>3, <3>1, <3>2
  <2>4. cons'.acc[t].done => cons'.acc[t].added
    <3>1. o.op = "toolClose" /\ o.tool = t => cons.acc[t].added
      BY DEF LogStep, Meets
    <3>2. cons.acc[t].done => cons.acc[t].added
      BY <1>2 DEF Calls
    <3> QED BY <2>0, <3>1, <3>2
  <2>5. ASSUME cons'.acc[t].added, ~cons'.acc[t].done PROVE Open(log', "function_call", x)
    <3>1. CASE o.op = "toolOpen" /\ o.tool = t
      BY <2>2, <3>1, OpenStarts
    <3>2. CASE cons.acc[t].added /\ ~cons.acc[t].done
      <4>1. Open(log, "function_call", x) /\ x # NoIdx
        BY <1>2, <3>2 DEF Calls
      <4>2. ASSUME f.ev = "done", f.idx = x PROVE FALSE
        <5>1. PICK i \in DOMAIN log : log[i].ev = "added" /\ log[i].kind = "function_call" /\ log[i].idx = x
          BY <4>1 DEF Open
        <5>2. f.kind = "function_call"
          BY <4>2, <5>1, DoneHasKind
        <5>3. o.op = "toolClose"
          <6>1. o.op \in ToolOp /\ o.op \in Doners
            BY <4>2, <5>2, FrameSort DEF ItemEvents
          <6> QED BY <6>1 DEF ToolOp, Doners
        <5>4. o.tool \in Tools /\ cons.acc[o.tool].idx = x
          BY <1>0, <4>2, <5>3 DEF LogStep, Meets, ToolOp
        <5>5. o.tool = t
          BY <1>2, <4>1, <5>4
        <5> QED BY <2>0, <2>5, <5>3, <5>5
      <4> QED BY <1>0, <4>1, <4>2, OpenStays
    <3> QED BY <2>0, <2>5, <3>1, <3>2
  <2>6. ASSUME x # NoIdx, ~cons'.acc[t].added, NEW i \in DOMAIN log', log'[i].ev \in ItemEvents
        PROVE  log'[i].idx # x
    <3>1. ~cons.acc[t].added /\ ~(o.op = "toolOpen" /\ o.tool = t)
      BY <2>0, <2>6
    <3>2. \A k \in DOMAIN log : log[k].ev \in ItemEvents => log[k].idx # x
      BY <1>2, <2>6, <3>1 DEF Calls
    <3>3. CASE i \in DOMAIN log
      BY <1>0, <2>6, <3>2, <3>3 DEF Appended
    <3>4. CASE i = Len(log) + 1
      <4>1. log'[i] = f
        BY <1>0, <3>4 DEF Appended
      <4>2. CASE o.op \in NewIndex
        BY <1>0, <2>1, <2>6, <4>1, <4>2
      <4>3. CASE o.op = "toolOpen"
        <5>1. o.tool \in Tools /\ cons.acc[o.tool].idx = f.idx /\ o.tool # t
          BY <1>0, <3>1, <4>3 DEF LogStep, Meets, ToolOp
        <5> QED BY <1>2, <2>6, <4>1, <5>1
      <4>4. CASE o.op \notin NewIndex /\ o.op # "toolOpen"
        <5>1. PICK k \in DOMAIN log : log[k].ev = "added" /\ log[k].idx = f.idx
          BY <2>6, <4>1, <4>4 DEF LogStep, Meets
        <5> QED BY <3>2, <4>1, <5>1 DEF ItemEvents
      <4> QED BY <4>2, <4>3, <4>4
    <3> QED BY <1>0, <3>3, <3>4 DEF Appended
  <2>7. x # NoIdx => x \in 0..(cons'.out - 1)
    BY <1>0, <2>1
  <2> HIDE DEF x
  <2> QED BY <2>0, <2>3, <2>4, <2>5, <2>6, <2>7
<1> QED BY <1>3, <1>4 DEF Calls

\* The open message, reasoning and native items.
LEMMA ItemsStep ==
    ASSUME NEW o, NEW f, LogStep(o, f), Tracked
    PROVE  /\ cons'.reason # NoIdx => Open(log', "reasoning", cons'.reason)
           /\ cons'.msg # NoIdx => Open(log', "message", cons'.msg)
           /\ \A i, k \in DOMAIN cons'.raw : cons'.raw[i] = cons'.raw[k] => i = k
           /\ \A i \in DOMAIN cons'.raw : Open(log', "raw", cons'.raw[i])
<1>0. /\ Appended(f) /\ cons.out \in Nat /\ Items /\ cons.raw \in Seq(Int)
      /\ o.op \in NewIndex => f.idx = cons.out
  BY FrameIndex DEF LogStep, State, Tracked
<1>1. ASSUME NEW k, NEW x, Open(log, k, x), f.ev = "done", f.idx = x PROVE f.kind = k /\ o.op # "rawClose"
  <2>1. PICK i \in DOMAIN log : log[i].ev = "added" /\ log[i].kind = k /\ log[i].idx = x
    BY <1>1 DEF Open
  <2> QED BY <1>1, <2>1, DoneHasKind
<1>2. ASSUME cons'.reason # NoIdx PROVE Open(log', "reasoning", cons'.reason)
  <2>0. cons'.reason = IF o.op = "reasonOpen" THEN cons.out ELSE IF o.op = "reasonClose" THEN NoIdx ELSE cons.reason
    BY DEF LogStep, Step
  <2>1. CASE o.op = "reasonOpen"
    <3>1. f.ev = "added" /\ f.kind = "reasoning" /\ f.idx = cons.out
      BY <1>0, <2>1 DEF LogStep, Writes, Adders, ReasonOp, NewIndex
    <3>2. cons'.reason = f.idx
      BY <2>0, <2>1, <3>1
    <3>3. Open(log', f.kind, f.idx)
      BY <3>1, OpenStarts
    <3> QED BY <3>1, <3>2, <3>3
  <2>2. CASE o.op # "reasonOpen" /\ o.op # "reasonClose"
    <3>1. cons'.reason = cons.reason /\ Open(log, "reasoning", cons.reason)
      BY <1>0, <1>2, <2>0, <2>2 DEF Items
    <3>2. ASSUME f.ev = "done", f.idx = cons.reason PROVE FALSE
      <4>1. o.op \in ReasonOp /\ o.op \in Doners
        BY <1>1, <3>1, <3>2, FrameSort DEF ItemEvents
      <4> QED BY <2>2, <4>1 DEF ReasonOp, Doners
    <3>3. Open(log', "reasoning", cons.reason)
      <4>1. \A x : Open(log, "reasoning", x) /\ ~(f.ev = "done" /\ f.idx = x) => Open(log', "reasoning", x)
        BY <1>0, OpenStays
      <4> QED BY <3>1, <3>2, <4>1
    <3> QED BY <3>1, <3>3
  <2> QED BY <1>2, <2>0, <2>1, <2>2
<1>3. ASSUME cons'.msg # NoIdx PROVE Open(log', "message", cons'.msg)
  <2>0. cons'.msg = IF o.op = "msgOpen" THEN cons.out ELSE IF o.op = "msgClose" THEN NoIdx ELSE cons.msg
    BY DEF LogStep, Step
  <2>1. CASE o.op = "msgOpen"
    <3>1. f.ev = "added" /\ f.kind = "message" /\ f.idx = cons.out
      BY <1>0, <2>1 DEF LogStep, Writes, Adders, MsgOp, NewIndex
    <3>2. cons'.msg = f.idx
      BY <2>0, <2>1, <3>1
    <3>3. Open(log', f.kind, f.idx)
      BY <3>1, OpenStarts
    <3> QED BY <3>1, <3>2, <3>3
  <2>2. CASE o.op # "msgOpen" /\ o.op # "msgClose"
    <3>1. cons'.msg = cons.msg /\ Open(log, "message", cons.msg)
      BY <1>0, <1>3, <2>0, <2>2 DEF Items
    <3>2. ASSUME f.ev = "done", f.idx = cons.msg PROVE FALSE
      <4>1. o.op \in MsgOp /\ o.op \in Doners
        BY <1>1, <3>1, <3>2, FrameSort DEF ItemEvents
      <4> QED BY <2>2, <4>1 DEF MsgOp, Doners
    <3>3. Open(log', "message", cons.msg)
      <4>1. \A x : Open(log, "message", x) /\ ~(f.ev = "done" /\ f.idx = x) => Open(log', "message", x)
        BY <1>0, OpenStays
      <4> QED BY <3>1, <3>2, <4>1
    <3> QED BY <3>1, <3>3
  <2> QED BY <1>3, <2>0, <2>1, <2>2
<1>4. cons'.raw = IF o.op = "rawOpen" THEN Append(cons.raw, cons.out)
                  ELSE IF o.op = "rawEnd" THEN RemoveFirst(cons.raw, o.tool) ELSE cons.raw
  BY DEF LogStep, Step
<1>5. /\ \A i, k \in DOMAIN cons.raw : cons.raw[i] = cons.raw[k] => i = k
      /\ \A i \in DOMAIN cons.raw : Open(log, "raw", cons.raw[i])
  BY <1>0 DEF Items
<1>6. \A i \in DOMAIN cons.raw : cons.raw[i] \in 0..(cons.out - 1)
  <2> TAKE i \in DOMAIN cons.raw
  <2>1. PICK k \in DOMAIN log : log[k].ev = "added" /\ log[k].idx = cons.raw[i]
    BY <1>5 DEF Open
  <2> QED BY <2>1 DEF Tracked, Numbered, ItemEvents
<1>7. ASSUME NEW x, Open(log, "raw", x), ~(o.op = "rawEnd" /\ o.tool = x) PROVE Open(log', "raw", x)
  <2>1. ASSUME f.ev = "done", f.idx = x PROVE FALSE
    <3>1. f.kind = "raw" /\ o.op # "rawClose"
      BY <1>1, <1>7, <2>1
    <3>2. o.op \in RawOp /\ o.op \in Doners
      BY <2>1, <3>1, FrameSort DEF ItemEvents
    <3>3. o.op = "rawEnd"
      BY <3>1, <3>2 DEF RawOp, Doners
    <3>4. o.tool = x
      BY <2>1, <3>3, FrameIndex
    <3> QED BY <1>7, <3>3, <3>4
  <2> QED BY <1>0, <1>7, <2>1, OpenStays
<1>8. CASE o.op = "rawOpen"
  <2>1. cons'.raw = Append(cons.raw, cons.out)
    BY <1>4, <1>8
  <2>2. /\ DOMAIN cons'.raw = 1..(Len(cons.raw) + 1) /\ DOMAIN cons.raw = 1..Len(cons.raw) /\ Len(cons.raw) \in Nat
        /\ \A i \in 1..Len(cons.raw) : cons'.raw[i] = cons.raw[i]
        /\ cons'.raw[Len(cons.raw) + 1] = cons.out
    BY <1>0, <2>1
  <2>3. f.ev = "added" /\ f.kind = "raw" /\ f.idx = cons.out
    BY <1>0, <1>8 DEF LogStep, Writes, Adders, RawOp, NewIndex
  <2>4. Open(log', "raw", cons.out)
    BY <2>3, OpenStarts
  <2>5. \A i \in DOMAIN cons'.raw : i \in DOMAIN cons.raw \/ i = Len(cons.raw) + 1
    BY <2>2
  <2>6. \A i, k \in DOMAIN cons'.raw : cons'.raw[i] = cons'.raw[k] => i = k
    <3> SUFFICES ASSUME NEW i \in DOMAIN cons'.raw, NEW k \in DOMAIN cons'.raw, cons'.raw[i] = cons'.raw[k]
                 PROVE  i = k
      OBVIOUS
    <3>1. \A j \in DOMAIN cons.raw : cons'.raw[j] = cons.raw[j] /\ cons'.raw[j] # cons.out
      BY <1>0, <1>6, <2>2, SMTT(30)
    <3>2. CASE i \in DOMAIN cons.raw /\ k \in DOMAIN cons.raw
      BY <1>5, <3>1, <3>2
    <3>3. CASE i = Len(cons.raw) + 1
      BY <2>2, <2>5, <3>1, <3>3
    <3>4. CASE k = Len(cons.raw) + 1
      BY <2>2, <2>5, <3>1, <3>4
    <3> QED BY <2>5, <3>2, <3>3, <3>4
  <2>7. ASSUME NEW i \in DOMAIN cons'.raw PROVE Open(log', "raw", cons'.raw[i])
    <3>1. CASE i \in DOMAIN cons.raw
      BY <1>5, <1>7, <1>8, <2>2, <3>1
    <3>2. CASE i = Len(cons.raw) + 1
      BY <2>2, <2>4, <3>2
    <3> QED BY <2>5, <3>1, <3>2
  <2> QED BY <1>2, <1>3, <2>6, <2>7
<1>9. CASE o.op = "rawEnd"
  <2> DEFINE r == cons'.raw
  <2>1. r = RemoveFirst(cons.raw, o.tool)
    BY <1>4, <1>9
  <2> HIDE DEF r
  <2>2. /\ \A i \in DOMAIN r : r[i] # o.tool /\ \E k \in DOMAIN cons.raw : r[i] = cons.raw[k]
        /\ \A i, k \in DOMAIN r : r[i] = r[k] => i = k
    <3>1. cons.raw \in Seq(Int) /\ \A a, b \in DOMAIN cons.raw : cons.raw[a] = cons.raw[b] => a = b
      BY <1>0, <1>5
    <3> QED BY <2>1, <3>1, RemoveFirstOnce
  <2>3. \A i \in DOMAIN r : Open(log', "raw", r[i])
    BY <1>5, <1>7, <2>2
  <2> QED BY <1>2, <1>3, <2>2, <2>3 DEF r
<1>10. CASE o.op # "rawOpen" /\ o.op # "rawEnd"
  <2>1. cons'.raw = cons.raw
    BY <1>4, <1>10
  <2> QED BY <1>2, <1>3, <1>5, <1>7, <1>10, <2>1
<1> QED BY <1>8, <1>9, <1>10

\* What is open is in one of the fields.
LEMMA ListedStep ==
    ASSUME NEW o, NEW f, LogStep(o, f), Tracked, o = cons.todo[1], o.op # "itemClose" \/ cons.pc = "run",
           o.op = "itemOpen" => cons'.pc = "run" /\ cons'.todo # <<>> /\ cons'.todo[1].op = "itemClose"
    PROVE  Listed'
<1>0. /\ Appended(f) /\ cons.out \in Nat /\ cons.raw \in Seq(Int)
      /\ o.op \in NewIndex => f.idx = cons.out /\ cons'.out = cons.out + 1
      /\ o.op \in ToolOp => f.idx = cons.acc[o.tool].idx
  BY FrameIndex DEF LogStep, State
<1>1. Step(cons, o, cons') /\ Writes(cons, o, f) /\ Meets(o, f)
  BY DEF LogStep
<1>2. ASSUME NEW i \in DOMAIN log', log'[i].ev = "added", ~Done(i)'
      PROVE  \/ log'[i].kind = "reasoning" /\ log'[i].idx = cons'.reason
             \/ log'[i].kind = "message" /\ log'[i].idx = cons'.msg
             \/ /\ log'[i].kind = "function_call"
                /\ \E t \in Tools : cons'.acc[t].added /\ ~cons'.acc[t].done /\ cons'.acc[t].idx = log'[i].idx
             \/ log'[i].kind = "raw" /\ \E k \in DOMAIN cons'.raw : cons'.raw[k] = log'[i].idx
             \/ /\ log'[i].kind = "special" /\ log'[i].idx = cons'.out - 1
                /\ cons'.pc \in {"run", "gone"} /\ cons'.todo # <<>> /\ cons'.todo[1].op = "itemClose"
  <2>1. CASE i \in DOMAIN log
    <3>0. log'[i] = log[i] /\ log[i].ev = "added" /\ log[i].idx # NoIdx
      BY <1>0, <1>2, <2>1 DEF Appended, Tracked, Numbered, ItemEvents, NoIdx
    <3>1. ~(f.ev = "done" /\ f.idx = log[i].idx)
      <4> DEFINE n == Len(log) + 1
      <4>1. n \in DOMAIN log' /\ n > i /\ log'[n] = f
        BY <1>0, <2>1 DEF Appended
      <4> HIDE DEF n
      <4> QED BY <1>2, <3>0, <4>1 DEF Done, Same
    <3>2. ~Done(i)
      <4> SUFFICES ASSUME NEW k \in DOMAIN log, k > i, log[k].ev = "done", log[k].idx = log[i].idx PROVE FALSE
        BY DEF Done, Same
      <4>1. k \in DOMAIN log' /\ log'[k] = log[k]
        BY <1>0 DEF Appended
      <4> QED BY <1>2, <3>0, <4>1 DEF Done, Same
    <3>3. CASE log[i].kind = "reasoning" /\ log[i].idx = cons.reason
      <4>1. o.op # "reasonOpen"
        BY <1>1, <3>0, <3>3 DEF Meets
      <4>2. o.op # "reasonClose"
        BY <1>1, <3>1, <3>3 DEF Writes, Doners, ReasonOp
      <4> QED BY <1>1, <3>0, <3>3, <4>1, <4>2 DEF Step
    <3>4. CASE log[i].kind = "message" /\ log[i].idx = cons.msg
      <4>1. o.op # "msgOpen"
        BY <1>1, <3>0, <3>4 DEF Meets
      <4>2. o.op # "msgClose"
        BY <1>1, <3>1, <3>4 DEF Writes, Doners, MsgOp
      <4> QED BY <1>1, <3>0, <3>4, <4>1, <4>2 DEF Step
    <3>5. ASSUME log[i].kind = "function_call", NEW t \in Tools, cons.acc[t].added, ~cons.acc[t].done,
                 cons.acc[t].idx = log[i].idx
          PROVE  /\ log'[i].kind = "function_call"
                 /\ \E u \in Tools : cons'.acc[u].added /\ ~cons'.acc[u].done /\ cons'.acc[u].idx = log'[i].idx
      <4>1. ~(o.op = "toolClose" /\ o.tool = t)
        BY <1>0, <1>1, <3>1, <3>5 DEF Writes, Doners, ToolOp
      <4>2. cons'.acc[t].added /\ ~cons'.acc[t].done /\ cons'.acc[t].idx = cons.acc[t].idx
        BY <1>1, <3>5, <4>1 DEF Step, Kept
      <4> QED BY <3>0, <3>5, <4>2
    <3>6. ASSUME log[i].kind = "raw", NEW k \in DOMAIN cons.raw, cons.raw[k] = log[i].idx
          PROVE  log'[i].kind = "raw" /\ \E j \in DOMAIN cons'.raw : cons'.raw[j] = log'[i].idx
      <4>1. CASE o.op = "rawOpen"
        <5>1. cons'.raw = Append(cons.raw, cons.out)
          BY <1>1, <4>1 DEF Step
        <5>2. k \in DOMAIN cons'.raw /\ cons'.raw[k] = cons.raw[k]
          BY <1>0, <3>6, <5>1
        <5> QED BY <3>0, <3>6, <5>2
      <4>2. CASE o.op = "rawEnd"
        <5>1. cons.raw[k] # o.tool
          <6>1. f.ev = "done" /\ f.idx = o.tool
            BY <1>1, <4>2 DEF Writes, Doners, RawOp
          <6> QED BY <3>1, <3>6, <6>1
        <5> DEFINE r == cons'.raw
        <5>2. r = RemoveFirst(cons.raw, o.tool)
          BY <1>1, <4>2 DEF Step
        <5> HIDE DEF r
        <5>3. \A a, b \in DOMAIN cons.raw : cons.raw[a] = cons.raw[b] => a = b
          BY DEF Tracked, Items
        <5>4. \A j \in DOMAIN cons.raw : cons.raw[j] # o.tool => \E a \in DOMAIN r : r[a] = cons.raw[j]
          BY <1>0, <5>2, <5>3, RemoveFirstOnce
        <5> QED BY <3>0, <3>6, <5>1, <5>4 DEF r
      <4>3. CASE o.op # "rawOpen" /\ o.op # "rawEnd"
        <5>1. cons'.raw = cons.raw
          BY <1>1, <4>3 DEF Step
        <5> QED BY <3>0, <3>6, <5>1
      <4> QED BY <4>1, <4>2, <4>3
    <3>7. ~ /\ log[i].kind = "special" /\ log[i].idx = cons.out - 1 /\ cons.pc \in {"run", "gone"}
            /\ cons.todo # <<>> /\ cons.todo[1].op = "itemClose"
      BY <1>1, <3>1 DEF Writes, Doners, ItemOp
    <3>8. \/ log[i].kind = "reasoning" /\ log[i].idx = cons.reason
          \/ log[i].kind = "message" /\ log[i].idx = cons.msg
          \/ log[i].kind = "function_call" /\ \E t \in Tools : cons.acc[t].added /\ ~cons.acc[t].done /\ cons.acc[t].idx = log[i].idx
          \/ log[i].kind = "raw" /\ \E k \in DOMAIN cons.raw : cons.raw[k] = log[i].idx
      BY <2>1, <3>0, <3>2, <3>7 DEF Tracked, Listed
    <3> QED BY <3>3, <3>4, <3>5, <3>6, <3>8
  <2>2. CASE i = Len(log) + 1
    <3>0. log'[i] = f /\ f.ev = "added"
      BY <1>0, <1>2, <2>2 DEF Appended
    <3>1. o.op \in Adders
      BY <3>0, FrameSort
    <3>2. CASE o.op = "reasonOpen"
      <4>1. f.kind = "reasoning" /\ f.idx = cons.out /\ cons'.reason = cons.out
        BY <1>1, <3>2 DEF Writes, Step, ReasonOp
      <4> QED BY <3>0, <4>1
    <3>3. CASE o.op = "msgOpen"
      <4>1. f.kind = "message" /\ f.idx = cons.out /\ cons'.msg = cons.out
        BY <1>1, <3>3 DEF Writes, Step, MsgOp
      <4> QED BY <3>0, <4>1
    <3>4. CASE o.op = "toolOpen"
      <4>1. o.tool \in Tools /\ f.kind = "function_call" /\ f.idx = cons.acc[o.tool].idx /\ ~cons.acc[o.tool].added
        BY <1>1, <3>4 DEF Writes, Meets, ToolOp
      <4>2. ~cons.acc[o.tool].done
        BY <4>1 DEF Tracked, Calls
      <4>3. cons'.acc[o.tool].added /\ ~cons'.acc[o.tool].done /\ cons'.acc[o.tool].idx = f.idx
        BY <1>1, <3>4, <4>1, <4>2 DEF Step, Kept
      <4> QED BY <3>0, <4>1, <4>3
    <3>5. CASE o.op = "rawOpen"
      <4>1. f.kind = "raw" /\ f.idx = cons.out /\ cons'.raw = Append(cons.raw, cons.out)
        BY <1>1, <3>5 DEF Writes, Step, RawOp
      <4>2. (Len(cons.raw) + 1) \in DOMAIN cons'.raw /\ cons'.raw[Len(cons.raw) + 1] = cons.out
        BY <1>0, <4>1
      <4> QED BY <3>0, <4>1, <4>2
    <3>6. CASE o.op = "itemOpen"
      <4>1. f.kind = "special" /\ f.idx = cons.out /\ cons'.out = cons.out + 1
        BY <1>1, <3>6 DEF Writes, Step, ItemOp, NewIndex
      <4>2. f.idx = cons'.out - 1
        BY <1>0, <4>1
      <4> QED BY <3>0, <3>6, <4>1, <4>2
    <3> QED BY <3>1, <3>2, <3>3, <3>4, <3>5, <3>6 DEF Adders
  <2> QED BY <1>0, <2>1, <2>2 DEF Appended
<1> QED BY <1>2 DEF Listed

(***************************************************************************)
(* Emit                                                                    *)
(***************************************************************************)
\* _raw_open.remove: a list of numbers again.
LEMMA RemoveFirstType ==
    ASSUME NEW s \in Seq(Int), NEW r
    PROVE  RemoveFirst(s, r) \in Seq(Int)
<1>1. CASE ~ \E i \in 1..Len(s) : s[i] = r
  BY <1>1 DEF RemoveFirst
<1>2. CASE \E i \in 1..Len(s) : s[i] = r
  <2> DEFINE I == {i \in 1..Len(s) : s[i] = r}
             R == {ss \in Nat \X Nat : ss[1] < ss[2]}
  <2>1. I \in SUBSET Nat /\ I # {}
    BY <1>2
  <2>2. IsWellFoundedOn(R, Nat)
    BY NatLessThanWellFounded DEF OpToRel
  <2> HIDE DEF R
  <2>3. PICK x \in I : \A y \in I : ~ (<<y, x>> \in R)
    BY <2>1, <2>2, WFMin, Zenon
  <2>4. ASSUME NEW y \in I PROVE x <= y
    <3>1. x \in Nat /\ y \in Nat OBVIOUS
    <3>2. <<y, x>> \notin R BY <2>3
    <3>3. <<y, x>> \in Nat \X Nat BY <3>1
    <3>4. ~(<<y, x>>[1] < <<y, x>>[2]) BY <3>2, <3>3 DEF R
    <3>5. <<y, x>>[1] = y /\ <<y, x>>[2] = x OBVIOUS
    <3> QED BY <3>1, <3>4, <3>5
  <2>5. Min(I) \in 1..Len(s)
    BY <2>3, <2>4 DEF Min
  <2>6. RemoveFirst(s, r) = RemoveAt(s, Min(I))
    BY <1>2, <2>1 DEF RemoveFirst, SelectInSeq
  <2> DEFINE j == Min(I)
  <2> HIDE DEF I
  <2>7. j \in 1..Len(s) /\ RemoveFirst(s, r) = SubSeq(s, 1, j - 1) \o SubSeq(s, j + 1, Len(s))
    BY <2>5, <2>6 DEF RemoveAt
  <2> HIDE DEF j
  <2>8. SubSeq(s, 1, j - 1) \in Seq(Int) /\ SubSeq(s, j + 1, Len(s)) \in Seq(Int)
    BY <2>7
  <2> QED BY <2>7, <2>8
<1> QED BY <1>1, <1>2

\* What every emitted event is known to be.
EmitStep(o, f) ==
    /\ cons \in State /\ cons' \in State /\ cons.todo # <<>> /\ o = cons.todo[1] /\ o \in Op
    /\ o.op \in ToolOp => o.tool \in Tools
    /\ o.op = "end" => o.st # "none"
    /\ Step(cons, o, cons') /\ Writes(cons, o, f) /\ Appended(f) /\ log' \in Seq(Frame) /\ Len(log') = Len(log) + 1
    /\ cons'.todo = Tail(cons.todo) /\ Len(cons'.todo) = Len(cons.todo) - 1 /\ Len(cons.todo) \in Nat \ {0}
    /\ \A i \in 1..(Len(cons.todo) - 1) : cons'.todo[i] = cons.todo[i + 1]
    /\ IF Len(cons.todo) = 1
       THEN /\ cons'.todo = <<>> /\ cons'.frames = {} /\ shown' = shown \cup cons.frames \cup {Len(log) + 1}
            /\ cons'.pc = IF cons.pc = "closing" THEN "ended" ELSE cons.pc
       ELSE /\ cons'.todo # <<>> /\ cons'.frames = cons.frames \cup {Len(log) + 1} /\ shown' = shown /\ cons'.pc = cons.pc
    /\ UNCHANGED <<cfg, up, produced, queue, timer, watch, faults>>

\* _emit, with the fields set before and after it.
LEMMA EmitIs ==
    ASSUME Inv, Emit, NEW o, o = cons.todo[1]
    PROVE  \E f : EmitStep(o, f)
<1> DEFINE q == cons.todo
           b == Before(cons, o)
           f == FrameOf(b, o)
           d == After(b, o)
           frames == cons.frames \cup {Len(log) + 1}
           last == Tail(q) = <<>>
<1>1. cons \in State /\ q \in Seq(Op) /\ q # <<>> /\ log \in Seq(Frame) /\ cons.raw \in Seq(Int) /\ cons.frames \subseteq Nat
  BY DEF Inv, TypeOK, State, Emit
<1>2. /\ Tail(q) \in Seq(Op) /\ Len(Tail(q)) = Len(q) - 1 /\ Len(q) \in Nat \ {0}
      /\ Head(q) = q[1] /\ q[1] \in Op
      /\ \A i \in 1..(Len(q) - 1) : Tail(q)[i] = q[i + 1]
      /\ Tail(q) = <<>> <=> Len(q) = 1
  BY <1>1, TailHas
<1>3. /\ log' = Append(log, f)
      /\ cons' = [d EXCEPT !.todo = Tail(@), !.frames = IF last THEN {} ELSE frames,
                           !.pc = IF last /\ @ = "closing" THEN "ended" ELSE @]
      /\ shown' = IF last THEN shown \cup frames ELSE shown
      /\ UNCHANGED <<cfg, up, produced, queue, timer, watch, faults>>
  BY <1>2 DEF Emit
<1>4. o \in Op /\ (o.op \in ToolOp => o.tool \in Tools) /\ (o.op = "end" => o.st # "none")
  <2>1. cons.pc \in {"run", "closing"}
    BY <1>1 DEF Inv, Ending, State
  <2>2. 1 \in 1..Len(q)
    BY <1>2
  <2>3. CASE cons.pc = "run"
    <3>1. (o.op \in ToolOp => o.tool \in Tools) /\ Fits(cons, o)
      BY <1>2, <2>2, <2>3 DEF Inv, Planned
    <3> QED BY <1>2, <3>1 DEF Fits
  <2>4. CASE cons.pc = "closing"
    <3>1. IF Len(q) = 1 THEN o.op = "end" /\ o.st # "none" ELSE o.op \in Closers
      <4>1. /\ \A i \in 1..Len(q) : IF i = Len(q) THEN q[i].op = "end" ELSE q[i].op \in Closers
            /\ q[Len(q)].st # "none"
        BY <2>4 DEF Inv, Ending, EndPlan, Fair
      <4> QED BY <2>2, <4>1
    <3>2. o.op = "toolClose" => o.tool \in Tools
      BY <2>4, <1>1, <2>2 DEF Inv, Ending, EndPlan
    <3> QED BY <1>2, <3>1, <3>2 DEF Closers, ToolOp
  <2> QED BY <2>1, <2>3, <2>4
<1>5. Writes(cons, o, f)
  BY <1>1, <1>4, FrameIs
<1>6. Appended(f) /\ log' \in Seq(Frame) /\ Len(log') = Len(log) + 1
  <2>1. f \in Frame
    BY <1>5 DEF Writes
  <2> HIDE DEF f
  <2> QED BY <1>1, <1>3, <2>1, AppendIs
<1>7. d \in State /\ Step(cons, o, d) /\ d.todo = q /\ d.frames = cons.frames /\ d.pc = cons.pc
  <2>1. /\ b \in State
        /\ b.pc = cons.pc /\ b.todo = q /\ b.frames = cons.frames /\ b.special = cons.special
        /\ b.finish = cons.finish /\ b.invalid = cons.invalid /\ b.why = cons.why /\ b.acc = cons.acc
        /\ b.raw = cons.raw
        /\ b.out = IF o.op \in NewIndex THEN cons.out + 1 ELSE cons.out
        /\ b.reason = IF o.op = "reasonOpen" THEN cons.out ELSE cons.reason
        /\ b.msg = IF o.op = "msgOpen" THEN cons.out ELSE cons.msg
    <3>1. b = Before(cons, o) /\ cons \in State /\ o \in Op
      BY <1>1, <1>4
    <3> HIDE DEF b, d, f, frames, last
    <3>2. b \in State /\ b.pc = cons.pc /\ b.todo = cons.todo /\ b.frames = cons.frames
      BY <3>1, BeforeStep
    <3>3. /\ b.special = cons.special
          /\ b.finish = cons.finish /\ b.invalid = cons.invalid /\ b.why = cons.why /\ b.acc = cons.acc
          /\ b.raw = cons.raw
      BY <3>1, BeforeStep
    <3>4. /\ b.out = IF o.op \in NewIndex THEN cons.out + 1 ELSE cons.out
          /\ b.reason = IF o.op = "reasonOpen" THEN cons.out ELSE cons.reason
          /\ b.msg = IF o.op = "msgOpen" THEN cons.out ELSE cons.msg
      BY <3>1, BeforeStep
    <3> QED BY <3>2, <3>3, <3>4
  <2>2. cons.out \in Nat
    BY <1>1 DEF State
  <2> HIDE DEF b
  <2>3. o.op = "rawOpen" => b.out > 0 /\ b.out - 1 = cons.out
    BY <2>1, <2>2 DEF NewIndex
  <2>4. RemoveFirst(b.raw, o.tool) \in Seq(Int)
    BY <1>1, <2>1, RemoveFirstType
  <2>5. /\ d \in State /\ Kept(b, d) /\ d.out = b.out
        /\ d.pc = b.pc /\ d.todo = b.todo /\ d.frames = b.frames
        /\ d.reason = IF o.op = "reasonClose" THEN NoIdx ELSE b.reason
        /\ d.msg = IF o.op = "msgClose" THEN NoIdx ELSE b.msg
        /\ d.raw = IF o.op = "rawOpen" THEN Append(b.raw, b.out - 1)
                   ELSE IF o.op = "rawEnd" THEN RemoveFirst(b.raw, o.tool) ELSE b.raw
        /\ \A t \in Tools : /\ d.acc[t].added <=> b.acc[t].added \/ (o.op = "toolOpen" /\ o.tool = t)
                            /\ d.acc[t].done <=> b.acc[t].done \/ (o.op = "toolClose" /\ o.tool = t)
    BY <1>4, <2>1, <2>3, <2>4, AfterStep
  <2> HIDE DEF d
  <2>6. Kept(cons, d)
    BY <2>1, <2>5 DEF Kept
  <2>7. d.raw = IF o.op = "rawOpen" THEN Append(cons.raw, cons.out)
                ELSE IF o.op = "rawEnd" THEN RemoveFirst(cons.raw, o.tool) ELSE cons.raw
    BY <2>1, <2>3, <2>5
  <2>8. /\ d.reason = IF o.op = "reasonOpen" THEN cons.out ELSE IF o.op = "reasonClose" THEN NoIdx ELSE cons.reason
        /\ d.msg = IF o.op = "msgOpen" THEN cons.out ELSE IF o.op = "msgClose" THEN NoIdx ELSE cons.msg
    BY <2>1, <2>5
  <2> QED BY <2>1, <2>5, <2>6, <2>7, <2>8 DEF Step
<1> HIDE DEF b, f, d, q
<1>8. /\ cons'.todo = Tail(q) /\ cons'.frames = IF last THEN {} ELSE frames
      /\ cons'.pc = IF last /\ cons.pc = "closing" THEN "ended" ELSE cons.pc
  BY <1>3, <1>7 DEF State
<1>9. Step(cons, o, cons')
  <2>1. /\ cons'.out = d.out /\ cons'.reason = d.reason /\ cons'.msg = d.msg /\ cons'.raw = d.raw /\ cons'.acc = d.acc
        /\ cons'.special = d.special /\ cons'.finish = d.finish /\ cons'.invalid = d.invalid /\ cons'.why = d.why
    BY <1>3, <1>7 DEF State
  <2> QED BY <1>7, <2>1 DEF Step, Kept
<1>10. cons' \in State
  <2>1. frames \subseteq Nat /\ {} \subseteq Nat
    BY <1>1
  <2>2. (IF last THEN {} ELSE frames) \in SUBSET Nat
    BY <2>1
  <2>3. (IF last /\ d.pc = "closing" THEN "ended" ELSE d.pc) \in {"run", "closing", "ended", "raised", "gone"}
    BY <1>7 DEF State
  <2>4. Tail(d.todo) \in Seq(Op)
    BY <1>2, <1>7
  <2> HIDE DEF last, frames
  <2> QED BY <1>3, <1>7, <2>2, <2>3, <2>4 DEF State
<1>11. EmitStep(o, f)
  BY <1>1, <1>2, <1>3, <1>4, <1>5, <1>6, <1>8, <1>9, <1>10 DEF EmitStep, q
<1> QED BY <1>11

\* The fields the event meets, while chunks are translated and at the end.
LEMMA EmitFits ==
    ASSUME Inv, NEW o, NEW f, EmitStep(o, f)
    PROVE  /\ cons.pc \in {"run", "closing"}
           /\ cons.pc = "closing" => o.op \in Closers \cup {"end"} /\ (o.op = "end" <=> Len(cons.todo) = 1)
           /\ cons.pc = "run" => Fits(cons, o) /\ faults = 0
           /\ faults = 0 =>
                 /\ o.op = "reasonOpen" => cons.reason = NoIdx
                 /\ o.op = "msgOpen" => cons.reason = NoIdx /\ cons.msg = NoIdx
                 /\ o.op \in ReasonOp /\ o.op # "reasonOpen" => cons.reason # NoIdx
                 /\ o.op \in MsgOp /\ o.op # "msgOpen" => cons.msg # NoIdx
                 /\ o.op = "toolOpen" => cons.acc[o.tool].idx # NoIdx /\ ~cons.acc[o.tool].added
                 /\ o.op \in ToolOp /\ o.op # "toolOpen" => cons.acc[o.tool].added
                 /\ o.op = "toolClose" => ~cons.acc[o.tool].done
                 /\ o.op = "rawEnd" => \E k \in DOMAIN cons.raw : cons.raw[k] = o.tool
                 /\ o.op = "itemClose" => cons.pc = "run"
<1>0. cons.todo # <<>> /\ o = cons.todo[1] /\ Len(cons.todo) \in Nat \ {0} /\ cons \in State /\ o \in Op
  BY DEF EmitStep
<1>1. cons.pc \in {"run", "closing"}
  BY <1>0 DEF Inv, Ending, State
<1>2. CASE cons.pc = "run"
  <2>1. Fits(cons, o) /\ faults = 0
    BY <1>0, <1>2 DEF Inv, Planned, Ending
  <2>2. o.op = "msgOpen" => cons.msg = NoIdx
    BY <1>0, <1>2 DEF Inv, Planned
  <2>3. /\ o.op \in ReasonOp /\ o.op # "reasonOpen" => cons.reason # NoIdx
        /\ o.op \in MsgOp /\ o.op # "msgOpen" => cons.msg # NoIdx
        /\ o.op \in ToolOp /\ o.op # "toolOpen" => cons.acc[o.tool].added
    BY <2>1 DEF Fits, ReasonOp, MsgOp, ToolOp
  <2> QED BY <1>2, <2>1, <2>2, <2>3 DEF Fits
<1>3. CASE cons.pc = "closing"
  <2>1. /\ o.op \in Closers \cup {"end"} /\ (o.op = "end" <=> Len(cons.todo) = 1)
    <3>1. \A i \in 1..Len(cons.todo) : IF i = Len(cons.todo) THEN cons.todo[i].op = "end" ELSE cons.todo[i].op \in Closers
      BY <1>3 DEF Inv, Ending, EndPlan
    <3>2. 1 \in 1..Len(cons.todo) /\ "end" \notin Closers
      BY <1>0 DEF Closers
    <3> QED BY <1>0, <3>1, <3>2
  <2>2. ASSUME faults = 0
        PROVE  /\ o.op = "reasonClose" => cons.reason # NoIdx
               /\ o.op = "msgClose" => cons.msg # NoIdx
               /\ o.op = "toolClose" => cons.acc[o.tool].added /\ ~cons.acc[o.tool].done
               /\ o.op = "rawEnd" => \E k \in DOMAIN cons.raw : cons.raw[k] = o.tool
    <3>1. Covers(cons)
      BY <1>3, <2>2 DEF Inv, Ending
    <3>2. Has(cons.todo, o.op, o.tool) /\ o.tool \in Int
      <4>1. 1 \in DOMAIN cons.todo
        BY <1>0 DEF State
      <4> QED BY <1>0, <4>1 DEF Has, Op
    <3> QED BY <3>1, <3>2 DEF Covers, OpenTools
  <2>3. "end" \notin ReasonOp \cup MsgOp \cup ToolOp
    BY DEF ReasonOp, MsgOp, ToolOp
  <2> QED BY <1>3, <2>1, <2>2, <2>3 DEF Closers, ReasonOp, MsgOp, ToolOp
<1> QED BY <1>1, <1>2, <1>3

\* A step of a log that does not fail.
LEMMA EmitMeets ==
    ASSUME Inv, NEW o, NEW f, EmitStep(o, f), faults = 0
    PROVE  LogStep(o, f)
<1>0. /\ Writes(cons, o, f) /\ cons \in State /\ o \in Op /\ Tracked
      /\ o.op \in ToolOp => o.tool \in Tools
  BY DEF EmitStep, Inv
<1>1. /\ o.op = "reasonOpen" => cons.reason = NoIdx
      /\ o.op = "msgOpen" => cons.reason = NoIdx /\ cons.msg = NoIdx
      /\ o.op \in ReasonOp /\ o.op # "reasonOpen" => cons.reason # NoIdx
      /\ o.op \in MsgOp /\ o.op # "msgOpen" => cons.msg # NoIdx
      /\ o.op = "toolOpen" => cons.acc[o.tool].idx # NoIdx /\ ~cons.acc[o.tool].added
      /\ o.op \in ToolOp /\ o.op # "toolOpen" => cons.acc[o.tool].added
      /\ o.op = "toolClose" => ~cons.acc[o.tool].done
      /\ o.op = "rawEnd" => \E k \in DOMAIN cons.raw : cons.raw[k] = o.tool
      /\ o.op = "itemClose" => cons.pc = "run"
  BY EmitFits
<1>2. o.op \in ToolOp => cons.acc[o.tool].idx # NoIdx
  <2>1. ASSUME o.op \in ToolOp, o.op # "toolOpen" PROVE cons.acc[o.tool].idx # NoIdx
    BY <1>0, <1>1, <2>1 DEF Tracked, Calls
  <2> QED BY <1>1, <2>1
<1>3. ASSUME o.op \in ReasonOp, o.op # "reasonOpen" PROVE Open(log, f.kind, f.idx)
  BY <1>0, <1>1, <1>3 DEF Tracked, Items, Writes
<1>4. ASSUME o.op \in MsgOp, o.op # "msgOpen" PROVE Open(log, f.kind, f.idx)
  BY <1>0, <1>1, <1>4 DEF Tracked, Items, Writes
<1>5. ASSUME o.op = "rawEnd" PROVE Open(log, f.kind, f.idx)
  <2>1. f.kind = "raw" /\ f.idx = o.tool
    BY <1>0, <1>5 DEF Writes, RawOp
  <2> QED BY <1>0, <1>1, <1>5, <2>1 DEF Tracked, Items
<1>6. ASSUME o.op = "itemClose" PROVE Open(log, f.kind, f.idx)
  <2>1. f.kind = "special" /\ f.idx = cons.out - 1
    BY <1>0, <1>6 DEF Writes, ItemOp
  <2>2. cons.todo # <<>> /\ cons.todo[1].op = "itemClose"
    BY <1>6 DEF EmitStep
  <2> QED BY <1>0, <1>1, <1>6, <2>1, <2>2 DEF Tracked, Items
<1>7. ASSUME o.op = "toolClose" PROVE Open(log, f.kind, f.idx)
  <2>1. o.op \in ToolOp
    BY <1>7 DEF ToolOp
  <2>2. f.kind = "function_call" /\ f.idx = cons.acc[o.tool].idx /\ o.tool \in Tools
    BY <1>0, <2>1 DEF Writes
  <2> QED BY <1>0, <1>1, <1>7, <2>1, <2>2 DEF Tracked, Calls
<1>8. ASSUME o.op \in ToolOp, o.op # "toolOpen"
      PROVE  \E i \in DOMAIN log : log[i].ev = "added" /\ log[i].kind = f.kind /\ log[i].idx = f.idx
  BY <1>0, <1>1, <1>8 DEF Tracked, Calls, Writes
<1>9. ASSUME f.ev \in ItemEvents, o.op \notin NewIndex, o.op # "toolOpen"
      PROVE  \E i \in DOMAIN log : log[i].ev = "added" /\ log[i].kind = f.kind /\ log[i].idx = f.idx
  <2>1. o.op \in (ReasonOp \ {"reasonOpen"}) \cup (MsgOp \ {"msgOpen"}) \cup (ToolOp \ {"toolOpen"})
                 \cup {"rawEnd", "itemClose"} \cup {"created", "end"}
    BY <1>0, <1>9 DEF Op, Ops, NewIndex, ReasonOp, MsgOp, ToolOp
  <2>2. o.op \notin {"created", "end"}
    <3>1. o.op = "end" => o.st \in {"completed", "incomplete", "failed"}
      BY <1>0 DEF EmitStep, Op
    <3> QED BY <1>0, <1>9, <3>1 DEF Writes, ItemEvents
  <2>3. \A k, x : Open(log, k, x) => \E i \in DOMAIN log : log[i].ev = "added" /\ log[i].kind = k /\ log[i].idx = x
    BY DEF Open
  <2> QED BY <1>3, <1>4, <1>5, <1>6, <1>8, <2>1, <2>2, <2>3
<1>10. ASSUME f.ev = "done", o.op # "rawClose" PROVE Open(log, f.kind, f.idx)
  <2>1. o.op \in Doners
    <3>1. /\ o.op \in Adders \cup Deltas \cup Doners \cup {"created", "end", "argsDone"}
          /\ o.op = "end" => o.st \in {"completed", "incomplete", "failed"}
      BY <1>0 DEF EmitStep, Op, Ops, Adders, Deltas, Doners
    <3> QED BY <1>0, <1>10, <3>1 DEF Writes
  <2>2. o.op \in {"reasonClose", "msgClose", "toolClose", "rawEnd", "itemClose"}
    BY <1>10, <2>1 DEF Doners
  <2> QED BY <1>3, <1>4, <1>5, <1>6, <1>7, <2>2 DEF ReasonOp, MsgOp
<1>11. Meets(o, f)
  BY <1>0, <1>1, <1>2, <1>9, <1>10 DEF Meets, ToolOp
<1> QED BY <1>0, <1>11 DEF EmitStep, LogStep

\* The rest of a chunk fits the fields after its first event.
LEMMA EmitPlanned ==
    ASSUME Inv, NEW o, NEW f, EmitStep(o, f)
    PROVE  Planned'
<1> SUFFICES ASSUME cons'.pc = "run" PROVE Planned'
  BY DEF Planned
<1> DEFINE n == Len(cons.todo)
           q == cons.todo
           r == cons'.todo
<1>0. /\ cons.pc = "run" /\ n \in Nat \ {0} /\ Len(r) = n - 1 /\ o = q[1]
      /\ \A i \in 1..(n - 1) : r[i] = q[i + 1]
      /\ Step(cons, o, cons') /\ cons.out \in Nat
  <2>1. cons.pc = "run"
    BY DEF EmitStep
  <2>2. cons.out \in Nat
    BY DEF EmitStep, State
  <2> QED BY <2>1, <2>2 DEF EmitStep
<1>1. /\ \A i \in 1..n : q[i].op \in ToolOp => q[i].tool \in Tools
      /\ \A i \in 1..n : i < n => Follows(q[i], q[i + 1])
      /\ Fits(cons, o)
      /\ q[n].op \in {"created", "msgDelta", "reasonDelta", "toolDelta", "toolClose", "itemClose", "rawOpen", "rawClose"}
      /\ \A i \in 1..n : q[i].op = "msgOpen" => cons.msg = NoIdx
      /\ \A t \in Tools :
            /\ cons.acc[t].idx # NoIdx /\ ~cons.acc[t].added => q[1].op = "toolOpen" /\ q[1].tool = t
            /\ cons.acc[t].argsDone /\ ~cons.acc[t].done => q[n].op = "toolClose" /\ q[n].tool = t
            /\ cons.acc[t].done => cons.acc[t].final
  BY <1>0 DEF Inv, Planned
<1> HIDE DEF n, q, r
<1>2. /\ \A i \in 1..(n - 1) : r[i].op \in ToolOp => r[i].tool \in Tools
      /\ \A i \in 1..(n - 1) : i < n - 1 => Follows(r[i], r[i + 1])
  <2>1. \A i \in 1..(n - 1) : i + 1 \in 1..n
    BY <1>0
  <2>2. ASSUME NEW i \in 1..(n - 1), i < n - 1 PROVE Follows(r[i], r[i + 1])
    <3>1. i + 1 \in 1..n /\ i + 1 < n /\ i + 1 \in 1..(n - 1)
      BY <1>0, <2>2
    <3> QED BY <1>0, <1>1, <3>1
  <2> QED BY <1>0, <1>1, <2>1, <2>2
<1>3. ASSUME n - 1 > 0
      PROVE  /\ Fits(cons', r[1])
             /\ r[n - 1].op \in {"created", "msgDelta", "reasonDelta", "toolDelta", "toolClose", "itemClose", "rawOpen", "rawClose"}
  <2>1. r[1] = q[2] /\ Follows(o, q[2]) /\ r[n - 1] = q[n]
    <3>1. 1 \in 1..(n - 1) /\ (n - 1) \in 1..(n - 1) /\ 1 \in 1..n /\ 1 < n
      BY <1>0, <1>3
    <3>2. Follows(q[1], q[1 + 1]) /\ r[1] = q[1 + 1] /\ r[n - 1] = q[(n - 1) + 1]
      BY <1>0, <1>1, <3>1
    <3> QED BY <1>0, <3>2
  <2>2. 2 \in 1..n
    BY <1>0, <1>3
  <2>3. q[2].op \in ToolOp => q[2].tool \in Tools
    BY <1>1, <2>2
  <2> DEFINE p == q[2]
  <2>4. p.op \in {"reasonEmpty", "reasonDelta", "reasonClose", "msgOpen", "msgDelta", "toolDelta", "toolClose", "itemClose", "itemOpen"}
    BY <2>1 DEF Follows
  <2>5. p.op \in {"reasonEmpty", "reasonDelta", "reasonClose"} => cons'.reason # NoIdx
    <3>1. ASSUME p.op \in {"reasonEmpty", "reasonDelta"} PROVE cons'.reason # NoIdx
      <4>1. o.op = "reasonOpen"
        BY <2>1, <3>1 DEF Follows
      <4>2. cons'.reason = cons.out
        BY <1>0, <4>1 DEF Step
      <4> QED BY <1>0, <4>2 DEF NoIdx
    <3>2. ASSUME p.op = "reasonClose" PROVE cons'.reason # NoIdx
      <4>1. o.op = "reasonEmpty"
        BY <2>1, <3>2 DEF Follows
      <4>2. cons'.reason = cons.reason
        BY <1>0, <4>1 DEF Step
      <4> QED BY <1>1, <4>1, <4>2 DEF Fits
    <3> QED BY <3>1, <3>2
  <2>6. p.op = "msgOpen" => cons'.reason = NoIdx
    <3>1. ASSUME p.op = "msgOpen" PROVE o.op = "reasonClose"
      BY <2>1, <3>1 DEF Follows
    <3> QED BY <1>0, <3>1 DEF Step
  <2>7. p.op = "msgDelta" => cons'.msg # NoIdx
    <3>1. ASSUME p.op = "msgDelta" PROVE o.op = "msgOpen"
      BY <2>1, <3>1 DEF Follows
    <3>2. cons.out # NoIdx
      BY <1>0 DEF NoIdx
    <3> QED BY <1>0, <3>1, <3>2 DEF Step
  <2>8. p.op = "toolDelta" => cons'.acc[p.tool].added
    <3>1. ASSUME p.op = "toolDelta" PROVE o.op = "toolOpen" /\ o.tool = p.tool /\ p.tool \in Tools
      BY <2>1, <2>3, <3>1 DEF Follows, ToolOp
    <3> QED BY <1>0, <3>1 DEF Step
  <2>9. ASSUME p.op = "toolClose" PROVE cons'.acc[p.tool].added /\ ~cons'.acc[p.tool].done /\ cons'.acc[p.tool].final
    <3>1. o.op = "argsDone" /\ o.tool = p.tool /\ p.tool \in Tools
      BY <2>1, <2>3, <2>9 DEF Follows, ToolOp
    <3>2. cons.acc[p.tool].added /\ ~cons.acc[p.tool].done /\ cons.acc[p.tool].final
      BY <1>1, <3>1 DEF Fits
    <3> QED BY <1>0, <3>1, <3>2 DEF Step, Kept
  <2>10. p.op = "itemClose" => cons'.out > 0
    <3>1. ASSUME p.op = "itemClose" PROVE o.op = "itemOpen"
      BY <2>1, <3>1 DEF Follows
    <3>2. o.op = "itemOpen" => cons'.out = cons.out + 1
      BY <1>0 DEF Step, NewIndex
    <3> QED BY <1>0, <3>1, <3>2
  <2> HIDE DEF p
  <2>11. Fits(cons', p)
    BY <2>4, <2>5, <2>6, <2>7, <2>8, <2>9, <2>10 DEF Fits
  <2> QED BY <1>1, <2>1, <2>11 DEF p
<1>4. ASSUME NEW i \in 1..(n - 1), r[i].op = "msgOpen" PROVE cons'.msg = NoIdx
  <2>1. i + 1 \in 1..n /\ r[i] = q[i + 1] /\ n - 1 > 0 /\ 1 \in 1..n
    BY <1>0
  <2>2. cons.msg = NoIdx
    BY <1>1, <1>4, <2>1
  <2>3. ASSUME o.op = "msgOpen" PROVE FALSE
    <3>1. Follows(q[1], q[1 + 1])
      BY <1>0, <1>1, <2>1
    <3>2. q[2].op = "msgDelta"
      BY <1>0, <2>3, <3>1 DEF Follows
    <3>3. i + 1 # 2
      BY <1>4, <2>1, <3>2
    <3>4. 2 \in 1..n /\ 2 < n
      BY <1>0, <2>1, <3>3
    <3>5. Follows(q[2], q[2 + 1])
      BY <1>1, <3>4
    <3> QED BY <3>2, <3>5 DEF Follows
  <2> QED BY <1>0, <2>2, <2>3 DEF Step
<1>5. ASSUME NEW t \in Tools
      PROVE  /\ cons'.acc[t].idx # NoIdx /\ ~cons'.acc[t].added => n - 1 > 0 /\ r[1].op = "toolOpen" /\ r[1].tool = t
             /\ cons'.acc[t].argsDone /\ ~cons'.acc[t].done => n - 1 > 0 /\ r[n - 1].op = "toolClose" /\ r[n - 1].tool = t
             /\ cons'.acc[t].done => cons'.acc[t].final
  <2>0. /\ cons'.acc[t].idx = cons.acc[t].idx /\ cons'.acc[t].argsDone = cons.acc[t].argsDone
        /\ cons'.acc[t].final = cons.acc[t].final
        /\ cons'.acc[t].added <=> cons.acc[t].added \/ (o.op = "toolOpen" /\ o.tool = t)
        /\ cons'.acc[t].done <=> cons.acc[t].done \/ (o.op = "toolClose" /\ o.tool = t)
    BY <1>0 DEF Step, Kept
  <2>1. ~(cons'.acc[t].idx # NoIdx /\ ~cons'.acc[t].added)
    BY <1>0, <1>1, <2>0
  <2>2. ASSUME cons'.acc[t].argsDone, ~cons'.acc[t].done
        PROVE  n - 1 > 0 /\ r[n - 1].op = "toolClose" /\ r[n - 1].tool = t
    <3>1. q[n].op = "toolClose" /\ q[n].tool = t /\ ~(o.op = "toolClose" /\ o.tool = t)
      BY <1>1, <2>0, <2>2
    <3>2. n # 1
      BY <1>0, <3>1
    <3>3. n - 1 > 0 /\ (n - 1) \in 1..(n - 1) /\ (n - 1) + 1 = n
      BY <1>0, <3>2
    <3> QED BY <1>0, <3>1, <3>3
  <2>3. cons'.acc[t].done => cons'.acc[t].final
    <3>1. ASSUME o.op = "toolClose", o.tool = t PROVE cons.acc[t].final
      BY <1>1, <3>1 DEF Fits
    <3> QED BY <1>1, <2>0, <3>1
  <2> QED BY <2>1, <2>2, <2>3
<1>6. Len(r) = n - 1
  BY <1>0
<1> QED BY <1>2, <1>3, <1>4, <1>5, <1>6 DEF Planned, r

\* What the end still has to close, after one of its events.
LEMMA EmitCovers ==
    ASSUME Inv, NEW o, NEW f, EmitStep(o, f), cons.pc = "closing", faults = 0
    PROVE  Covers(cons')
<1>0. /\ cons.todo \in Seq(Op) /\ cons.todo # <<>> /\ o = cons.todo[1] /\ cons'.todo = Tail(cons.todo)
      /\ Step(cons, o, cons') /\ Covers(cons) /\ o.op \in Closers \cup {"end"} /\ cons.raw \in Seq(Int)
      /\ o.op \in ToolOp => o.tool \in Tools
  <2>1. Covers(cons)
    BY DEF Inv, Ending
  <2>2. o.op \in Closers \cup {"end"}
    BY EmitFits
  <2> QED BY <2>1, <2>2 DEF EmitStep, State
<1>1. /\ Distinct(cons'.todo)
      /\ \A op, t : Has(cons'.todo, op, t) <=> Has(cons.todo, op, t) /\ ~(o.op = op /\ o.tool = t)
  <2>1. Distinct(cons.todo)
    BY <1>0 DEF Covers
  <2> QED BY <1>0, <2>1, TailHas
<1>2. /\ cons'.reason = IF o.op = "reasonClose" THEN NoIdx ELSE cons.reason
      /\ cons'.msg = IF o.op = "msgClose" THEN NoIdx ELSE cons.msg
      /\ cons'.raw = IF o.op = "rawEnd" THEN RemoveFirst(cons.raw, o.tool) ELSE cons.raw
      /\ \A t \in Tools : /\ cons'.acc[t].added <=> cons.acc[t].added
                          /\ cons'.acc[t].done <=> cons.acc[t].done \/ (o.op = "toolClose" /\ o.tool = t)
  BY <1>0 DEF Step, Closers
<1>3. o.tool \in Int /\ Has(cons.todo, o.op, o.tool)
  <2>1. 1 \in DOMAIN cons.todo /\ cons.todo[1] \in Op
    BY <1>0
  <2> QED BY <1>0, <2>1 DEF Has, Op
<1>4. ASSUME NEW t \in Int
      PROVE  /\ Has(cons'.todo, "reasonClose", t) <=> cons'.reason # NoIdx /\ t = NoIdx
             /\ Has(cons'.todo, "msgClose", t) <=> cons'.msg # NoIdx /\ t = NoIdx
             /\ Has(cons'.todo, "toolClose", t) <=> t \in OpenTools(cons')
             /\ Has(cons'.todo, "rawEnd", t) <=> \E k \in DOMAIN cons'.raw : cons'.raw[k] = t
  <2>0. /\ Has(cons.todo, "reasonClose", t) <=> cons.reason # NoIdx /\ t = NoIdx
        /\ Has(cons.todo, "msgClose", t) <=> cons.msg # NoIdx /\ t = NoIdx
        /\ Has(cons.todo, "toolClose", t) <=> t \in OpenTools(cons)
        /\ Has(cons.todo, "rawEnd", t) <=> \E k \in DOMAIN cons.raw : cons.raw[k] = t
    BY <1>0 DEF Covers
  <2>1. Has(cons'.todo, "reasonClose", t) <=> cons'.reason # NoIdx /\ t = NoIdx
    <3>1. o.op = "reasonClose" => o.tool = NoIdx
      BY <1>0, <1>3 DEF Covers
    <3> QED BY <1>1, <1>2, <2>0, <3>1
  <2>2. Has(cons'.todo, "msgClose", t) <=> cons'.msg # NoIdx /\ t = NoIdx
    <3>1. o.op = "msgClose" => o.tool = NoIdx
      BY <1>0, <1>3 DEF Covers
    <3> QED BY <1>1, <1>2, <2>0, <3>1
  <2>3. Has(cons'.todo, "toolClose", t) <=> t \in OpenTools(cons')
    BY <1>1, <1>2, <2>0 DEF OpenTools
  <2>4. Has(cons'.todo, "rawEnd", t) <=> \E k \in DOMAIN cons'.raw : cons'.raw[k] = t
    <3>1. CASE o.op # "rawEnd"
      BY <1>1, <1>2, <2>0, <3>1
    <3>2. CASE o.op = "rawEnd"
      <4> DEFINE r == cons'.raw
      <4>1. r = RemoveFirst(cons.raw, o.tool)
        BY <1>2, <3>2
      <4>2. \A a, b \in DOMAIN cons.raw : cons.raw[a] = cons.raw[b] => a = b
        BY DEF Inv, Tracked, Items
      <4> HIDE DEF r
      <4>3. /\ \A i \in DOMAIN r : r[i] # o.tool /\ \E k \in DOMAIN cons.raw : r[i] = cons.raw[k]
            /\ \A k \in DOMAIN cons.raw : cons.raw[k] # o.tool => \E i \in DOMAIN r : r[i] = cons.raw[k]
        BY <1>0, <4>1, <4>2, RemoveFirstOnce
      <4>4. (\E i \in DOMAIN r : r[i] = t) <=> t # o.tool /\ \E k \in DOMAIN cons.raw : cons.raw[k] = t
        BY <4>3
      <4> QED BY <1>1, <2>0, <3>2, <4>4 DEF r
    <3> QED BY <3>1, <3>2
  <2> QED BY <2>1, <2>2, <2>3, <2>4
<1> QED BY <1>1, <1>4 DEF Covers

\* The end of the stream.
LEMMA EmitEnding ==
    ASSUME Inv, NEW o, NEW f, EmitStep(o, f)
    PROVE  Ending'
<1> DEFINE n == Len(cons.todo)
           q == cons.todo
           r == cons'.todo
<1>0. /\ n \in Nat \ {0} /\ Len(r) = n - 1 /\ o = q[1] /\ \A i \in 1..(n - 1) : r[i] = q[i + 1]
      /\ cons'.invalid = cons.invalid /\ cons'.why = cons.why /\ faults' = faults /\ cfg' = cfg
      /\ n = 1 => /\ r = <<>> /\ cons'.frames = {} /\ cons'.pc = IF cons.pc = "closing" THEN "ended" ELSE cons.pc
      /\ n # 1 => r # <<>> /\ cons'.frames = cons.frames \cup {Len(log) + 1} /\ cons'.pc = cons.pc
      /\ Appended(f) /\ Writes(cons, o, f) /\ log' \in Seq(Frame) /\ Len(log') = Len(log) + 1
      /\ cons.pc \in {"run", "closing"}
  <2>1. cons.pc \in {"run", "closing"}
    BY EmitFits
  <2> QED BY <2>1 DEF EmitStep, Step, Kept
<1>1. cons'.pc = "closing" \/ cons'.pc = "ended" => cons.pc = "closing"
  BY <1>0
<1>2. \A s : Fair(cons, s, faults, cfg.strict) => Fair(cons', s, faults', cfg'.strict)
  BY <1>0 DEF Fair
<1>3. ASSUME cons.pc = "closing"
      PROVE  /\ Fair(cons, q[n].st, faults, cfg.strict)
             /\ \A i \in 1..n : IF i = n THEN q[i].op = "end" ELSE q[i].op \in Closers
             /\ \A i \in 1..n : q[i].op = "toolClose" => q[i].tool \in Tools
             /\ \A i \in cons.frames : ~HasContent(log[i])
             /\ cons.frames \subseteq DOMAIN log
  BY <1>3 DEF Inv, Ending, EndPlan, TypeOK
<1> HIDE DEF n, q, r
<1>4. ASSUME cons'.pc = "closing"
      PROVE  EndPlan(cons', faults', cfg'.strict) /\ \A i \in cons'.frames : ~HasContent(log'[i])
  <2>1. n # 1 /\ n - 1 > 0 /\ cons.pc = "closing"
    BY <1>0, <1>4
  <2>2. r[n - 1] = q[n] /\ \A i \in 1..(n - 1) : i + 1 \in 1..n /\ r[i] = q[i + 1]
    <3>1. (n - 1) \in 1..(n - 1) /\ (n - 1) + 1 = n
      BY <1>0, <2>1
    <3> QED BY <1>0, <3>1
  <2>3. \A i \in 1..(n - 1) : IF i = n - 1 THEN r[i].op = "end" ELSE r[i].op \in Closers
    BY <1>0, <1>3, <2>1, <2>2
  <2>4. \A i \in 1..(n - 1) : r[i].op = "toolClose" => r[i].tool \in Tools
    BY <1>3, <2>1, <2>2
  <2>5. Fair(cons', r[n - 1].st, faults', cfg'.strict)
    BY <1>2, <1>3, <2>1, <2>2
  <2>6. ~HasContent(f)
    <3>1. o.op \in Closers
      <4>1. 1 \in 1..n /\ 1 # n
        BY <1>0, <2>1
      <4> QED BY <1>0, <1>3, <2>1, <4>1
    <3>2. f.ev = "done"
      BY <1>0, <3>1 DEF Writes, Closers, Doners
    <3> QED BY <3>2 DEF HasContent
  <2>7. ASSUME NEW i \in cons'.frames PROVE ~HasContent(log'[i])
    <3>1. CASE i \in cons.frames
      BY <1>0, <1>3, <2>1, <3>1 DEF Appended
    <3>2. CASE i = Len(log) + 1
      BY <1>0, <2>6, <3>2 DEF Appended
    <3> QED BY <1>0, <2>1, <2>7, <3>1, <3>2
  <2> QED BY <1>0, <2>1, <2>3, <2>4, <2>5, <2>7 DEF EndPlan, r
<1>5. cons'.pc \in {"ended", "raised", "gone"} => r = <<>>
  BY <1>0
<1>6. r = <<>> => cons'.frames = {}
  BY <1>0
<1>7. ASSUME cons'.pc = "ended" PROVE log' # <<>> /\ Fair(cons', log'[Len(log')].ev, faults', cfg'.strict)
  <2>1. n = 1 /\ cons.pc = "closing"
    BY <1>0, <1>7
  <2>2. o.op = "end" /\ q[n] = o
    BY <1>0, <1>3, <2>1
  <2>3. f.ev = o.st
    BY <1>0, <2>2 DEF Writes
  <2>4. log'[Len(log')] = f /\ log' # <<>>
    BY <1>0 DEF Appended
  <2>5. Fair(cons, o.st, faults, cfg.strict)
    BY <1>3, <2>1, <2>2
  <2> QED BY <1>2, <2>3, <2>4, <2>5
<1>8. cons'.pc = "run" => faults' = 0
  <2>1. cons.pc = "run" => faults = 0
    BY EmitFits
  <2> QED BY <1>0, <2>1
<1>9. ASSUME cons'.pc \in {"closing", "ended"}, faults' = 0 PROVE Covers(cons')
  BY <1>0, <1>1, <1>9, EmitCovers
<1> QED BY <1>4, <1>5, <1>6, <1>7, <1>8, <1>9 DEF Ending, r

\* Emit keeps the invariant.
LEMMA EmitInv ==
    ASSUME Inv, Emit
    PROVE  Inv'
<1> DEFINE o == cons.todo[1]
<1>1. PICK f : EmitStep(o, f)
  BY EmitIs
<1> HIDE DEF o
<1>2. TypeOK'
  <2>1. TypeOK /\ log' \in Seq(Frame) /\ cons' \in State /\ UNCHANGED <<cfg, up, produced, queue, timer, watch, faults>>
    BY <1>1 DEF EmitStep, Inv
  <2>2. \A i \in DOMAIN log : i \in DOMAIN log'
    BY <1>1 DEF EmitStep, Appended
  <2>3. (Len(log) + 1) \in DOMAIN log'
    BY <1>1 DEF EmitStep, Appended
  <2>4. shown \subseteq DOMAIN log /\ cons.frames \subseteq DOMAIN log
    BY <2>1 DEF TypeOK
  <2>5. shown' \subseteq DOMAIN log' /\ cons'.frames \subseteq DOMAIN log'
    BY <1>1, <2>2, <2>3, <2>4 DEF EmitStep
  <2> QED BY <2>1, <2>5 DEF TypeOK
<1>3. Planned' /\ Ending'
  BY <1>1, EmitPlanned, EmitEnding
<1>4. Queued'
  <2> SUFFICES ASSUME cons'.pc = "run" PROVE Queued'
    BY DEF Queued
  <2>1. cons.pc = "run" /\ UNCHANGED <<cfg, up, queue>>
    BY <1>1 DEF EmitStep
  <2>2. \A t \in Tools : cons'.acc[t].idx = cons.acc[t].idx /\ cons'.acc[t].final = cons.acc[t].final
    BY <1>1 DEF EmitStep, Step, Kept
  <2>3. cons'.special = cons.special
    BY <1>1 DEF EmitStep, Step, Kept
  <2>4. \A t \in Tools : Known(t)' <=> Known(t)
    BY <2>1, <2>2, <2>3 DEF Known
  <2>5. \A t, i : Announces(queue[i], t)' <=> Announces(queue[i], t)
    BY <2>1 DEF Announces
  <2>6. up.open \in Seq(Tools)
    BY DEF Inv, TypeOK
  <2>7. Adapter'
    <3>1. \A i \in DOMAIN up.open : up.open[i] \in Tools
      BY <2>6
    <3> QED BY <2>1, <2>4, <2>5, <3>1 DEF Inv, Queued, Adapter, Announces
  <2>8. Terminators'
    BY <2>1, <2>2, <2>4, <2>5 DEF Inv, Queued, Terminators, Announces
  <2> QED BY <2>1, <2>2, <2>7, <2>8 DEF Inv, Queued, ToolChunks
<1>5. Told'
  <2>0. /\ UNCHANGED <<produced, queue, watch, faults>> /\ Step(cons, o, cons') /\ Writes(cons, o, f) /\ Appended(f)
        /\ cons'.why = cons.why /\ cons'.finish = cons.finish /\ cons'.invalid = cons.invalid
        /\ Told /\ o = cons.todo[1] /\ Len(cons.todo) \in Nat \ {0} /\ cons.todo \in Seq(Op)
        /\ Len(cons'.todo) = Len(cons.todo) - 1 /\ cons'.todo \in Seq(Op)
        /\ \A i \in 1..(Len(cons.todo) - 1) : cons'.todo[i] = cons.todo[i + 1]
    BY <1>1 DEF EmitStep, Step, Kept, Inv, State, o
  <2>1. \A t \in Tools : cons'.acc[t].final /\ ~cons'.acc[t].argsDone => cons'.invalid
    BY <2>0 DEF Told, Step, Kept
  <2>2. ASSUME ~produced
        PROVE  /\ \A i \in DOMAIN log' : log'[i].ev # "added"
               /\ \A i \in DOMAIN cons'.todo : cons'.todo[i].op \in {"created", "end"}
               /\ cons'.reason = NoIdx /\ cons'.msg = NoIdx /\ cons'.raw = <<>>
               /\ \A t \in Tools : ~cons'.acc[t].added
    <3>1. 1 \in DOMAIN cons.todo /\ o.op \in {"created", "end"}
      <4>1. 1 \in DOMAIN cons.todo
        BY <2>0
      <4> QED BY <2>0, <2>2, <4>1 DEF Told
    <3>2. f.ev # "added"
      <4>1. o.op = "end" => o.st \in {"completed", "incomplete", "failed"}
        BY <1>1 DEF EmitStep, Op
      <4> QED BY <2>0, <3>1, <4>1 DEF Writes
    <3>3. \A i \in DOMAIN log' : log'[i].ev # "added"
      BY <2>0, <2>2, <3>2 DEF Appended, Told
    <3>4. \A i \in DOMAIN cons'.todo : cons'.todo[i].op \in {"created", "end"}
      <4> TAKE i \in DOMAIN cons'.todo
      <4>1. i \in 1..(Len(cons.todo) - 1) /\ (i + 1) \in DOMAIN cons.todo
        BY <2>0
      <4> QED BY <2>0, <2>2, <4>1 DEF Told
    <3>5. cons'.reason = NoIdx /\ cons'.msg = NoIdx /\ cons'.raw = <<>> /\ \A t \in Tools : ~cons'.acc[t].added
      BY <2>0, <2>2, <3>1 DEF Told, Step
    <3> QED BY <3>3, <3>4, <3>5
  <2>3. cons'.pc \in {"closing", "ended"} => cons.pc \in {"closing", "ended"}
    BY <1>1 DEF EmitStep
  <2>4. produced' = produced /\ queue' = queue /\ watch' = watch
    BY <2>0
  <2>5. cons'.pc \in {"closing", "ended"} /\ cons'.why = "none" => cons'.finish \/ watch' = "off"
    BY <2>0, <2>3, <2>4 DEF Told
  <2>6. cons'.why \in {"first_token", "connect"} => ~produced'
    BY <2>0, <2>4 DEF Told
  <2>7. cons'.pc = "run" => cons'.why = "none"
    <3>1. cons'.pc = "run" => cons.pc = "run"
      BY <1>1 DEF EmitStep
    <3> QED BY <2>0, <3>1 DEF Told
  <2> QED BY <2>0, <2>1, <2>2, <2>4, <2>5, <2>6, <2>7 DEF Told
<1>6. ASSUME faults' = 0 PROVE Tracked'
  <2>1. faults = 0 /\ Tracked
    BY <1>1, <1>6 DEF EmitStep, Inv
  <2>2. LogStep(o, f)
    BY <1>1, <2>1, EmitMeets
  <2>3. Numbered' /\ AddedFirst' /\ EachOnce' /\ ReasoningFirst' /\ Calls'
    BY <2>1, <2>2, NumberedStep, RulesStep, CallsStep
  <2>4. /\ cons.pc \in {"run", "closing"} /\ (cons.pc = "closing" => o.op \in Closers \cup {"end"})
        /\ Len(cons.todo) \in Nat \ {0} /\ o = cons.todo[1]
        /\ cons.todo \in Seq(Op) /\ Step(cons, o, cons') /\ cons.out \in Nat
    <3>1. cons.out \in Nat
      BY <1>1 DEF EmitStep, State
    <3> QED BY <1>1, <3>1, EmitFits DEF EmitStep, State
  <2>5. ASSUME cons'.pc = "run", cons'.todo # <<>>
        PROVE  cons.pc = "run" /\ cons'.todo[1] = cons.todo[2] /\ Follows(o, cons.todo[2])
    <3>1. cons.pc = "run" /\ Len(cons.todo) # 1
      BY <1>1, <2>5 DEF EmitStep
    <3>2. 1 \in 1..Len(cons.todo) /\ 1 < Len(cons.todo) /\ 1 \in 1..(Len(cons.todo) - 1)
      <4>1. \A k \in Nat \ {0} : k # 1 => 1 \in 1..k /\ 1 < k /\ 1 \in 1..(k - 1)
        OBVIOUS
      <4> QED BY <2>4, <3>1, <4>1, Zenon
    <3>3. cons'.todo[1] = cons.todo[1 + 1]
      BY <1>1, <3>2 DEF EmitStep
    <3>4. Follows(cons.todo[1], cons.todo[1 + 1])
      <4>1. \A i \in 1..Len(cons.todo) : i < Len(cons.todo) => Follows(cons.todo[i], cons.todo[i + 1])
        BY <3>1 DEF Inv, Planned
      <4> QED BY <3>2, <4>1
    <3> QED BY <2>4, <3>1, <3>3, <3>4
  <2>6. Items'
    <3>1. ASSUME cons'.pc = "run", cons'.todo # <<>>, cons'.todo[1].op = "itemClose"
          PROVE  Open(log', "special", cons'.out - 1)
      <4>1. o.op = "itemOpen"
        BY <2>5, <3>1 DEF Follows
      <4>2. f.ev = "added" /\ f.kind = "special" /\ f.idx = cons.out /\ cons'.out = cons.out + 1
        BY <2>2, <2>4, <4>1 DEF LogStep, Writes, Step, Adders, ItemOp, NewIndex
      <4>3. Open(log', f.kind, f.idx)
        BY <2>1, <2>2, <4>2, OpenStarts
      <4>4. cons'.out - 1 = f.idx
        BY <2>4, <4>2
      <4> QED BY <4>2, <4>3, <4>4
    <3>2. /\ cons'.reason # NoIdx => Open(log', "reasoning", cons'.reason)
          /\ cons'.msg # NoIdx => Open(log', "message", cons'.msg)
          /\ \A i, k \in DOMAIN cons'.raw : cons'.raw[i] = cons'.raw[k] => i = k
          /\ \A i \in DOMAIN cons'.raw : Open(log', "raw", cons'.raw[i])
      BY <2>1, <2>2, ItemsStep
    <3> QED BY <3>1, <3>2 DEF Items
  <2>7. Listed'
    <3>1. o.op # "itemClose" \/ cons.pc = "run"
      BY <2>4 DEF Closers
    <3>2. ASSUME o.op = "itemOpen" PROVE cons'.pc = "run" /\ cons'.todo # <<>> /\ cons'.todo[1].op = "itemClose"
      <4>1. cons.pc = "run"
        BY <2>4, <3>2 DEF Closers
      <4>2. Len(cons.todo) # 1
        BY <2>4, <3>2, <4>1 DEF Inv, Planned
      <4>3. cons'.pc = "run" /\ cons'.todo # <<>>
        BY <1>1, <4>1, <4>2 DEF EmitStep
      <4> QED BY <2>5, <3>2, <4>3 DEF Follows
    <3> QED BY <2>1, <2>2, <2>4, <3>1, <3>2, ListedStep
  <2> QED BY <2>3, <2>6, <2>7 DEF Tracked
<1> QED BY <1>2, <1>3, <1>4, <1>5, <1>6 DEF Inv

(***************************************************************************)
(* The end of a stream                                                     *)
(***************************************************************************)
\* The fields that are an account of the log.
SameLists(c, d) == d.out = c.out /\ d.msg = c.msg /\ d.reason = c.reason /\ d.acc = c.acc /\ d.raw = c.raw

\* d is c, except for what Close sets.
SameItems(c, d) ==
    SameLists(c, d) /\ d.special = c.special /\ d.finish = c.finish /\ d.invalid = c.invalid /\ d.frames = c.frames

\* The status of the end fits its reason.
LEMMA StatusIs ==
    ASSUME NEW c, NEW why, NEW k \in Nat, k > 0 => why = "internal"
    PROVE  LET s == Status(c, why) IN
           /\ s \in {"completed", "incomplete", "failed"}
           /\ c.invalid => s # "completed"
           /\ k > 0 => s = "failed"
           /\ why = "none" /\ ~c.invalid => s = "completed"
           /\ cfg.strict /\ why # "none" => s # "completed"
BY DEF Status

\* d is what Close makes of c: what it will write, and that it touches no item.
Closes(c, why, k, d) ==
    /\ d \in State /\ d.pc = "closing" /\ SameItems(c, d) /\ EndPlan(d, k, cfg.strict)
    /\ d.why = IF why = "none" /\ c.invalid THEN "invalid_args" ELSE why
    /\ \A op, t : Has(d.todo, op, t) <=>
          \/ op = "reasonClose" /\ c.reason # NoIdx /\ t = NoIdx
          \/ op = "msgClose" /\ c.msg # NoIdx /\ t = NoIdx
          \/ op = "toolClose" /\ t \in Unfinished(c)
          \/ op = "rawEnd" /\ \E i \in DOMAIN c.raw : c.raw[i] = t
          \/ op = "end" /\ t = NoIdx
    /\ (\A i, j \in DOMAIN c.raw : c.raw[i] = c.raw[j] => i = j) => Distinct(d.todo)

\* _terminal_frames: the events of the end and the fields they start from.
LEMMA CloseIs ==
    ASSUME NEW c \in State, NEW why \in Reasons, NEW k \in Nat, k > 0 => why = "internal", NEW d, d = Close(c, why)
    PROVE  Closes(c, why, k, d)
<1> USE DEF Closes
<1> DEFINE reason == IF why = "none" /\ c.invalid THEN "invalid_args" ELSE why
           s == IF reason = "none" THEN "completed" ELSE "incomplete"
           q == CloseOpenItems(c, s)
           e == DoTool("end", NoIdx, Status(c, why))
<1>0. d = [c EXCEPT !.pc = "closing", !.why = reason, !.todo = q \o <<e>>]
  BY DEF Close
<1>1. /\ q \in Seq(Op)
      /\ \A i \in DOMAIN q : q[i].op \in Closers
      /\ \A op, t : Has(q, op, t) <=>
            \/ op = "reasonClose" /\ c.reason # NoIdx /\ t = NoIdx
            \/ op = "msgClose" /\ c.msg # NoIdx /\ t = NoIdx
            \/ op = "toolClose" /\ t \in Unfinished(c)
            \/ op = "rawEnd" /\ \E i \in DOMAIN c.raw : c.raw[i] = t
      /\ (\A i, j \in DOMAIN c.raw : c.raw[i] = c.raw[j] => i = j) => Distinct(q)
  <2>1. s \in {"completed", "incomplete"}
    OBVIOUS
  <2>2. q = CloseOpenItems(c, s)
    OBVIOUS
  <2> HIDE DEF s, q
  <2> QED BY <2>1, <2>2, ClosePlan
<1>2. /\ Status(c, why) \in {"completed", "incomplete", "failed"}
      /\ c.invalid => Status(c, why) # "completed"
      /\ k > 0 => Status(c, why) = "failed"
      /\ why = "none" /\ ~c.invalid => Status(c, why) = "completed"
      /\ cfg.strict /\ why # "none" => Status(c, why) # "completed"
  BY StatusIs
<1>3. e \in Op /\ e.op = "end" /\ e.tool = NoIdx /\ e.st = Status(c, why)
  BY <1>2 DEF DoTool, Op, Ops, NoIdx
<1>4. reason \in Reasons
  BY DEF Reasons
<1> HIDE DEF q, e, s, reason
<1>5. /\ <<e>> \in Seq(Op) /\ Distinct(<<e>>) /\ \A op, t : Has(<<e>>, op, t) <=> op = "end" /\ t = NoIdx
      /\ Len(<<e>>) = 1 /\ <<e>>[1] = e
  BY <1>3, FewHas
<1> DEFINE r == q \o <<e>>
<1>6. /\ r \in Seq(Op)
      /\ \A op, t : Has(r, op, t) <=> Has(q, op, t) \/ Has(<<e>>, op, t)
      /\ Distinct(q) => Distinct(r)
  <2>1. \A op, t : ~(Has(q, op, t) /\ Has(<<e>>, op, t))
    BY <1>1, <1>5
  <2> QED BY <1>1, <1>5, <2>1, ConcatHas, Zenon
<1>7. /\ Len(r) = Len(q) + 1 /\ Len(q) \in Nat /\ r[Len(q) + 1] = e /\ DOMAIN q = 1..Len(q)
      /\ \A i \in DOMAIN q : r[i] = q[i]
  BY <1>1, <1>5
<1> HIDE DEF r
<1>8. /\ d.pc = "closing" /\ d.why = reason /\ d.todo = r /\ SameItems(c, d)
  BY <1>0 DEF State, SameItems, SameLists, r
<1>9. d \in State
  <2>1. d = [c EXCEPT !.pc = "closing", !.why = reason, !.todo = r]
    BY <1>0 DEF r
  <2> QED BY <1>4, <1>6, <2>1 DEF State
<1>10. EndPlan(d, k, cfg.strict)
  <2>1. Fair(d, e.st, k, cfg.strict)
    <3>1. d.invalid = c.invalid /\ d.why = reason
      BY <1>8 DEF SameItems, SameLists
    <3>2. reason = "none" <=> why = "none" /\ ~c.invalid
      BY DEF reason
    <3> QED BY <1>2, <1>3, <3>1, <3>2 DEF Fair
  <2>2. \A i \in 1..Len(r) : IF i = Len(r) THEN r[i].op = "end" ELSE r[i].op \in Closers
    BY <1>1, <1>3, <1>7
  <2>3. ASSUME NEW i \in 1..Len(r), r[i].op = "toolClose" PROVE r[i].tool \in Tools
    <3>1. i \in DOMAIN q
      BY <1>3, <1>7, <2>3
    <3>2. Has(q, "toolClose", r[i].tool)
      BY <1>7, <2>3, <3>1 DEF Has
    <3>3. r[i].tool \in Unfinished(c)
      BY <1>1, <3>2
    <3> QED BY <3>3 DEF Unfinished, OpenTools
  <2> QED BY <1>7, <1>8, <2>1, <2>2, <2>3 DEF EndPlan
<1>11. \A op, t : Has(r, op, t) <=>
                 \/ op = "reasonClose" /\ c.reason # NoIdx /\ t = NoIdx
                 \/ op = "msgClose" /\ c.msg # NoIdx /\ t = NoIdx
                 \/ op = "toolClose" /\ t \in Unfinished(c)
                 \/ op = "rawEnd" /\ \E i \in DOMAIN c.raw : c.raw[i] = t
                 \/ op = "end" /\ t = NoIdx
  BY <1>1, <1>5, <1>6
<1> QED BY <1>1, <1>6, <1>8, <1>9, <1>10, <1>11 DEF reason

\* The account of the log does not depend on the other fields.
LEMMA TrackedSame ==
    ASSUME Tracked, log' = log, SameLists(cons, cons'), cons.todo = <<>>,
           cons'.pc = "run" /\ cons'.todo # <<>> => cons'.todo[1].op # "itemClose"
    PROVE  Tracked'
<1>1. /\ cons'.out = cons.out /\ cons'.msg = cons.msg /\ cons'.reason = cons.reason
      /\ cons'.acc = cons.acc /\ cons'.raw = cons.raw
  BY DEF SameItems, SameLists
<1>2. Numbered' /\ AddedFirst' /\ EachOnce' /\ ReasoningFirst'
  BY <1>1 DEF Tracked, Numbered, AddedFirst, EachOnce, ReasoningFirst, At, Same
<1>3. Calls'
  BY <1>1 DEF Tracked, Calls
<1>4. Items'
  BY <1>1 DEF Tracked, Items
<1>5. \A i : Done(i)' <=> Done(i)
  BY DEF Done, Same
<1>6. Listed'
  <2> SUFFICES ASSUME NEW i \in DOMAIN log, log[i].ev = "added", ~Done(i)
               PROVE  \/ log[i].kind = "reasoning" /\ log[i].idx = cons.reason
                      \/ log[i].kind = "message" /\ log[i].idx = cons.msg
                      \/ log[i].kind = "function_call" /\ \E t \in Tools : cons.acc[t].added /\ ~cons.acc[t].done /\ cons.acc[t].idx = log[i].idx
                      \/ log[i].kind = "raw" /\ \E k \in DOMAIN cons.raw : cons.raw[k] = log[i].idx
    BY <1>1, <1>5 DEF Listed
  <2> QED BY DEF Tracked, Listed
<1> QED BY <1>2, <1>3, <1>4, <1>6 DEF Tracked

\* Between two chunks: every call that has a number was added, and every call
\* whose arguments are done is done.
LEMMA BetweenIs ==
    ASSUME Inv, Between
    PROVE  /\ cons.pc = "run" /\ cons.todo = <<>> /\ cons.frames = {} /\ faults = 0 /\ Tracked /\ cons \in State
           /\ \A t \in Tools : /\ cons.acc[t].idx # NoIdx <=> cons.acc[t].added
                               /\ cons.acc[t].argsDone => cons.acc[t].done
                               /\ cons.acc[t].done => cons.acc[t].final
<1>1. cons.pc = "run" /\ cons.todo = <<>> /\ Len(cons.todo) = 0 /\ cons \in State
  BY DEF Between, Inv, TypeOK
<1>2. cons.frames = {} /\ faults = 0 /\ Tracked
  BY <1>1 DEF Inv, Ending
<1>3. \A t \in Tools : /\ cons.acc[t].idx # NoIdx => cons.acc[t].added
                       /\ cons.acc[t].argsDone => cons.acc[t].done
                       /\ cons.acc[t].done => cons.acc[t].final
  BY <1>1 DEF Inv, Planned
<1>4. \A t \in Tools : cons.acc[t].added => cons.acc[t].idx # NoIdx
  BY <1>2 DEF Tracked, Calls
<1> QED BY <1>1, <1>2, <1>3, <1>4

\* The reason of a stop, and what it says.
LEMMA StopReason ==
    ASSUME Inv, Stop
    PROVE  \E why \in Reasons : /\ cons' = Close(cons, why)
                                /\ why \in {"first_token", "connect"} => ~produced
                                /\ why = "none" => cons.finish \/ watch = "off"
<1>1. queue # <<>> /\ queue \in Seq(Chunk) /\ produced \in BOOLEAN
  BY DEF Stop, Inv, TypeOK
<1>2. 1 \in DOMAIN queue /\ Head(queue) = queue[1]
  BY <1>1
<1>3. /\ queue[1].type = "first_token" => ~produced
      /\ queue[1].type = "client_cancel" => watch = "off"
  BY <1>2 DEF Inv, Told
<1>4. CASE Head(queue).type \in Timeouts /\ cons' = Close(cons, Head(queue).type)
  BY <1>2, <1>3, <1>4 DEF Reasons, Timeouts
<1>5. CASE cons' = Close(cons, IF produced THEN "truncated" ELSE "connect")
  <2>1. CASE produced
    <3>1. cons' = Close(cons, "truncated") /\ "truncated" \in Reasons
      BY <1>5, <2>1 DEF Reasons
    <3> QED BY <3>1
  <2>2. CASE ~produced
    <3>1. cons' = Close(cons, "connect") /\ "connect" \in Reasons
      BY <1>5, <2>2 DEF Reasons
    <3> QED BY <3>1, <2>2
  <2> QED BY <2>1, <2>2
<1>6. CASE cons' = Close(cons, EndReason)
  <2>1. /\ EndReason \in Reasons
        /\ EndReason \in {"first_token", "connect"} => ~produced
        /\ EndReason = "none" => cons.finish
    BY DEF EndReason, Reasons
  <2> QED BY <1>6, <2>1
<1>7. CASE Head(queue).type = "client_cancel" /\ cons' = Close(cons, "none")
  BY <1>2, <1>3, <1>7 DEF Reasons
<1> QED BY <1>4, <1>5, <1>6, <1>7 DEF Stop

\* The type of the upstream after it was closed.
LEMMA ShutType ==
    ASSUME TypeOK
    PROVE  Shut(up) \in [left : 0..MaxFrames, open : Seq(Tools), closed : SUBSET Tools, begun : SUBSET Tools,
                         finished : BOOLEAN, live : BOOLEAN]
<1>1. 0 \in 0..MaxFrames
  BY PipelineAssumption
<1>2. <<>> \in Seq(Tools)
  OBVIOUS
<1> QED BY <1>1, <1>2 DEF TypeOK, Shut

\* Stop keeps the invariant.
LEMMA StopInv ==
    ASSUME Inv, Stop
    PROVE  Inv'
<1>1. Between /\ queue' = <<>> /\ up' = Shut(up) /\ timer' = "off" /\ UNCHANGED <<cfg, produced, watch, log, shown, faults>>
  BY DEF Stop
<1>2. /\ cons.pc = "run" /\ cons.todo = <<>> /\ cons.frames = {} /\ faults = 0 /\ Tracked /\ cons \in State
      /\ \A t \in Tools : cons.acc[t].argsDone => cons.acc[t].done
  BY <1>1, BetweenIs
<1>3. PICK why \in Reasons : /\ cons' = Close(cons, why)
                             /\ why \in {"first_token", "connect"} => ~produced
                             /\ why = "none" => cons.finish \/ watch = "off"
  BY StopReason
<1> DEFINE d == cons'
<1>4. /\ d \in State /\ d.pc = "closing" /\ SameItems(cons, d) /\ EndPlan(d, 0, cfg.strict)
      /\ d.why = IF why = "none" /\ cons.invalid THEN "invalid_args" ELSE why
      /\ \A op, t : Has(d.todo, op, t) <=>
            \/ op = "reasonClose" /\ cons.reason # NoIdx /\ t = NoIdx
            \/ op = "msgClose" /\ cons.msg # NoIdx /\ t = NoIdx
            \/ op = "toolClose" /\ t \in Unfinished(cons)
            \/ op = "rawEnd" /\ \E i \in DOMAIN cons.raw : cons.raw[i] = t
            \/ op = "end" /\ t = NoIdx
      /\ (\A i, j \in DOMAIN cons.raw : cons.raw[i] = cons.raw[j] => i = j) => Distinct(d.todo)
  <2>1. why \in Reasons /\ cons \in State /\ 0 \in Nat /\ (0 > 0 => why = "internal") /\ cons' = Close(cons, why)
    BY <1>2, <1>3
  <2>2. Closes(cons, why, 0, cons')
    BY <2>1, CloseIs
  <2> QED BY <2>2 DEF Closes
<1>5. d.frames = {} /\ d.acc = cons.acc /\ d.reason = cons.reason /\ d.msg = cons.msg /\ d.raw = cons.raw
      /\ d.invalid = cons.invalid /\ d.finish = cons.finish
  BY <1>2, <1>4 DEF SameItems, SameLists
<1>6. TypeOK'
  <2>1. up' \in [left : 0..MaxFrames, open : Seq(Tools), closed : SUBSET Tools, begun : SUBSET Tools,
                 finished : BOOLEAN, live : BOOLEAN]
    BY <1>1, ShutType DEF Inv
  <2>2. queue' \in Seq(Chunk)
    BY <1>1
  <2> QED BY <1>1, <1>4, <1>5, <2>1, <2>2 DEF Inv, TypeOK
<1>7. Queued' /\ Planned'
  BY <1>4 DEF Queued, Planned
<1>8. Ending'
  <2>1. Covers(d)
    <3>1. \A i, j \in DOMAIN cons.raw : cons.raw[i] = cons.raw[j] => i = j
      BY <1>2 DEF Tracked, Items
    <3>2. Unfinished(cons) = OpenTools(d)
      BY <1>2, <1>5 DEF Unfinished, OpenTools
    <3>3. Distinct(d.todo)
      BY <1>4, <3>1
    <3> HIDE DEF d
    <3>4. \A t \in Int :
             /\ Has(d.todo, "reasonClose", t) <=> d.reason # NoIdx /\ t = NoIdx
             /\ Has(d.todo, "msgClose", t) <=> d.msg # NoIdx /\ t = NoIdx
             /\ Has(d.todo, "toolClose", t) <=> t \in OpenTools(d)
             /\ Has(d.todo, "rawEnd", t) <=> \E k \in DOMAIN d.raw : d.raw[k] = t
      BY <1>4, <1>5, <3>2
    <3> QED BY <3>3, <3>4 DEF Covers
  <2>2. d.todo # <<>>
    <3>1. Has(d.todo, "end", NoIdx)
      BY <1>4
    <3> QED BY <3>1 DEF Has
  <2> QED BY <1>1, <1>2, <1>4, <1>5, <2>1, <2>2 DEF Ending
<1>9. Told'
  <2>1. \A t \in Tools : d.acc[t].final /\ ~d.acc[t].argsDone => d.invalid
    BY <1>5 DEF Inv, Told
  <2>2. ASSUME ~produced PROVE \A i \in DOMAIN d.todo : d.todo[i].op \in {"created", "end"}
    <3>1. cons.reason = NoIdx /\ cons.msg = NoIdx /\ cons.raw = <<>> /\ Unfinished(cons) = {}
      BY <2>2 DEF Inv, Told, Unfinished, OpenTools
    <3>2. DOMAIN cons.raw = {}
      BY <3>1
    <3> TAKE i \in DOMAIN d.todo
    <3>3. Has(d.todo, d.todo[i].op, d.todo[i].tool)
      BY DEF Has
    <3> QED BY <1>4, <3>1, <3>2, <3>3
  <2>3. d.why \in {"first_token", "connect"} => ~produced
    BY <1>3, <1>4
  <2>4. d.why = "none" => d.finish \/ watch = "off"
    BY <1>3, <1>4, <1>5
  <2>5. DOMAIN queue' = {}
    BY <1>1
  <2>6. ~produced => /\ \A i \in DOMAIN log : log[i].ev # "added"
                     /\ cons.reason = NoIdx /\ cons.msg = NoIdx /\ cons.raw = <<>>
                     /\ \A t \in Tools : ~cons.acc[t].added
    BY DEF Inv, Told
  <2>7. d.pc # "run"
    BY <1>4
  <2> QED BY <1>1, <1>5, <2>1, <2>2, <2>3, <2>4, <2>5, <2>6, <2>7 DEF Told
<1>10. Tracked'
  BY <1>1, <1>2, <1>4, TrackedSame DEF SameItems
<1> QED BY <1>6, <1>7, <1>8, <1>9, <1>10 DEF Inv

\* What EmitFails leaves of the consumer's fields, before the stream is closed.
Failed(c) ==
    /\ c \in State /\ c.frames = {} /\ c.acc = cons.acc /\ c.raw = cons.raw /\ c.invalid = cons.invalid
    /\ c.finish = cons.finish /\ c.why = cons.why
    /\ ~produced => c.reason = NoIdx /\ c.msg = NoIdx
    /\ \/ cons' = Close(c, "internal")
       \/ cons' = [c EXCEPT !.pc = "raised", !.todo = <<>>]

\* A failing append sets the fields that go before the event, and no others.
LEMMA EmitFailsIs ==
    ASSUME Inv, EmitFails
    PROVE  \E c : Failed(c)
<1> DEFINE o == Head(cons.todo)
           b == Before(cons, o)
           c == [b EXCEPT !.frames = {}]
<1>1. cons \in State /\ cons.todo # <<>> /\ o \in Op /\ o = cons.todo[1] /\ 1 \in DOMAIN cons.todo
  BY DEF Inv, TypeOK, EmitFails, State
<1>2. /\ b \in State
      /\ b.finish = cons.finish /\ b.invalid = cons.invalid /\ b.why = cons.why /\ b.acc = cons.acc
      /\ b.raw = cons.raw
      /\ b.reason = IF o.op = "reasonOpen" THEN cons.out ELSE cons.reason
      /\ b.msg = IF o.op = "msgOpen" THEN cons.out ELSE cons.msg
  <2> HIDE DEF o
  <2> QED BY <1>1, BeforeStep
<1>3. ~produced => b.reason = NoIdx /\ b.msg = NoIdx
  <2> HIDE DEF o, b
  <2>1. ~produced => o.op \in {"created", "end"} /\ cons.reason = NoIdx /\ cons.msg = NoIdx
    BY <1>1 DEF Inv, Told
  <2> QED BY <1>2, <2>1
<1>4. \/ cons' = Close(c, "internal")
      \/ cons' = [c EXCEPT !.pc = "raised", !.todo = <<>>]
  BY DEF EmitFails
<1> HIDE DEF b
<1>5. /\ c \in State /\ c.frames = {} /\ c.acc = b.acc /\ c.raw = b.raw /\ c.invalid = b.invalid
      /\ c.finish = b.finish /\ c.why = b.why /\ c.reason = b.reason /\ c.msg = b.msg
  BY <1>2 DEF State
<1> HIDE DEF c
<1> QED BY <1>2, <1>3, <1>4, <1>5 DEF Failed

\* A failing append keeps the invariant.
LEMMA EmitFailsInv ==
    ASSUME Inv, EmitFails
    PROVE  Inv'
<1>1. PICK c : Failed(c)
  BY EmitFailsIs
<1>2. /\ queue' = <<>> /\ up' = Shut(up) /\ timer' = "off" /\ UNCHANGED <<cfg, produced, watch, log, shown>>
      /\ faults' = faults + 1 /\ faults < MaxFaults
  BY DEF EmitFails
<1>3. faults' \in 0..MaxFaults /\ faults' \in Nat /\ faults' > 0 /\ faults' # 0
  BY <1>2, PipelineAssumption DEF Inv, TypeOK
<1> DEFINE d == cons'
<1>4. /\ c \in State /\ c.frames = {} /\ c.acc = cons.acc /\ c.raw = cons.raw /\ c.invalid = cons.invalid
      /\ c.finish = cons.finish /\ c.why = cons.why /\ (~produced => c.reason = NoIdx /\ c.msg = NoIdx)
  BY <1>1 DEF Failed
<1>5. /\ d \in State /\ d.frames = {} /\ d.acc = cons.acc /\ d.raw = cons.raw /\ d.invalid = cons.invalid
      /\ d.finish = cons.finish /\ (~produced => d.reason = NoIdx /\ d.msg = NoIdx)
      /\ \/ /\ d.pc = "closing" /\ d.why = "internal" /\ EndPlan(d, faults', cfg.strict)
            /\ ~produced => \A i \in DOMAIN d.todo : d.todo[i].op \in {"created", "end"}
         \/ d.pc = "raised" /\ d.why = cons.why /\ d.todo = <<>>
  <2>1. CASE cons' = Close(c, "internal")
    <3>1. "internal" \in Reasons /\ c \in State /\ (faults' > 0 => "internal" = "internal")
      BY <1>4 DEF Reasons
    <3>2. Closes(c, "internal", faults', cons')
      BY <1>3, <2>1, <3>1, CloseIs
    <3>3. d \in State /\ d.pc = "closing" /\ SameItems(c, d) /\ EndPlan(d, faults', cfg.strict) /\ d.why = "internal"
      BY <3>2 DEF Closes
    <3>4. ASSUME ~produced, NEW i \in DOMAIN d.todo PROVE d.todo[i].op \in {"created", "end"}
      <4>1. Unfinished(c) = {} /\ DOMAIN c.raw = {}
        BY <1>4, <3>4 DEF Inv, Told, Unfinished, OpenTools
      <4>2. Has(d.todo, d.todo[i].op, d.todo[i].tool)
        BY <3>4 DEF Has
      <4> QED BY <1>4, <3>2, <3>4, <4>1, <4>2 DEF Closes
    <3> QED BY <1>4, <3>3, <3>4 DEF SameItems, SameLists
  <2>2. CASE cons' = [c EXCEPT !.pc = "raised", !.todo = <<>>]
    <3>1. <<>> \in Seq(Op)
      OBVIOUS
    <3>2. d \in State
      BY <1>4, <2>2, <3>1 DEF State
    <3>3. /\ d.frames = c.frames /\ d.acc = c.acc /\ d.raw = c.raw /\ d.invalid = c.invalid /\ d.finish = c.finish
          /\ d.reason = c.reason /\ d.msg = c.msg /\ d.pc = "raised" /\ d.why = c.why /\ d.todo = <<>>
      BY <1>4, <2>2 DEF State
    <3> HIDE DEF d
    <3> QED BY <1>4, <3>2, <3>3
  <2> QED BY <1>1, <2>1, <2>2 DEF Failed
<1>6. TypeOK'
  <2>1. up' \in [left : 0..MaxFrames, open : Seq(Tools), closed : SUBSET Tools, begun : SUBSET Tools,
                 finished : BOOLEAN, live : BOOLEAN]
    BY <1>2, ShutType DEF Inv
  <2>2. queue' \in Seq(Chunk)
    BY <1>2
  <2> QED BY <1>2, <1>3, <1>5, <2>1, <2>2 DEF Inv, TypeOK
<1>7. Queued' /\ Planned'
  BY <1>5 DEF Queued, Planned
<1>8. Ending'
  BY <1>2, <1>3, <1>5 DEF Ending, EndPlan
<1>9. Told'
  <2>1. DOMAIN queue' = {} /\ (d.todo = <<>> => DOMAIN d.todo = {})
    BY <1>2
  <2>2. \A t \in Tools : d.acc[t].final /\ ~d.acc[t].argsDone => d.invalid
    BY <1>5 DEF Inv, Told
  <2>3. ~produced => /\ \A i \in DOMAIN log : log[i].ev # "added"
                     /\ cons.raw = <<>> /\ \A t \in Tools : ~cons.acc[t].added
    BY DEF Inv, Told
  <2>4. d.why \in {"first_token", "connect"} => ~produced
    BY <1>5 DEF Inv, Told
  <2> QED BY <1>2, <1>5, <2>1, <2>2, <2>3, <2>4 DEF Told
<1> QED BY <1>3, <1>6, <1>7, <1>8, <1>9 DEF Inv

\* The handler drops the stream: the invariant holds of what it leaves.
LEMMA AcloseInv ==
    ASSUME Inv, Aclose
    PROVE  Inv'
<1>1. /\ Between /\ queue' = <<>> /\ up' = Shut(up) /\ timer' = "off"
      /\ UNCHANGED <<cfg, produced, watch, log, shown, faults>> /\ cons' = [cons EXCEPT !.pc = "gone"]
  BY DEF Aclose
<1>2. cons.pc = "run" /\ cons.todo = <<>> /\ cons.frames = {} /\ faults = 0 /\ Tracked /\ cons \in State
  BY <1>1, BetweenIs
<1>3. cons' \in State
  BY <1>1, <1>2 DEF State
<1>4. /\ cons'.pc = "gone" /\ cons'.todo = <<>> /\ cons'.why = cons.why /\ SameItems(cons, cons')
  BY <1>1, <1>2 DEF State, SameItems, SameLists
<1>5. TypeOK'
  <2>1. up' \in [left : 0..MaxFrames, open : Seq(Tools), closed : SUBSET Tools, begun : SUBSET Tools,
                 finished : BOOLEAN, live : BOOLEAN]
    BY <1>1, ShutType DEF Inv
  <2>2. queue' \in Seq(Chunk)
    BY <1>1
  <2>3. cons'.frames = {}
    BY <1>2, <1>4 DEF SameItems, SameLists
  <2> QED BY <1>1, <1>3, <2>1, <2>2, <2>3 DEF Inv, TypeOK
<1>6. Queued' /\ Planned'
  BY <1>4 DEF Queued, Planned
<1>7. Ending'
  BY <1>1, <1>2, <1>4 DEF Ending, SameItems, SameLists
<1>8. Told'
  <2>1. DOMAIN queue' = {} /\ DOMAIN cons'.todo = {}
    BY <1>1, <1>4
  <2> QED BY <1>1, <1>4, <2>1 DEF Inv, Told, SameItems, SameLists
<1>9. Tracked'
  BY <1>1, <1>2, <1>4, TrackedSame DEF SameItems
<1> QED BY <1>5, <1>6, <1>7, <1>8, <1>9 DEF Inv

(***************************************************************************)
(* The consumer takes a chunk                                              *)
(***************************************************************************)
\* The head of the queue and what is behind it.
LEMMA QueueTail ==
    ASSUME NEW S, NEW q \in Seq(S), q # <<>>
    PROVE  /\ Head(q) = q[1] /\ 1 \in DOMAIN q
           /\ Tail(q) \in Seq(S)
           /\ \A i \in DOMAIN Tail(q) : i \in Nat \ {0} /\ (i + 1) \in DOMAIN q /\ Tail(q)[i] = q[i + 1]
           /\ \A i \in DOMAIN q : i \in Nat /\ (i # 1 => (i - 1) \in DOMAIN Tail(q) /\ Tail(q)[i - 1] = q[i])
<1>1. Len(q) \in Nat /\ Len(q) > 0 /\ DOMAIN q = 1..Len(q) /\ Head(q) = q[1]
  OBVIOUS
<1>2. /\ Tail(q) \in Seq(S) /\ Len(Tail(q)) = Len(q) - 1 /\ DOMAIN Tail(q) = 1..(Len(q) - 1)
      /\ \A i \in 1..(Len(q) - 1) : Tail(q)[i] = q[i + 1]
  BY HeadTailProperties
<1>3. \A i \in 1..(Len(q) - 1) : i \in Nat \ {0} /\ (i + 1) \in 1..Len(q)
  BY <1>1
<1>4. \A i \in 1..Len(q) : i \in Nat /\ (i # 1 => (i - 1) \in 1..(Len(q) - 1) /\ (i - 1) + 1 = i)
  BY <1>1
<1> QED BY <1>1, <1>2, <1>3, <1>4

\* What every Take does beside the consumer's fields.
Takes(h) ==
    /\ Between /\ queue # <<>> /\ h = queue[1] /\ h.type \notin Stops
    /\ queue' = Tail(queue)
    /\ UNCHANGED <<cfg, up, produced, timer, watch, log, shown, faults>>

\* What the consumer's fields have to be after a chunk was taken.
Taken(h) ==
    /\ cons' \in State /\ cons'.pc = "run" /\ cons'.why = cons.why /\ cons'.frames = {}
    /\ \A t \in Tools : /\ cons'.acc[t].final /\ ~cons'.acc[t].argsDone => cons'.invalid
                        /\ cons'.acc[t].final => cons.acc[t].final \/ IsDone(h, t)
                        /\ Known(t) /\ ~IsDone(h, t) => Known(t)'
                        /\ Announces(h, t) => Known(t)'
    /\ Planned' /\ Tracked'

\* The queue behind a chunk that was taken.
LEMMA TakeQueued ==
    ASSUME Inv, NEW h, Takes(h), Taken(h)
    PROVE  Queued'
<1>1. /\ Tail(queue) \in Seq(Chunk) /\ 1 \in DOMAIN queue
      /\ \A i \in DOMAIN queue' : i \in Nat \ {0} /\ (i + 1) \in DOMAIN queue /\ queue'[i] = queue[i + 1]
      /\ \A i \in DOMAIN queue : i \in Nat /\ (i # 1 => (i - 1) \in DOMAIN queue' /\ queue'[i - 1] = queue[i])
  BY QueueTail DEF Inv, TypeOK, Takes
<1>2. Adapter /\ Terminators /\ ToolChunks /\ (\A t \in Tools : cons.acc[t].final => t \in up.closed)
  BY DEF Inv, Queued, Takes, Between
<1>3. up' = up /\ cfg' = cfg /\ h = queue[1]
  BY DEF Takes
<1>4. \A t \in Tools : /\ cons'.acc[t].final => cons.acc[t].final \/ IsDone(h, t)
                       /\ Known(t) /\ ~IsDone(h, t) => Known(t)'
                       /\ Announces(h, t) => Known(t)'
  BY DEF Taken
<1>5. \A t \in Tools : IsDone(h, t) => t \in up.closed
  BY <1>1, <1>2, <1>3 DEF Terminators
<1>6. up.open \in Seq(Tools)
  BY DEF Inv, TypeOK
<1>7. Adapter'
  <2>1. ASSUME NEW i \in DOMAIN up.open, NEW t \in Tools, t = up.open[i]
        PROVE  Known(t)' \/ \E k \in DOMAIN queue' : Announces(queue'[k], t)
    <3>1. ~IsDone(h, t) /\ (Known(t) \/ \E k \in DOMAIN queue : Announces(queue[k], t))
      BY <1>2, <1>5, <2>1 DEF Adapter
    <3>2. CASE Known(t)
      BY <1>4, <3>1, <3>2
    <3>3. CASE \E k \in DOMAIN queue : Announces(queue[k], t)
      <4>1. PICK k \in DOMAIN queue : Announces(queue[k], t)
        BY <3>3
      <4>2. CASE k = 1
        BY <1>3, <1>4, <4>1, <4>2
      <4>3. CASE k # 1
        BY <1>1, <4>1, <4>3
      <4> QED BY <4>2, <4>3
    <3> QED BY <3>1, <3>2, <3>3
  <2>2. \A i \in DOMAIN up.open : up.open[i] \in Tools
    BY <1>6
  <2>3. ASSUME NEW i \in DOMAIN up'.open
        PROVE  Known(up.open[i])' \/ \E k \in DOMAIN queue' : Announces(queue[k], up.open[i])'
    BY <1>3, <2>1, <2>2, <2>3 DEF Known, Announces
  <2> QED BY <1>2, <1>3, <2>3 DEF Adapter
<1>8. Terminators'
  <2> SUFFICES ASSUME NEW i \in DOMAIN queue', NEW t \in Tools, IsDone(queue'[i], t)
               PROVE  /\ t \in up.closed /\ ~cons'.acc[t].final
                      /\ \A k \in DOMAIN queue' : IsDone(queue'[k], t) => k = i
                      /\ Known(t)' \/ \E k \in DOMAIN queue' : k < i /\ Announces(queue'[k], t)
    BY <1>3 DEF Terminators, IsDone, Announces
  <2>1. (i + 1) \in DOMAIN queue /\ IsDone(queue[i + 1], t) /\ i \in Nat \ {0} /\ i + 1 # 1
    BY <1>1
  <2>2. /\ t \in up.closed /\ ~cons.acc[t].final
        /\ \A k \in DOMAIN queue : IsDone(queue[k], t) => k = i + 1
        /\ Known(t) \/ \E k \in DOMAIN queue : k < i + 1 /\ Announces(queue[k], t)
    BY <1>2, <2>1 DEF Terminators
  <2>3. ~IsDone(h, t)
    BY <1>1, <1>3, <2>1, <2>2
  <2>4. \A k \in DOMAIN queue' : IsDone(queue'[k], t) => k = i
    BY <1>1, <2>1, <2>2
  <2>5. CASE \E k \in DOMAIN queue : k < i + 1 /\ Announces(queue[k], t)
    <3>1. PICK k \in DOMAIN queue : k < i + 1 /\ Announces(queue[k], t)
      BY <2>5
    <3>2. CASE k = 1
      BY <1>3, <1>4, <2>2, <2>3, <2>4, <3>1, <3>2
    <3>3. CASE k # 1
      <4>1. (k - 1) \in DOMAIN queue' /\ Announces(queue'[k - 1], t) /\ k - 1 < i
        BY <1>1, <2>1, <3>1, <3>3
      <4> QED BY <1>4, <2>2, <2>3, <2>4, <4>1
    <3> QED BY <3>2, <3>3
  <2>6. CASE Known(t)
    BY <1>4, <2>2, <2>3, <2>4, <2>6
  <2> QED BY <2>2, <2>5, <2>6
<1>9. ToolChunks'
  BY <1>1, <1>2 DEF ToolChunks
<1>10. \A t \in Tools : cons'.acc[t].final => t \in up'.closed
  BY <1>2, <1>3, <1>4, <1>5
<1> QED BY <1>7, <1>8, <1>9, <1>10 DEF Queued

\* A chunk that was taken keeps the invariant.
LEMMA TakeInv ==
    ASSUME Inv, NEW h, Takes(h), Taken(h)
    PROVE  Inv'
<1>1. /\ cons.pc = "run" /\ cons.frames = {} /\ faults = 0
      /\ cons' \in State /\ cons'.pc = "run" /\ cons'.frames = {}
  BY BetweenIs DEF Takes, Taken
<1>2. /\ queue' \in Seq(Chunk) /\ 1 \in DOMAIN queue
      /\ \A i \in DOMAIN queue' : (i + 1) \in DOMAIN queue /\ queue'[i] = queue[i + 1]
  BY QueueTail DEF Inv, TypeOK, Takes
<1>3. TypeOK'
  BY <1>1, <1>2 DEF Inv, TypeOK, Takes
<1>4. Ending'
  BY <1>1 DEF Ending, Takes
<1>5. produced
  BY <1>2 DEF Inv, Told, Takes
<1>6. Told'
  BY <1>1, <1>2, <1>5 DEF Inv, Told, Takes, Taken
<1> QED BY <1>3, <1>4, <1>6, TakeQueued DEF Inv, Taken

\* The events of a chunk that are one of the shapes the consumer uses.
Shape(c, q) ==
    /\ q \in Seq(Op)
    /\ \A i \in 1..Len(q) : q[i].op \in ToolOp => q[i].tool \in Tools
    /\ \A i \in 1..Len(q) : i < Len(q) => Follows(q[i], q[i + 1])
    /\ Len(q) > 0 => Fits(c, q[1]) /\ q[1].op # "itemClose"
                     /\ q[Len(q)].op \in {"created", "msgDelta", "reasonDelta", "toolDelta",
                                          "toolClose", "itemClose", "rawOpen", "rawClose"}
    /\ \A i \in 1..Len(q) : q[i].op = "msgOpen" => c.msg = NoIdx

\* A chunk that only asks for events, or is about a special call, leaves the
\* items alone.
LEMMA TakenLists ==
    ASSUME Inv, NEW h, Takes(h), cons' \in State, cons'.pc = "run", cons'.why = cons.why,
           SameLists(cons, cons'), cons'.invalid = cons.invalid, cons'.frames = cons.frames, Shape(cons', cons'.todo),
           \A t \in Tools : (Known(t) /\ ~IsDone(h, t) => Known(t)') /\ (Announces(h, t) => Known(t)')
    PROVE  Taken(h)
<1>1. /\ cons.pc = "run" /\ cons.todo = <<>> /\ cons.frames = {} /\ faults = 0 /\ Tracked /\ cons \in State
      /\ \A t \in Tools : /\ cons.acc[t].idx # NoIdx <=> cons.acc[t].added
                          /\ cons.acc[t].argsDone => cons.acc[t].done
                          /\ cons.acc[t].done => cons.acc[t].final
  BY BetweenIs DEF Takes
<1>2. log' = log
  BY DEF Takes
<1>3. Len(cons'.todo) \in Nat /\ (cons'.todo # <<>> => Len(cons'.todo) > 0)
  BY DEF Shape
<1>4. Tracked'
  BY <1>1, <1>2, <1>3, TrackedSame DEF Shape
<1>5. Planned'
  BY <1>1 DEF Planned, Shape, SameLists
<1>6. \A t \in Tools : /\ cons'.acc[t].final /\ ~cons'.acc[t].argsDone => cons'.invalid
                       /\ cons'.acc[t].final => cons.acc[t].final
  BY DEF Inv, Told, SameLists
<1> QED BY <1>1, <1>4, <1>5, <1>6 DEF Taken

\* A chunk that only asks for events.
LEMMA TakenSame ==
    ASSUME Inv, NEW h, Takes(h), h.type # "tool_call", cons' \in State, cons'.pc = "run", cons'.why = cons.why,
           SameItems(cons, cons'), Shape(cons', cons'.todo)
    PROVE  Taken(h)
<1>1. \A t \in Tools : (Known(t)' <=> Known(t)) /\ ~Announces(h, t)
  BY DEF Takes, Known, Announces, SameItems, SameLists
<1> QED BY <1>1, TakenLists DEF SameItems

\* Taking the next chunk, whatever is done with it.
LEMMA TakeIs ==
    ASSUME Inv, NEW type, Ready(type), type \notin Stops, NEW c, NEW ops, Take(c, ops)
    PROVE  Takes(queue[1]) /\ queue[1].type = type /\ Head(queue) = queue[1] /\ 1 \in DOMAIN queue /\ cons' = [c EXCEPT !.todo = ops]
<1>1. Head(queue) = queue[1] /\ 1 \in DOMAIN queue
  BY QueueTail DEF Inv, TypeOK, Ready
<1> QED BY <1>1 DEF Ready, Take, Takes

\* Replacing todo, and finish, changes no other field.
LEMMA TodoIs ==
    ASSUME NEW c \in State, NEW q \in Seq(Op), NEW d, d = [c EXCEPT !.todo = q]
    PROVE  /\ d \in State /\ d.todo = q /\ d.pc = c.pc /\ d.why = c.why /\ SameItems(c, d)
<1>1. d \in State
  BY DEF State
<1>2. d.todo = q /\ d.pc = c.pc /\ d.why = c.why /\ SameItems(c, d)
  BY DEF State, SameItems, SameLists
<1> QED BY <1>1, <1>2

\* The operations of a chunk are operations.
LEMMA DoType ==
    /\ \A op \in Ops : Do(op) \in Op /\ Do(op).op = op /\ Do(op).tool = NoIdx
    /\ \A op \in Ops, t \in Int, s \in {"none", "completed", "incomplete", "failed"} :
          DoTool(op, t, s) \in Op /\ DoTool(op, t, s).op = op /\ DoTool(op, t, s).tool = t
<1>1. NoIdx \in Int
  BY DEF NoIdx
<1> QED BY <1>1 DEF Do, DoTool, Op

\* One event more.
LEMMA OneMore ==
    ASSUME NEW r \in Seq(Op), NEW x \in Op, NEW q, q = r \o <<x>>
    PROVE  /\ q \in Seq(Op) /\ Len(q) = Len(r) + 1 /\ q[Len(r) + 1] = x
           /\ \A i \in 1..Len(r) : q[i] = r[i]
<1>1. <<x>> \in Seq(Op) /\ Len(<<x>>) = 1 /\ 1 \in DOMAIN <<x>> /\ <<x>>[1] = x /\ DOMAIN r = 1..Len(r)
  OBVIOUS
<1> QED BY <1>1, Concat

\* A single event.
LEMMA Shape1 ==
    ASSUME NEW c, NEW q \in Seq(Op), Len(q) = 1, q[1].op \notin ToolOp, Fits(c, q[1]),
           q[1].op \in {"msgDelta", "reasonDelta", "rawOpen", "rawClose"}
    PROVE  Shape(c, q)
<1>1. \A i \in 1..Len(q) : i = 1 /\ ~(i < Len(q))
  OBVIOUS
<1> QED BY <1>1 DEF Shape

\* Two events.
LEMMA Shape2 ==
    ASSUME NEW c, NEW q \in Seq(Op), Len(q) = 2, Fits(c, q[1]), Follows(q[1], q[2]), q[1].op # "itemClose",
           q[1].op \in ToolOp => q[1].tool \in Tools, q[2].op \in ToolOp => q[2].tool \in Tools,
           q[2].op \in {"msgDelta", "reasonDelta", "toolDelta", "toolClose", "itemClose"},
           q[1].op = "msgOpen" => c.msg = NoIdx
    PROVE  Shape(c, q)
<1>1. \A i \in 1..Len(q) : i = 1 \/ (i = 2 /\ ~(i < Len(q)))
  OBVIOUS
<1>2. q[2].op # "msgOpen"
  OBVIOUS
<1> QED BY <1>1, <1>2 DEF Shape

\* Three events.
LEMMA Shape3 ==
    ASSUME NEW c, NEW q \in Seq(Op), Len(q) = 3, Fits(c, q[1]), Follows(q[1], q[2]), Follows(q[2], q[3]),
           q[1].op # "itemClose", \A i \in 1..3 : q[i].op \notin ToolOp, q[3].op = "msgDelta", c.msg = NoIdx
    PROVE  Shape(c, q)
<1>1. \A i \in 1..Len(q) : i = 1 \/ i = 2 \/ (i = 3 /\ ~(i < Len(q)))
  OBVIOUS
<1> QED BY <1>1 DEF Shape

\* Text: the reasoning item is closed, or an empty one is written, before the
\* message begins.
LEMMA TakeTextInv ==
    ASSUME Inv, TakeText
    PROVE  Inv'
<1>1. /\ Takes(queue[1]) /\ queue[1].type = "text" /\ cons' = [cons EXCEPT !.todo = TextOps]
  BY TakeIs DEF TakeText, Stops, Timeouts
<1>2. cons \in State /\ cons.pc = "run"
  BY <1>1, BetweenIs DEF Takes
<1> DEFINE a == Do("reasonOpen")
           b == Do("reasonEmpty")
           e == DoTool("reasonClose", NoIdx, "completed")
           m == Do("msgOpen")
           d == Do("msgDelta")
<1>3. /\ a \in Op /\ b \in Op /\ e \in Op /\ m \in Op /\ d \in Op
      /\ a.op = "reasonOpen" /\ b.op = "reasonEmpty" /\ e.op = "reasonClose" /\ m.op = "msgOpen" /\ d.op = "msgDelta"
  <2>1. {"reasonOpen", "reasonEmpty", "reasonClose", "msgOpen", "msgDelta"} \subseteq Ops /\ NoIdx \in Int
    BY DEF Ops, NoIdx
  <2> QED BY <2>1, DoType
<1>4. Shape(cons, TextOps)
  <2> DEFINE q == TextOps
  <2>2. CASE cons.msg # NoIdx
    <3>1. TextOps = <<>> \o <<d>>
      BY <2>2 DEF TextOps
    <3> HIDE DEF d
    <3>2. q \in Seq(Op) /\ Len(q) = 1 /\ q[1] = d
      BY <1>3, <3>1
    <3> HIDE DEF q
    <3>3. Shape(cons, q)
      BY <1>3, <2>2, <3>2, Shape1 DEF Fits, ToolOp
    <3> QED BY <3>3 DEF q
  <2>3. CASE cons.msg = NoIdx /\ cons.reason # NoIdx
    <3>1. TextOps = (<<e>> \o <<m>>) \o <<d>>
      BY <2>3 DEF TextOps, BeforeMessage
    <3> HIDE DEF e, m, d
    <3> DEFINE r == <<e>> \o <<m>>
    <3>2. r \in Seq(Op) /\ Len(r) = 2 /\ r[1] = e /\ r[2] = m
      BY <1>3
    <3>0. q = r \o <<d>>
      BY <3>1
    <3> HIDE DEF r, q
    <3>3. q \in Seq(Op) /\ Len(q) = 3 /\ q[1] = e /\ q[2] = m /\ q[3] = d
      <4>0. r \in Seq(Op) /\ d \in Op
        BY <1>3, <3>2
      <4>1. q \in Seq(Op) /\ Len(q) = Len(r) + 1 /\ q[Len(r) + 1] = d /\ \A i \in 1..Len(r) : q[i] = r[i]
        BY <3>0, <4>0, OneMore
      <4> QED BY <3>2, <4>1
    <3>4. Fits(cons, e) /\ Follows(e, m) /\ Follows(m, d)
      BY <1>3, <2>3 DEF Fits, Follows
    <3>5. \A i \in 1..3 : q[i].op \notin ToolOp
      BY <1>3, <3>3 DEF ToolOp
    <3>6. Shape(cons, q)
      BY <1>3, <2>3, <3>3, <3>4, <3>5, Shape3
    <3> QED BY <3>6 DEF q
  <2>4. CASE cons.msg = NoIdx /\ cons.reason = NoIdx /\ ~EmptyReasoning
    <3>1. TextOps = (<<>> \o <<m>>) \o <<d>>
      BY <2>4 DEF TextOps, BeforeMessage
    <3> HIDE DEF m, d
    <3> DEFINE r == <<>> \o <<m>>
    <3>2. r \in Seq(Op) /\ Len(r) = 1 /\ r[1] = m
      BY <1>3
    <3>0. q = r \o <<d>>
      BY <3>1
    <3> HIDE DEF r, q
    <3>3. q \in Seq(Op) /\ Len(q) = 2 /\ q[1] = m /\ q[2] = d
      <4>0. r \in Seq(Op) /\ d \in Op
        BY <1>3, <3>2
      <4>1. q \in Seq(Op) /\ Len(q) = Len(r) + 1 /\ q[Len(r) + 1] = d /\ \A i \in 1..Len(r) : q[i] = r[i]
        BY <3>0, <4>0, OneMore
      <4> QED BY <3>2, <4>1
    <3>4. Fits(cons, m) /\ Follows(m, d)
      BY <1>3, <2>4 DEF Fits, Follows
    <3>5. Shape(cons, q)
      BY <1>3, <2>4, <3>3, <3>4, Shape2 DEF ToolOp
    <3> QED BY <3>5 DEF q
  <2>5. CASE cons.msg = NoIdx /\ cons.reason = NoIdx /\ EmptyReasoning
    <3>1. TextOps = (<<a, b, e>> \o <<m>>) \o <<d>>
      BY <2>5 DEF TextOps, BeforeMessage
    <3> HIDE DEF a, b, e, m, d
    <3> DEFINE r == <<a, b, e>> \o <<m>>
    <3>2. r \in Seq(Op) /\ Len(r) = 4 /\ r[1] = a /\ r[2] = b /\ r[3] = e /\ r[4] = m
      BY <1>3
    <3>0. q = r \o <<d>>
      BY <3>1
    <3> HIDE DEF r, q
    <3>3. q \in Seq(Op) /\ Len(q) = 5 /\ q[1] = a /\ q[2] = b /\ q[3] = e /\ q[4] = m /\ q[5] = d
      <4>0. r \in Seq(Op) /\ d \in Op
        BY <1>3, <3>2
      <4>1. q \in Seq(Op) /\ Len(q) = Len(r) + 1 /\ q[Len(r) + 1] = d /\ \A i \in 1..Len(r) : q[i] = r[i]
        BY <3>0, <4>0, OneMore
      <4> QED BY <3>2, <4>1
    <3>4. Fits(cons, a) /\ Follows(a, b) /\ Follows(b, e) /\ Follows(e, m) /\ Follows(m, d)
      BY <1>3, <2>5 DEF Fits, Follows
    <3>5. \A i \in 1..Len(q) : i = 1 \/ i = 2 \/ i = 3 \/ i = 4 \/ (i = 5 /\ ~(i < Len(q)))
      BY <3>3
    <3>6. Shape(cons, q)
      BY <1>3, <2>5, <3>3, <3>4, <3>5 DEF Shape, ToolOp
    <3> QED BY <3>6 DEF q
  <2> QED BY <2>2, <2>3, <2>4, <2>5
<1>5. /\ cons' \in State /\ cons'.todo = TextOps /\ cons'.pc = "run" /\ cons'.why = cons.why /\ SameItems(cons, cons')
  <2>1. TextOps \in Seq(Op)
    BY <1>4 DEF Shape
  <2> QED BY <1>1, <1>2, <2>1, TodoIs
<1>6. Shape(cons', TextOps)
  BY <1>4, <1>5 DEF Shape, Fits, SameItems, SameLists
<1> QED BY <1>1, <1>5, <1>6, TakenSame, TakeInv

\* A plan of one or two events.
LEMMA PlanIs ==
    ASSUME Inv, NEW type, Ready(type), type \notin Stops, type # "tool_call", NEW ops, Take(cons, ops), Shape(cons, ops)
    PROVE  Inv'
<1>1. Takes(queue[1]) /\ queue[1].type = type /\ cons' = [cons EXCEPT !.todo = ops]
  BY TakeIs
<1>2. cons \in State /\ cons.pc = "run" /\ ops \in Seq(Op)
  BY <1>1, BetweenIs DEF Takes, Shape
<1>3. /\ cons' \in State /\ cons'.todo = ops /\ cons'.pc = "run" /\ cons'.why = cons.why /\ SameItems(cons, cons')
  BY <1>1, <1>2, TodoIs
<1>4. Shape(cons', ops)
  BY <1>3 DEF Shape, Fits, SameItems, SameLists
<1>5. queue[1].type # "tool_call"
  BY <1>1
<1> QED BY <1>1, <1>3, <1>4, <1>5, TakenSame, TakeInv

\* Reasoning: an item is opened for its first text.
LEMMA TakeReasoningInv ==
    ASSUME Inv, TakeReasoning
    PROVE  Inv'
<1> DEFINE a == Do("reasonOpen")
           d == Do("reasonDelta")
           q == ReasonOps
<1>1. a \in Op /\ d \in Op /\ a.op = "reasonOpen" /\ d.op = "reasonDelta"
  <2>1. "reasonOpen" \in Ops /\ "reasonDelta" \in Ops
    BY DEF Ops
  <2> QED BY <2>1, DoType
<1>2. Shape(cons, q)
  <2>1. CASE cons.reason = NoIdx
    <3>1. q = <<a>> \o <<d>>
      BY <2>1 DEF ReasonOps
    <3> HIDE DEF a, d, q
    <3>2. q \in Seq(Op) /\ Len(q) = 2 /\ q[1] = a /\ q[2] = d
      BY <1>1, <3>1
    <3>3. Fits(cons, a) /\ Follows(a, d)
      BY <1>1, <2>1 DEF Fits, Follows
    <3> QED BY <1>1, <3>2, <3>3, Shape2 DEF ToolOp
  <2>2. CASE cons.reason # NoIdx
    <3>1. q = <<>> \o <<d>>
      BY <2>2 DEF ReasonOps
    <3> HIDE DEF a, d, q
    <3>2. q \in Seq(Op) /\ Len(q) = 1 /\ q[1] = d
      BY <1>1, <3>1
    <3> QED BY <1>1, <2>2, <3>2, Shape1 DEF ToolOp, Fits
  <2> QED BY <2>1, <2>2
<1>3. Ready("reasoning") /\ Take(cons, q)
  BY DEF TakeReasoning
<1>4. "reasoning" \notin Stops /\ "reasoning" # "tool_call"
  BY DEF Stops, Timeouts
<1> HIDE DEF q
<1> QED BY <1>2, <1>3, <1>4, PlanIs

\* A native item: one event of its own.
LEMMA TakeRawInv ==
    ASSUME Inv, TakeRaw
    PROVE  Inv'
<1>1. /\ "raw_added" \notin Stops /\ "raw_added" # "tool_call"
      /\ "raw_done" \notin Stops /\ "raw_done" # "tool_call"
  BY DEF Stops, Timeouts
<1>2. ASSUME NEW op \in {"rawOpen", "rawClose"} PROVE Shape(cons, <<Do(op)>>)
  <2>1. op \in Ops /\ Do(op) \in Op /\ Do(op).op = op
    <3>1. op \in Ops
      BY DEF Ops
    <3> QED BY <3>1, DoType
  <2> DEFINE a == Do(op)
             q == <<a>>
  <2> HIDE DEF a
  <2>2. q \in Seq(Op) /\ Len(q) = 1 /\ q[1] = a /\ a.op = op
    BY <2>1 DEF a
  <2> HIDE DEF q
  <2>3. Shape(cons, q)
    BY <1>2, <2>2, Shape1 DEF ToolOp, Fits
  <2> QED BY <2>3 DEF q, a
<1>3. CASE Ready("raw_added") /\ Take(cons, <<Do("rawOpen")>>)
  <2>1. Shape(cons, <<Do("rawOpen")>>)
    BY <1>2
  <2> QED BY <1>1, <1>3, <2>1, PlanIs
<1>4. CASE Ready("raw_done") /\ Take(cons, <<Do("rawClose")>>)
  <2>1. Shape(cons, <<Do("rawClose")>>)
    BY <1>2
  <2> QED BY <1>1, <1>4, <2>1, PlanIs
<1> QED BY <1>3, <1>4 DEF TakeRaw

\* No events.
LEMMA Shape0 == \A c : Shape(c, <<>>)
<1>1. <<>> \in Seq(Op) /\ Len(<<>>) = 0 /\ 1..0 = {}
  OBVIOUS
<1> QED BY <1>1 DEF Shape

\* The finish is remembered.
LEMMA TakeFinishInv ==
    ASSUME Inv, TakeFinish
    PROVE  Inv'
<1> DEFINE c == [cons EXCEPT !.finish = TRUE]
<1>1. "finish" \notin Stops /\ Ready("finish") /\ Take(c, <<>>)
  BY DEF TakeFinish, Stops, Timeouts
<1> HIDE DEF c
<1>2. Takes(queue[1]) /\ queue[1].type = "finish" /\ cons' = [c EXCEPT !.todo = <<>>]
  BY <1>1, TakeIs
<1>3. /\ cons \in State /\ cons.pc = "run" /\ cons.todo = <<>> /\ cons.frames = {} /\ Tracked
      /\ \A t \in Tools : /\ cons.acc[t].idx # NoIdx <=> cons.acc[t].added
                          /\ cons.acc[t].argsDone => cons.acc[t].done
                          /\ cons.acc[t].done => cons.acc[t].final
  BY <1>2, BetweenIs DEF Takes
<1>4. c \in State
  BY <1>3 DEF c, State
<1>5. /\ c.out = cons.out /\ c.msg = cons.msg /\ c.reason = cons.reason /\ c.acc = cons.acc /\ c.raw = cons.raw
      /\ c.special = cons.special /\ c.invalid = cons.invalid /\ c.frames = cons.frames /\ c.pc = cons.pc /\ c.why = cons.why
  BY <1>3 DEF c, State
<1>6. <<>> \in Seq(Op)
  OBVIOUS
<1>7. cons' \in State /\ cons'.todo = <<>> /\ cons'.pc = c.pc /\ cons'.why = c.why /\ SameItems(c, cons')
  BY <1>2, <1>4, <1>6, TodoIs, ZenonT(50)
<1>8. /\ cons'.out = cons.out /\ cons'.msg = cons.msg /\ cons'.reason = cons.reason /\ cons'.acc = cons.acc
      /\ cons'.raw = cons.raw /\ cons'.special = cons.special /\ cons'.invalid = cons.invalid /\ cons'.frames = {}
      /\ cons'.pc = "run" /\ cons'.why = cons.why
  BY <1>3, <1>5, <1>7 DEF SameItems, SameLists
<1>9. log' = log /\ cfg' = cfg
  BY <1>2 DEF Takes
<1>10. Tracked'
  BY <1>3, <1>7, <1>8, <1>9 DEF Tracked, Numbered, Calls, Items, Listed, AddedFirst, EachOnce, ReasoningFirst, At, Same, Done
<1>11. Planned'
  <2>1. Len(cons'.todo) = 0 /\ 1..Len(cons'.todo) = {}
    BY <1>7
  <2> QED BY <1>3, <1>8, <2>1 DEF Planned
<1>12. \A t \in Tools : Known(t)' <=> Known(t)
  BY <1>8, <1>9 DEF Known
<1>13. Taken(queue[1])
  BY <1>2, <1>7, <1>8, <1>10, <1>11, <1>12 DEF Taken, Announces, Inv, Told
<1> QED BY <1>2, <1>13, TakeInv

\* What ensure does to the accumulators.
Ensures(t, c) ==
    /\ c \in State /\ c.msg = cons.msg /\ c.reason = cons.reason /\ c.raw = cons.raw /\ c.invalid = cons.invalid
    /\ c.special = cons.special /\ c.frames = cons.frames /\ c.pc = cons.pc /\ c.why = cons.why
    /\ \A u \in Tools \ {t} : c.acc[u] = cons.acc[u]
    /\ c.acc[t].added = cons.acc[t].added /\ c.acc[t].done = cons.acc[t].done
    /\ c.acc[t].argsDone = cons.acc[t].argsDone /\ c.acc[t].final = cons.acc[t].final
    /\ IF cons.acc[t].idx = NoIdx THEN c.acc[t].idx = cons.out /\ c.out = cons.out + 1
       ELSE c.acc[t].idx = cons.acc[t].idx /\ c.out = cons.out

\* ensure gives a new call the next index and leaves every other call alone.
LEMMA EnsuredIs ==
    ASSUME cons \in State, NEW t \in Tools, NEW ok \in BOOLEAN
    PROVE  Ensures(t, Ensured(t, ok))
<1> DEFINE a == cons.acc[t]
           n == IF a.idx = NoIdx THEN cons.out ELSE a.idx
           m == IF a.idx = NoIdx THEN cons.out + 1 ELSE cons.out
           s == t \in cfg.special
           b == [a EXCEPT !.idx = n, !.valid = ok, !.stray = s]
           f == [cons.acc EXCEPT ![t] = b]
           c == [cons EXCEPT !.acc = f, !.out = m]
<1>1. Ensured(t, ok) = c
  BY DEF Ensured, State
<1>2. a \in Accumulator /\ cons.out \in Nat /\ cons.acc \in [Tools -> Accumulator]
  BY DEF State
<1>3. n \in Int /\ m \in Nat
  BY <1>2 DEF Accumulator
<1>4. /\ IF a.idx = NoIdx THEN n = cons.out /\ m = cons.out + 1 ELSE n = a.idx /\ m = cons.out
  OBVIOUS
<1>0. s \in BOOLEAN
  OBVIOUS
<1> HIDE DEF n, m, s, a
<1>5. b \in Accumulator
  BY <1>0, <1>2, <1>3 DEF Accumulator
<1>6. b.idx = n /\ b.added = a.added /\ b.done = a.done /\ b.argsDone = a.argsDone /\ b.final = a.final
  BY <1>2 DEF Accumulator
<1> HIDE DEF b
<1>7. f \in [Tools -> Accumulator] /\ f[t] = b /\ \A u \in Tools \ {t} : f[u] = cons.acc[u]
  BY <1>2, <1>5
<1> HIDE DEF f
<1>8. c \in State
  BY <1>3, <1>7 DEF State
<1>9. /\ c.msg = cons.msg /\ c.reason = cons.reason /\ c.raw = cons.raw /\ c.invalid = cons.invalid
      /\ c.special = cons.special /\ c.frames = cons.frames /\ c.pc = cons.pc /\ c.why = cons.why
      /\ c.acc = f /\ c.out = m
  BY <1>3, <1>7 DEF State
<1> HIDE DEF c
<1>10. Ensures(t, c)
  BY <1>4, <1>6, <1>7, <1>8, <1>9 DEF Ensures, a
<1> QED BY <1>1, <1>10

\* A new number is nobody's: the account of the log stays one.
LEMMA EnsureTracked ==
    ASSUME Tracked, NEW t \in Tools, cons \in State, cons.todo = <<>>, log' = log, Ensures(t, cons'),
           cons'.todo # <<>>, cons'.todo[1].op # "itemClose",
           \A u \in Tools : cons.acc[u].idx # NoIdx <=> cons.acc[u].added
    PROVE  Tracked'
<1>1. /\ cons.out \in Nat /\ cons'.out \in Nat /\ cons'.out >= cons.out
      /\ cons'.msg = cons.msg /\ cons'.reason = cons.reason /\ cons'.raw = cons.raw
  BY DEF Ensures, State
<1>2. \A u \in Tools : /\ cons'.acc[u].added = cons.acc[u].added /\ cons'.acc[u].done = cons.acc[u].done
                       /\ cons.acc[u].idx # NoIdx => cons'.acc[u].idx = cons.acc[u].idx
                       /\ cons.acc[u].idx = NoIdx => \/ cons'.acc[u].idx = NoIdx
                                                     \/ u = t /\ cons'.acc[u].idx = cons.out /\ cons'.out = cons.out + 1
  BY DEF Ensures
<1>3. \A u \in Tools : cons.acc[u].idx # NoIdx => cons.acc[u].idx \in 0..(cons.out - 1)
  BY DEF Tracked, Calls
<1>4. \A i \in DOMAIN log : log[i].ev \in ItemEvents => log[i].idx \in 0..(cons.out - 1)
  BY DEF Tracked, Numbered
<1>5. 0..(cons.out - 1) \subseteq 0..(cons'.out - 1) /\ cons.out \notin 0..(cons.out - 1)
  BY <1>1
<1>6. cons'.out = cons.out + 1 => cons.out \in 0..(cons'.out - 1)
  BY <1>1
<1>7. Numbered' /\ AddedFirst' /\ EachOnce' /\ ReasoningFirst'
  <2>1. AddedFirst' /\ EachOnce' /\ ReasoningFirst'
    BY DEF Tracked, AddedFirst, EachOnce, ReasoningFirst, At, Same
  <2>2. Numbered'
    BY <1>4, <1>5 DEF Tracked, Numbered, Same
  <2> QED BY <2>1, <2>2
<1>8. Calls'
  <2>1. ASSUME NEW u \in Tools, NEW v \in Tools, cons'.acc[u].idx = cons'.acc[v].idx, cons'.acc[u].idx # NoIdx
        PROVE  u = v
    <3>1. CASE cons.acc[u].idx # NoIdx /\ cons.acc[v].idx # NoIdx
      BY <1>2, <2>1, <3>1 DEF Tracked, Calls
    <3>2. CASE cons.acc[u].idx = NoIdx \/ cons.acc[v].idx = NoIdx
      BY <1>2, <1>3, <1>5, <2>1, <3>2
    <3> QED BY <3>1, <3>2
  <2>2. ASSUME NEW u \in Tools
        PROVE  LET a == cons'.acc[u] IN
               /\ a.idx # NoIdx => a.idx \in 0..(cons'.out - 1)
               /\ a.added => /\ a.idx # NoIdx
                             /\ \E i \in DOMAIN log : log[i].ev = "added" /\ log[i].kind = "function_call" /\ log[i].idx = a.idx
               /\ a.done => a.added
               /\ a.added /\ ~a.done => Open(log, "function_call", a.idx)
               /\ a.idx # NoIdx /\ ~a.added => \A i \in DOMAIN log : log[i].ev \in ItemEvents => log[i].idx # a.idx
    <3>1. CASE cons.acc[u].idx # NoIdx
      <4>1. cons.acc[u].added /\ cons'.acc[u].idx = cons.acc[u].idx /\ cons'.acc[u].added /\ cons'.acc[u].done = cons.acc[u].done
        BY <1>2, <3>1
      <4> QED BY <1>3, <1>5, <3>1, <4>1 DEF Tracked, Calls
    <3>2. CASE cons.acc[u].idx = NoIdx
      <4>1. ~cons.acc[u].added /\ ~cons'.acc[u].added /\ ~cons'.acc[u].done
        BY <1>2, <3>2 DEF Tracked, Calls
      <4> QED BY <1>2, <1>4, <1>5, <1>6, <3>2, <4>1
    <3> QED BY <3>1, <3>2
  <2> QED BY <2>1, <2>2 DEF Calls, Open
<1>9. Items'
  BY <1>1 DEF Tracked, Items, Open
<1>10. Listed'
  <2> SUFFICES ASSUME NEW i \in DOMAIN log, log[i].ev = "added", ~Done(i)
               PROVE  \/ log[i].kind = "reasoning" /\ log[i].idx = cons.reason
                      \/ log[i].kind = "message" /\ log[i].idx = cons.msg
                      \/ log[i].kind = "function_call" /\ \E u \in Tools : cons'.acc[u].added /\ ~cons'.acc[u].done /\ cons'.acc[u].idx = log[i].idx
                      \/ log[i].kind = "raw" /\ \E k \in DOMAIN cons.raw : cons.raw[k] = log[i].idx
    BY <1>1 DEF Listed, Done, Same
  <2>1. \A u \in Tools : cons.acc[u].added => cons'.acc[u].idx = cons.acc[u].idx
    BY <1>2
  <2> QED BY <1>2, <2>1 DEF Tracked, Listed
<1> QED BY <1>7, <1>8, <1>9, <1>10 DEF Tracked

\* The events of a fragment.
LEMMA ToolOpsShape ==
    ASSUME NEW t \in Tools
    PROVE  /\ ToolOps(t) \in Seq(Op) /\ Len(ToolOps(t)) > 0
           /\ ToolOps(t)[1].tool = t
           /\ IF cons.acc[t].added THEN Len(ToolOps(t)) = 1 /\ ToolOps(t)[1].op = "toolDelta"
              ELSE /\ Len(ToolOps(t)) = 2 /\ ToolOps(t)[1].op = "toolOpen"
                   /\ ToolOps(t)[2].op = "toolDelta" /\ ToolOps(t)[2].tool = t
<1> DEFINE a == DoTool("toolOpen", t, "none")
           d == DoTool("toolDelta", t, "none")
           q == ToolOps(t)
<1>1. a \in Op /\ d \in Op /\ a.op = "toolOpen" /\ d.op = "toolDelta" /\ a.tool = t /\ d.tool = t
  <2>1. "toolOpen" \in Ops /\ "toolDelta" \in Ops /\ t \in Int
    BY PipelineAssumption DEF Ops
  <2> QED BY <2>1, DoType
<1>2. CASE cons.acc[t].added
  <2>1. q = <<>> \o <<d>>
    BY <1>2 DEF ToolOps
  <2> HIDE DEF d, q
  <2>2. q \in Seq(Op) /\ Len(q) = 1 /\ q[1] = d
    BY <1>1, <2>1
  <2> QED BY <1>1, <1>2, <2>2 DEF q
<1>3. CASE ~cons.acc[t].added
  <2>1. q = <<a>> \o <<d>>
    BY <1>3 DEF ToolOps
  <2> HIDE DEF a, d, q
  <2>2. q \in Seq(Op) /\ Len(q) = 2 /\ q[1] = a /\ q[2] = d
    BY <1>1, <2>1
  <2> QED BY <1>1, <1>3, <2>2 DEF q
<1> QED BY <1>2, <1>3

\* What the queue says of its first chunk.
LEMMA FirstChunk ==
    ASSUME Inv, NEW h, Takes(h)
    PROVE  /\ h \in Chunk
           /\ h.type \in {"tool_call", "tool_call_done"} => h.tool \in Tools
           /\ \A t \in Tools : IsDone(h, t) => ~cons.acc[t].final /\ Known(t)
<1>1. 1 \in DOMAIN queue /\ h = queue[1] /\ queue \in Seq(Chunk) /\ Terminators /\ ToolChunks
  BY QueueTail DEF Inv, TypeOK, Takes, Queued, Between
<1>2. \A k \in DOMAIN queue : ~(k < 1)
  BY <1>1
<1> QED BY <1>1, <1>2 DEF Terminators, ToolChunks

\* A fragment of a special call is kept.
LEMMA TakeSpecial ==
    ASSUME Inv, NEW h, Takes(h), NEW S \in SUBSET Tools, NEW q, Shape(cons, q),
           cons' = [[cons EXCEPT !.special = S] EXCEPT !.todo = q],
           \A t \in Tools : t \in cons.special /\ ~IsDone(h, t) => t \in S,
           h.type = "tool_call" => h.named /\ h.tool \in cfg.special /\ h.tool \in S
    PROVE  Inv'
<1> DEFINE c == [cons EXCEPT !.special = S]
<1>1. cons \in State /\ cons.pc = "run" /\ q \in Seq(Op) /\ cfg' = cfg
  BY BetweenIs DEF Takes, Shape
<1>2. c \in State
  BY <1>1 DEF State
<1>3. SameLists(cons, c) /\ c.invalid = cons.invalid /\ c.frames = cons.frames /\ c.why = cons.why /\ c.pc = cons.pc /\ c.special = S
  BY <1>1 DEF State, SameLists
<1>4. cons' = [c EXCEPT !.todo = q]
  OBVIOUS
<1> HIDE DEF c
<1>5. cons' \in State /\ cons'.todo = q /\ cons'.pc = c.pc /\ cons'.why = c.why /\ SameItems(c, cons')
  BY <1>1, <1>2, <1>4, TodoIs
<1>6. SameLists(cons, cons') /\ cons'.invalid = cons.invalid /\ cons'.frames = cons.frames /\ cons'.special = S
  BY <1>3, <1>5 DEF SameItems, SameLists
<1>7. Shape(cons', cons'.todo)
  BY <1>5, <1>6 DEF Shape, Fits, SameLists
<1>8. ASSUME NEW t \in Tools PROVE (Known(t) /\ ~IsDone(h, t) => Known(t)') /\ (Announces(h, t) => Known(t)')
  <2>1. cons'.acc = cons.acc
    BY <1>6 DEF SameLists
  <2> QED BY <1>1, <1>6, <2>1 DEF Known, Announces
<1>9. Taken(h)
  BY <1>1, <1>3, <1>5, <1>6, <1>7, <1>8, TakenLists
<1> QED BY <1>9, TakeInv

\* A fragment of a tool call.
LEMMA TakeToolCallInv ==
    ASSUME Inv, TakeToolCall
    PROVE  Inv'
<1> DEFINE h == queue[1]
           t == h.tool
<1>0. "tool_call" \notin Stops /\ Ready("tool_call") /\ Head(queue) = h
  BY QueueTail DEF TakeToolCall, Stops, Timeouts, Ready, Inv, TypeOK
<1>1. /\ Takes(h) /\ h.type = "tool_call"
      /\ \/ SpecialKind(h) /\ cons' = [[cons EXCEPT !.special = @ \cup {t}] EXCEPT !.todo = <<>>]
         \/ ~SpecialKind(h) /\ cons' = [Ensured(t, h.ok) EXCEPT !.todo = ToolOps(t)]
  BY <1>0, TakeIs DEF TakeToolCall
<1>2. t \in Tools /\ h \in Chunk /\ cons.special \in SUBSET Tools
  <2> HIDE DEF h
  <2> QED BY <1>1, FirstChunk DEF Inv, TypeOK, State
<1>3. CASE SpecialKind(h) /\ cons' = [[cons EXCEPT !.special = @ \cup {t}] EXCEPT !.todo = <<>>]
  <2>1. cons' = [[cons EXCEPT !.special = cons.special \cup {t}] EXCEPT !.todo = <<>>]
    BY <1>3
  <2>2. cons.special \cup {t} \in SUBSET Tools /\ h.named /\ t \in cfg.special
    BY <1>2, <1>3 DEF SpecialKind
  <2> HIDE DEF h
  <2> QED BY <1>1, <2>1, <2>2, Shape0, TakeSpecial
<1>4. CASE ~SpecialKind(h) /\ cons' = [Ensured(t, h.ok) EXCEPT !.todo = ToolOps(t)]
  <2> DEFINE c == Ensured(t, h.ok)
             q == ToolOps(t)
  <2>1. /\ cons \in State /\ cons.pc = "run" /\ cons.todo = <<>> /\ cons.frames = {} /\ Tracked
        /\ \A u \in Tools : /\ cons.acc[u].idx # NoIdx <=> cons.acc[u].added
                            /\ cons.acc[u].argsDone => cons.acc[u].done
                            /\ cons.acc[u].done => cons.acc[u].final
    BY <1>1, BetweenIs DEF Takes
  <2>2. h.ok \in BOOLEAN
    BY <1>2 DEF Chunk
  <2>3. Ensures(t, c)
    BY <1>2, <2>1, <2>2, EnsuredIs
  <2>4. /\ q \in Seq(Op) /\ Len(q) > 0 /\ q[1].tool = t
        /\ IF cons.acc[t].added THEN Len(q) = 1 /\ q[1].op = "toolDelta"
           ELSE /\ Len(q) = 2 /\ q[1].op = "toolOpen" /\ q[2].op = "toolDelta" /\ q[2].tool = t
    BY <1>2, ToolOpsShape
  <2>5. cons' = [c EXCEPT !.todo = q]
    BY <1>4
  <2> HIDE DEF c, q
  <2>6. cons' \in State /\ cons'.todo = q /\ cons'.pc = c.pc /\ cons'.why = c.why /\ SameItems(c, cons')
    BY <2>3, <2>4, <2>5, TodoIs DEF Ensures
  <2>7. Ensures(t, cons') /\ cons'.frames = {} /\ cons'.pc = "run" /\ cons'.why = cons.why
    BY <2>1, <2>3, <2>6 DEF Ensures, SameItems, SameLists
  <2>8. log' = log /\ cfg' = cfg
    BY <1>1 DEF Takes
  <2>9. q # <<>> /\ q[1].op # "itemClose"
    BY <2>4
  <2> HIDE DEF t
  <2>10. Tracked'
    BY <1>2, <2>1, <2>6, <2>7, <2>8, <2>9, EnsureTracked
  <2>11. \A u \in Tools : /\ cons'.acc[u].added = cons.acc[u].added /\ cons'.acc[u].done = cons.acc[u].done
                          /\ cons'.acc[u].final = cons.acc[u].final /\ cons'.acc[u].argsDone = cons.acc[u].argsDone
                          /\ u # t => cons'.acc[u].idx = cons.acc[u].idx
    BY <2>7 DEF Ensures
  <2>12. cons'.acc[t].idx # NoIdx /\ cons'.special = cons.special /\ cons'.invalid = cons.invalid
    <3>1. cons.out \in Nat /\ NoIdx = -1
      BY <2>1 DEF State, NoIdx
    <3>2. cons.out # NoIdx
      BY <3>1
    <3> QED BY <2>7, <3>2 DEF Ensures
  <2>13. Planned'
    <3>1. \A u \in Tools : /\ cons'.acc[u].idx # NoIdx /\ ~cons'.acc[u].added => u = t /\ ~cons.acc[t].added
                           /\ cons'.acc[u].argsDone => cons'.acc[u].done
                           /\ cons'.acc[u].done => cons'.acc[u].final
      BY <2>1, <2>11
    <3>2. CASE cons.acc[t].added
      <4>0. Len(q) = 1 /\ cons'.acc[t].added = cons.acc[t].added
        BY <1>2, <2>4, <2>11, <3>2
      <4>1. cons'.acc[t].added /\ Len(q) = 1 /\ 1..Len(q) = {1}
        BY <3>2, <4>0
      <4> QED BY <1>2, <2>4, <2>6, <3>1, <3>2, <4>1 DEF Planned, Fits
    <3>3. CASE ~cons.acc[t].added
      <4>0. Len(q) = 2 /\ cons'.acc[t].added = cons.acc[t].added
        BY <1>2, <2>4, <2>11, <3>3
      <4>1. ~cons'.acc[t].added /\ Len(q) = 2 /\ 1..Len(q) = {1, 2}
        BY <3>3, <4>0
      <4>2. Follows(q[1], q[2]) /\ Fits(cons', q[1])
        BY <2>4, <2>12, <3>3, <4>1 DEF Follows, Fits
      <4>3. \A i \in 1..Len(q) : /\ q[i].op \in ToolOp => q[i].tool \in Tools
                                 /\ i < Len(q) => Follows(q[i], q[i + 1])
                                 /\ q[i].op # "msgOpen"
        <5>1. \A i \in 1..Len(q) : i = 1 \/ (i = 2 /\ ~(i < Len(q)))
          BY <4>1
        <5> QED BY <1>2, <2>4, <3>3, <4>2, <5>1
      <4> QED BY <2>4, <2>6, <3>1, <3>3, <4>1, <4>2, <4>3 DEF Planned
    <3> QED BY <3>2, <3>3
  <2>14. \A u \in Tools : /\ Known(u) => Known(u)'
                          /\ Announces(h, u) => Known(u)'
    <3>1. ASSUME NEW u \in Tools, Known(u) PROVE Known(u)'
      BY <2>8, <2>11, <2>12, <3>1 DEF Known
    <3>2. ASSUME NEW u \in Tools, Announces(h, u) PROVE Known(u)'
      <4>1. u = t /\ u \notin cfg.special
        BY <1>4, <3>2 DEF Announces, SpecialKind, t
      <4> QED BY <2>8, <2>12, <4>1 DEF Known
    <3> QED BY <3>1, <3>2
  <2>15. Taken(h)
    <3>1. \A u \in Tools : cons'.acc[u].final /\ ~cons'.acc[u].argsDone => cons'.invalid
      BY <2>11, <2>12 DEF Inv, Told
    <3> HIDE DEF h
    <3> QED BY <2>6, <2>7, <2>10, <2>11, <2>13, <2>14, <3>1 DEF Taken
  <2> HIDE DEF h
  <2> QED BY <1>1, <2>15, TakeInv
<1> QED BY <1>1, <1>3, <1>4

\* The items of a special call and of the outputs the relay adds to it.
LEMMA SpecialShape ==
    ASSUME NEW q \in SpecialOps
    PROVE  Shape(cons, q)
<1> DEFINE a == Do("itemOpen")
           b == Do("itemClose")
           p == <<a, b>>
<1>1. a \in Op /\ b \in Op /\ a.op = "itemOpen" /\ b.op = "itemClose"
  <2>1. "itemOpen" \in Ops /\ "itemClose" \in Ops
    BY DEF Ops
  <2> QED BY <2>1, DoType
<1>2. q = p \/ q = p \o p
  BY DEF SpecialOps, SpecialItem
<1> HIDE DEF a, b
<1>3. p \in Seq(Op) /\ Len(p) = 2 /\ p[1] = a /\ p[2] = b /\ DOMAIN p = 1..2
  BY <1>1
<1> HIDE DEF p
<1>4. Fits(cons, a) /\ Follows(a, b) /\ Follows(b, a)
  BY <1>1 DEF Fits, Follows
<1>5. CASE q = p
  BY <1>1, <1>3, <1>4, <1>5, Shape2 DEF ToolOp
<1>6. CASE q = p \o p
  <2>1. /\ q \in Seq(Op) /\ Len(q) = Len(p) + Len(p)
        /\ \A i \in DOMAIN p : q[i] = p[i]
        /\ \A i \in DOMAIN p : q[Len(p) + i] = p[i]
    BY <1>3, <1>6, Concat
  <2>2. Len(q) = 4 /\ q[1] = a /\ q[2] = b
    BY <1>3, <2>1
  <2>3. q[2 + 1] = a /\ q[2 + 2] = b
    BY <1>3, <2>1
  <2>4. q[3] = a /\ q[4] = b
    BY <2>3
  <2>5. \A i \in 1..Len(q) : i = 1 \/ i = 2 \/ i = 3 \/ (i = 4 /\ ~(i < Len(q)))
    BY <2>2
  <2> QED BY <1>1, <1>4, <2>1, <2>2, <2>4, <2>5 DEF Shape, ToolOp
<1> QED BY <1>2, <1>5, <1>6

\* What tool_call_done declares of a call.
Declares(t, c) ==
    /\ c \in State /\ c.out = cons.out /\ c.msg = cons.msg /\ c.reason = cons.reason /\ c.raw = cons.raw
    /\ c.special = cons.special /\ c.frames = cons.frames /\ c.pc = cons.pc /\ c.why = cons.why
    /\ c.invalid <=> cons.invalid \/ ~cons.acc[t].valid
    /\ \A u \in Tools \ {t} : c.acc[u] = cons.acc[u]
    /\ c.acc[t].idx = cons.acc[t].idx /\ c.acc[t].added = cons.acc[t].added /\ c.acc[t].done = cons.acc[t].done
    /\ c.acc[t].final /\ (c.acc[t].argsDone <=> cons.acc[t].valid)

\* tool_call_done touches one accumulator.
LEMMA DeclareIs ==
    ASSUME cons \in State, NEW t \in Tools
    PROVE  Declares(t, [cons EXCEPT !.acc[t].final = TRUE, !.acc[t].argsDone = cons.acc[t].valid,
                                    !.invalid = @ \/ ~cons.acc[t].valid])
<1> DEFINE a == cons.acc[t]
           v == a.valid
           x == cons.invalid \/ ~v
           b == [a EXCEPT !.final = TRUE, !.argsDone = v]
           f == [cons.acc EXCEPT ![t] = b]
           c == [cons EXCEPT !.acc = f, !.invalid = x]
<1>1. a \in Accumulator /\ cons.acc \in [Tools -> Accumulator] /\ cons.invalid \in BOOLEAN
  BY DEF State
<1>2. [cons EXCEPT !.acc[t].final = TRUE, !.acc[t].argsDone = cons.acc[t].valid,
                   !.invalid = @ \/ ~cons.acc[t].valid] = c
  BY <1>1 DEF State, Accumulator
<1>3. v \in BOOLEAN /\ x \in BOOLEAN
  BY <1>1 DEF Accumulator
<1> HIDE DEF v, x, a
<1>4. b \in Accumulator
  BY <1>1, <1>3 DEF Accumulator
<1>5. b.idx = a.idx /\ b.added = a.added /\ b.done = a.done /\ b.final = TRUE /\ b.argsDone = v
  BY <1>1 DEF Accumulator
<1> HIDE DEF b
<1>6. f \in [Tools -> Accumulator] /\ f[t] = b /\ \A u \in Tools \ {t} : f[u] = cons.acc[u]
  BY <1>1, <1>4
<1> HIDE DEF f
<1>7. c \in State
  BY <1>3, <1>6 DEF State
<1>8. /\ c.out = cons.out /\ c.msg = cons.msg /\ c.reason = cons.reason /\ c.raw = cons.raw
      /\ c.special = cons.special /\ c.frames = cons.frames /\ c.pc = cons.pc /\ c.why = cons.why
      /\ c.acc = f /\ c.invalid = x
  BY <1>3, <1>6 DEF State
<1> HIDE DEF c
<1>9. Declares(t, c)
  BY <1>3, <1>5, <1>6, <1>7, <1>8 DEF Declares, a, v, x
<1> QED BY <1>2, <1>9

\* The account of the log does not depend on what is declared final.
LEMMA DeclareTracked ==
    ASSUME Tracked, NEW t \in Tools, cons.todo = <<>>, log' = log, Declares(t, cons'),
           cons'.todo # <<>>, cons'.todo[1].op # "itemClose"
    PROVE  Tracked'
<1>1. /\ cons'.out = cons.out /\ cons'.msg = cons.msg /\ cons'.reason = cons.reason /\ cons'.raw = cons.raw
      /\ \A u \in Tools : cons'.acc[u].idx = cons.acc[u].idx /\ cons'.acc[u].added = cons.acc[u].added
                          /\ cons'.acc[u].done = cons.acc[u].done
  BY DEF Declares
<1>2. Numbered' /\ AddedFirst' /\ EachOnce' /\ ReasoningFirst'
  BY <1>1 DEF Tracked, Numbered, AddedFirst, EachOnce, ReasoningFirst, At, Same
<1>3. Calls'
  BY <1>1 DEF Tracked, Calls, Open
<1>4. Items'
  BY <1>1 DEF Tracked, Items, Open
<1>5. Listed'
  <2> SUFFICES ASSUME NEW i \in DOMAIN log, log[i].ev = "added", ~Done(i)
               PROVE  \/ log[i].kind = "reasoning" /\ log[i].idx = cons.reason
                      \/ log[i].kind = "message" /\ log[i].idx = cons.msg
                      \/ log[i].kind = "function_call" /\ \E u \in Tools : cons.acc[u].added /\ ~cons.acc[u].done /\ cons.acc[u].idx = log[i].idx
                      \/ log[i].kind = "raw" /\ \E k \in DOMAIN cons.raw : cons.raw[k] = log[i].idx
    BY <1>1 DEF Listed, Done, Same
  <2> QED BY DEF Tracked, Listed
<1> QED BY <1>2, <1>3, <1>4, <1>5 DEF Tracked

\* The events of the end of a call.
LEMMA FinalOpsShape ==
    ASSUME NEW t \in Tools
    PROVE  LET q == FinalOps(t) IN
           /\ q \in Seq(Op) /\ Len(q) > 0 /\ q[Len(q)].op = "toolClose" /\ q[Len(q)].tool = t
           /\ \/ Len(q) = 1
              \/ Len(q) = 2 /\ q[1].op = "argsDone" /\ q[1].tool = t
<1> DEFINE a == DoTool("argsDone", t, "none")
           b == DoTool("toolClose", t, "completed")
           d == DoTool("toolClose", t, "incomplete")
           q == FinalOps(t)
<1>1. a \in Op /\ b \in Op /\ d \in Op /\ a.op = "argsDone" /\ b.op = "toolClose" /\ d.op = "toolClose"
      /\ a.tool = t /\ b.tool = t /\ d.tool = t
  <2>1. "argsDone" \in Ops /\ "toolClose" \in Ops /\ t \in Int
    BY PipelineAssumption DEF Ops
  <2> QED BY <2>1, DoType
<1>2. q = <<a, b>> \/ q = <<d>>
  BY DEF FinalOps
<1> HIDE DEF a, b, d, q
<1>3. CASE q = <<a, b>>
  <2>1. q \in Seq(Op) /\ Len(q) = 2 /\ q[1] = a /\ q[2] = b
    BY <1>1, <1>3
  <2> QED BY <1>1, <2>1 DEF q
<1>4. CASE q = <<d>>
  <2>1. q \in Seq(Op) /\ Len(q) = 1 /\ q[1] = d
    BY <1>1, <1>4
  <2> QED BY <1>1, <2>1 DEF q
<1> QED BY <1>2, <1>3, <1>4

\* A tool call is declared complete.
LEMMA TakeToolDoneInv ==
    ASSUME Inv, TakeToolDone
    PROVE  Inv'
<1> DEFINE h == queue[1]
           t == h.tool
           c == [cons EXCEPT !.acc[t].final = TRUE, !.acc[t].argsDone = cons.acc[t].valid,
                             !.invalid = @ \/ ~cons.acc[t].valid]
           q == FinalOps(t)
<1>0. "tool_call_done" \notin Stops /\ Ready("tool_call_done") /\ Head(queue) = h
  BY QueueTail DEF TakeToolDone, Stops, Timeouts, Ready, Inv, TypeOK
<1>1. /\ Takes(h) /\ h.type = "tool_call_done"
      /\ \/ \E ops \in SpecialOps : cons' = [[cons EXCEPT !.special = @ \ {t}] EXCEPT !.todo = ops]
         \/ t \notin cons.special /\ cons' = [c EXCEPT !.todo = q]
  <2>1. \/ \E ops \in SpecialOps : Take([cons EXCEPT !.special = @ \ {t}], ops)
        \/ t \notin cons.special /\ Take(c, q)
    BY <1>0 DEF TakeToolDone
  <2>2. Takes(h) /\ h.type = "tool_call_done"
    BY <1>0, <2>1, TakeIs
  <2> QED BY <2>1, <2>2 DEF Take
<1>2. t \in Tools /\ IsDone(h, t) /\ ~cons.acc[t].final /\ Known(t) /\ cons.special \in SUBSET Tools
  <2>1. t \in Tools /\ cons.special \in SUBSET Tools
    BY <1>1, FirstChunk DEF Inv, TypeOK, State
  <2>2. IsDone(h, t)
    BY <1>1 DEF IsDone
  <2> HIDE DEF h, t
  <2> QED BY <1>1, <2>1, <2>2, FirstChunk
<1>3. ASSUME NEW ops \in SpecialOps, cons' = [[cons EXCEPT !.special = @ \ {t}] EXCEPT !.todo = ops] PROVE Inv'
  <2>1. cons' = [[cons EXCEPT !.special = cons.special \ {t}] EXCEPT !.todo = ops]
    BY <1>3
  <2>2. cons.special \ {t} \in SUBSET Tools /\ Shape(cons, ops)
    BY <1>2, SpecialShape
  <2>3. \A u \in Tools : u \in cons.special /\ ~IsDone(h, u) => u \in cons.special \ {t}
    BY <1>2
  <2>4. h.type # "tool_call"
    BY <1>1
  <2> HIDE DEF h, t
  <2> QED BY <1>1, <2>1, <2>2, <2>3, <2>4, TakeSpecial
<1>4. CASE t \notin cons.special /\ cons' = [c EXCEPT !.todo = q]
  <2>1. /\ cons \in State /\ cons.pc = "run" /\ cons.todo = <<>> /\ cons.frames = {} /\ Tracked
        /\ \A u \in Tools : /\ cons.acc[u].idx # NoIdx <=> cons.acc[u].added
                            /\ cons.acc[u].argsDone => cons.acc[u].done
                            /\ cons.acc[u].done => cons.acc[u].final
    BY <1>1, BetweenIs DEF Takes
  <2>2. Declares(t, c)
    BY <1>2, <2>1, DeclareIs
  <2>3. /\ q \in Seq(Op) /\ Len(q) > 0 /\ q[Len(q)].op = "toolClose" /\ q[Len(q)].tool = t
        /\ Len(q) = 1 \/ (Len(q) = 2 /\ q[1].op = "argsDone" /\ q[1].tool = t)
    BY <1>2, FinalOpsShape
  <2>4. cons' = [c EXCEPT !.todo = q]
    BY <1>4
  <2> HIDE DEF c, q
  <2>5. cons' \in State /\ cons'.todo = q /\ cons'.pc = c.pc /\ cons'.why = c.why /\ SameItems(c, cons')
    BY <2>2, <2>3, <2>4, TodoIs DEF Declares
  <2>6. Declares(t, cons') /\ cons'.frames = {} /\ cons'.pc = "run" /\ cons'.why = cons.why
    BY <2>1, <2>2, <2>5 DEF Declares, SameItems, SameLists
  <2>7. log' = log /\ cfg' = cfg
    BY <1>1 DEF Takes
  <2>8. q # <<>> /\ q[1].op \in {"argsDone", "toolClose"} /\ q[1].tool = t
    BY <2>3
  <2> HIDE DEF t
  <2>9. Tracked'
    BY <1>2, <2>1, <2>5, <2>6, <2>7, <2>8, DeclareTracked
  <2>10. cons.acc[t].added /\ ~cons.acc[t].done
    BY <1>2, <1>4, <2>1 DEF Known
  <2>11. /\ cons'.acc[t].added /\ ~cons'.acc[t].done /\ cons'.acc[t].final
         /\ \A u \in Tools \ {t} : cons'.acc[u] = cons.acc[u]
    BY <2>6, <2>10 DEF Declares
  <2>12. Planned'
    <3>1. \A u \in Tools : /\ cons'.acc[u].idx # NoIdx => cons'.acc[u].added
                           /\ cons'.acc[u].argsDone /\ ~cons'.acc[u].done => u = t
                           /\ cons'.acc[u].done => cons'.acc[u].final
      BY <2>1, <2>11
    <3>2. Fits(cons', q[1])
      BY <2>8, <2>11 DEF Fits
    <3>3. \A i \in 1..Len(q) : /\ q[i].op \in ToolOp => q[i].tool \in Tools
                               /\ i < Len(q) => Follows(q[i], q[i + 1])
                               /\ q[i].op # "msgOpen"
      <4>1. CASE Len(q) = 1
        <5>1. \A i \in 1..Len(q) : i = 1 /\ ~(i < Len(q))
          BY <4>1
        <5> QED BY <1>2, <2>8, <5>1
      <4>2. CASE Len(q) = 2 /\ q[1].op = "argsDone" /\ q[1].tool = t
        <5>1. \A i \in 1..Len(q) : i = 1 \/ (i = 2 /\ ~(i < Len(q)))
          BY <4>2
        <5>2. q[2].op = "toolClose" /\ q[2].tool = t
          BY <2>3, <4>2
        <5>3. Follows(q[1], q[2])
          BY <4>2, <5>2 DEF Follows
        <5> QED BY <1>2, <4>2, <5>1, <5>2, <5>3
      <4> QED BY <2>3, <4>1, <4>2
    <3> QED BY <2>3, <2>5, <3>1, <3>2, <3>3 DEF Planned
  <2>13. \A u \in Tools : /\ cons'.acc[u].final /\ ~cons'.acc[u].argsDone => cons'.invalid
                          /\ cons'.acc[u].final => cons.acc[u].final \/ IsDone(h, u)
    <3>1. cons'.acc[t].argsDone <=> cons.acc[t].valid
      BY <2>6 DEF Declares
    <3>2. cons'.invalid <=> cons.invalid \/ ~cons.acc[t].valid
      BY <2>6 DEF Declares
    <3>3. \A u \in Tools : cons.acc[u].final /\ ~cons.acc[u].argsDone => cons.invalid
      BY DEF Inv, Told
    <3> QED BY <1>2, <2>11, <3>1, <3>2, <3>3
  <2>14. \A u \in Tools : /\ Known(u) => Known(u)'
                          /\ ~Announces(h, u)
    <3>1. cons'.special = cons.special /\ \A u \in Tools : cons'.acc[u].idx = cons.acc[u].idx
      BY <2>6 DEF Declares
    <3> QED BY <1>1, <2>7, <3>1 DEF Known, Announces
  <2> HIDE DEF h
  <2>15. Taken(h)
    BY <2>5, <2>6, <2>9, <2>12, <2>13, <2>14 DEF Taken
  <2> QED BY <1>1, <2>15, TakeInv
<1> QED BY <1>1, <1>3, <1>4

(***************************************************************************)
(* The adapter puts chunks                                                 *)
(***************************************************************************)
\* What the adapter's fields and the chunks of one frame have to be.
Frames(ch) ==
    /\ ch \in Seq(Chunk)
    /\ \A k \in DOMAIN ch : /\ ch[k].type \in {"tool_call", "tool_call_done"} => ch[k].tool \in Tools
                            /\ \A t \in Tools : IsDone(ch[k], t) =>
                                  /\ t \in up'.closed /\ \E i \in DOMAIN up.open : up.open[i] = t
                                  /\ \A j \in DOMAIN ch : IsDone(ch[j], t) => j = k
    /\ \A i, k \in DOMAIN up'.open : up'.open[i] = up'.open[k] => i = k
    /\ \A i \in DOMAIN up'.open :
          /\ up'.open[i] \in up'.begun \ up'.closed
          /\ \/ \E k \in DOMAIN up.open : up.open[k] = up'.open[i]
             \/ \E k \in DOMAIN ch : Announces(ch[k], up'.open[i])
    /\ \A t \in up'.begun : t \in up'.closed \/ \E i \in DOMAIN up'.open : up'.open[i] = t
    /\ up.closed \subseteq up'.closed

\* What the queue is after a put.
Puts(ch) ==
    /\ queue \in Seq(Chunk) /\ queue' \in Seq(Chunk) /\ Len(queue) \in Nat
    /\ \A i \in DOMAIN queue : i \in DOMAIN queue' /\ queue'[i] = queue[i]
    /\ \A k \in DOMAIN ch : (Len(queue) + k) \in DOMAIN queue' /\ queue'[Len(queue) + k] = ch[k]
    /\ \A i \in DOMAIN queue' : \/ i \in DOMAIN queue /\ queue'[i] = queue[i]
                                \/ i \notin DOMAIN queue /\ \E k \in DOMAIN ch : i = Len(queue) + k /\ queue'[i] = ch[k]
    /\ \A i \in DOMAIN queue : \A k \in DOMAIN ch : i < Len(queue) + k

\* The queue is lengthened.
LEMMA PutsIs ==
    ASSUME NEW ch \in Seq(Chunk), queue \in Seq(Chunk), queue' = queue \o ch
    PROVE  Puts(ch)
<1>1. /\ queue' \in Seq(Chunk)
      /\ \A i \in DOMAIN queue : queue'[i] = queue[i]
      /\ \A k \in DOMAIN ch : (Len(queue) + k) \in DOMAIN queue' /\ queue'[Len(queue) + k] = ch[k]
      /\ \A i \in DOMAIN queue' :
            \/ i \in DOMAIN queue /\ queue'[i] = queue[i]
            \/ i \notin DOMAIN queue /\ \E k \in DOMAIN ch : i = Len(queue) + k /\ queue'[i] = ch[k]
      /\ DOMAIN queue' = 1..(Len(queue) + Len(ch))
  BY Concat
<1>2. Len(queue) \in Nat /\ Len(ch) \in Nat /\ DOMAIN queue = 1..Len(queue) /\ DOMAIN ch = 1..Len(ch)
  OBVIOUS
<1>3. \A i \in 1..Len(queue) : i \in 1..(Len(queue) + Len(ch))
  BY <1>2
<1>4. \A i \in 1..Len(queue) : \A k \in 1..Len(ch) : i < Len(queue) + k
  BY <1>2
<1> QED BY <1>1, <1>2, <1>3, <1>4 DEF Puts

\* The queue and the adapter after a frame.
LEMMA PutQueued ==
    ASSUME Inv, cons.pc = "run", NEW ch, Frames(ch), Puts(ch), cons' = cons, cfg' = cfg
    PROVE  Queued'
<1>1. Adapter /\ Terminators /\ ToolChunks /\ (\A t \in Tools : cons.acc[t].final => t \in up.closed)
  BY DEF Inv, Queued
<1>2. \A t : Known(t)' <=> Known(t)
  BY DEF Known
<1>3. up.open \in Seq(Tools)
  BY DEF Inv, TypeOK
<1>4. ASSUME NEW t, NEW k \in DOMAIN up.open, up.open[k] = t
      PROVE  Known(t) \/ \E i \in DOMAIN queue : Announces(queue[i], t)
  BY <1>1, <1>4 DEF Adapter
<1>5. \A t \in Tools : (\E i \in DOMAIN up.open : up.open[i] = t) => t \notin up.closed
  BY <1>1 DEF Adapter
<1>6. Adapter'
  <2>1. ASSUME NEW i \in DOMAIN up'.open, NEW t, t = up'.open[i]
        PROVE  Known(t) \/ \E k \in DOMAIN queue' : Announces(queue'[k], t)
    <3>1. CASE \E k \in DOMAIN up.open : up.open[k] = t
      BY <1>4, <3>1 DEF Puts
    <3>2. CASE \E k \in DOMAIN ch : Announces(ch[k], t)
      BY <3>2 DEF Puts
    <3> QED BY <2>1, <3>1, <3>2 DEF Frames
  <2>2. \A i \in DOMAIN up'.open : \/ Known(up.open[i])'
                                   \/ \E k \in DOMAIN queue' : Announces(queue[k], up.open[i])'
    BY <2>1 DEF Known, Announces
  <2> QED BY <2>2 DEF Adapter, Frames
<1>7. Terminators'
  <2> SUFFICES ASSUME NEW i \in DOMAIN queue', NEW t \in Tools, IsDone(queue'[i], t)
               PROVE  /\ t \in up'.closed /\ ~cons.acc[t].final
                      /\ \A k \in DOMAIN queue' : IsDone(queue'[k], t) => k = i
                      /\ Known(t) \/ \E k \in DOMAIN queue' : k < i /\ Announces(queue'[k], t)
    BY <1>2 DEF Terminators, IsDone, Announces
  <2>1. CASE i \in DOMAIN queue /\ queue'[i] = queue[i]
    <3>1. /\ t \in up.closed /\ ~cons.acc[t].final
          /\ \A k \in DOMAIN queue : IsDone(queue[k], t) => k = i
          /\ Known(t) \/ \E k \in DOMAIN queue : k < i /\ Announces(queue[k], t)
      BY <1>1, <2>1 DEF Terminators
    <3>2. \A k \in DOMAIN ch : ~IsDone(ch[k], t)
      BY <1>5, <3>1 DEF Frames
    <3>3. \A k \in DOMAIN queue' : IsDone(queue'[k], t) => k = i
      BY <3>1, <3>2 DEF Puts
    <3>4. t \in up'.closed
      BY <3>1 DEF Frames
    <3> QED BY <3>1, <3>3, <3>4 DEF Puts
  <2>2. ASSUME NEW j \in DOMAIN ch, i = Len(queue) + j, queue'[i] = ch[j], i \notin DOMAIN queue
        PROVE  /\ t \in up'.closed /\ ~cons.acc[t].final
               /\ \A k \in DOMAIN queue' : IsDone(queue'[k], t) => k = i
               /\ Known(t) \/ \E k \in DOMAIN queue' : k < i /\ Announces(queue'[k], t)
    <3>1. /\ t \in up'.closed /\ \E k \in DOMAIN up.open : up.open[k] = t
          /\ \A k \in DOMAIN ch : IsDone(ch[k], t) => k = j
      BY <2>2 DEF Frames
    <3>2. t \notin up.closed
      BY <1>5, <3>1
    <3>3. ~cons.acc[t].final /\ \A k \in DOMAIN queue : ~IsDone(queue[k], t)
      BY <1>1, <3>2 DEF Terminators
    <3>4. \A k \in DOMAIN queue' : IsDone(queue'[k], t) => k = i
      BY <2>2, <3>1, <3>3 DEF Puts
    <3>5. Known(t) \/ \E k \in DOMAIN queue : Announces(queue[k], t)
      BY <1>4, <3>1
    <3>6. \A k \in DOMAIN queue : k \in DOMAIN queue' /\ k < i /\ queue'[k] = queue[k]
      BY <2>2 DEF Puts
    <3> QED BY <3>1, <3>3, <3>4, <3>5, <3>6
  <2> QED BY <2>1, <2>2 DEF Puts
<1>8. ToolChunks'
  BY <1>1 DEF ToolChunks, Puts, Frames
<1>9. \A t \in Tools : cons'.acc[t].final => t \in up'.closed
  BY <1>1 DEF Frames
<1> QED BY <1>6, <1>7, <1>8, <1>9 DEF Queued

\* The part of the invariant that is not about the queue.
LEMMA PutRest ==
    ASSUME Inv, Between, UNCHANGED <<cfg, cons, log, shown, faults>>
    PROVE  Planned' /\ Ending' /\ Tracked'
<1>1. Tracked
  BY BetweenIs
<1>2. Tracked'
  BY <1>1 DEF Tracked, Numbered, Calls, Items, Listed, AddedFirst, EachOnce, ReasoningFirst, At, Same, Done
<1>3. Planned'
  BY DEF Inv, Planned
<1>4. Ending'
  BY DEF Inv, Ending, Between
<1> QED BY <1>2, <1>3, <1>4

\* A frame keeps the invariant.
LEMMA PutInv ==
    ASSUME Inv, NEW u, NEW ch, Put(u, ch), Frames(ch), \A k \in DOMAIN ch : ch[k].type \notin Stops,
           u \in [left : 0..MaxFrames, open : Seq(Tools), closed : SUBSET Tools, begun : SUBSET Tools,
                  finished : BOOLEAN, live : BOOLEAN], u.left = up.left
    PROVE  Inv'
<1>1. /\ Feeding /\ Between /\ up.left > 0 /\ up' = [u EXCEPT !.left = u.left - 1] /\ queue' = queue \o ch
      /\ produced' = (produced \/ ch # <<>>) /\ UNCHANGED <<cfg, timer, watch, cons, log, shown, faults>>
  BY DEF Put, Feeding
<1>2. cons.pc = "run" /\ cons.todo = <<>> /\ ch \in Seq(Chunk) /\ queue \in Seq(Chunk) /\ MaxFrames \in Nat
  BY <1>1, PipelineAssumption DEF Between, Inv, TypeOK, Frames
<1>3. Puts(ch)
  BY <1>1, <1>2, PutsIs
<1>4. TypeOK'
  <2>1. u.left - 1 \in 0..MaxFrames
    BY <1>1, <1>2
  <2>2. up' \in [left : 0..MaxFrames, open : Seq(Tools), closed : SUBSET Tools, begun : SUBSET Tools,
                 finished : BOOLEAN, live : BOOLEAN]
    BY <1>1, <2>1
  <2>3. queue' \in Seq(Chunk) /\ produced' \in BOOLEAN
    BY <1>1, <1>3 DEF Puts
  <2> QED BY <1>1, <2>2, <2>3 DEF Inv, TypeOK
<1>5. Queued'
  BY <1>1, <1>2, <1>3, PutQueued
<1>6. \A i \in DOMAIN queue' : queue'[i].type \notin Stops
  BY <1>1, <1>3 DEF Feeding, Puts, Frames
<1>7. Told'
  <2>1. cons.why = "none"
    BY <1>2 DEF Inv, Told
  <2>2. ~produced' => ~produced /\ DOMAIN queue' = {}
    <3>1. ~produced' => ~produced /\ ch = <<>>
      BY <1>1
    <3>2. ~produced => DOMAIN queue = {}
      BY <1>1 DEF Inv, Told, Feeding
    <3>3. ch = <<>> => DOMAIN ch = {}
      OBVIOUS
    <3> QED BY <1>3, <3>1, <3>2, <3>3 DEF Puts
  <2>3. \A i \in DOMAIN queue' : queue'[i].type \notin {"first_token", "client_cancel"}
    BY <1>6 DEF Stops, Timeouts
  <2> QED BY <1>1, <1>2, <2>1, <2>2, <2>3 DEF Inv, Told
<1> QED BY <1>1, <1>4, <1>5, <1>7, PutRest DEF Inv

\* A frame, or a stop, that is about no tool call.
LEMMA FramesSame ==
    ASSUME Inv, cons.pc = "run", up'.open = up.open, up'.closed = up.closed, up'.begun = up.begun,
           NEW ch \in Seq(Chunk), \A k \in DOMAIN ch : ch[k].type \notin {"tool_call", "tool_call_done"}
    PROVE  Frames(ch)
<1>1. Adapter
  BY DEF Inv, Queued
<1>2. \A k \in DOMAIN ch : \A t : ~IsDone(ch[k], t)
  BY DEF IsDone
<1> QED BY <1>1, <1>2 DEF Frames, Adapter

\* The type of the adapter's fields.
UpType == [left : 0..MaxFrames, open : Seq(Tools), closed : SUBSET Tools, begun : SUBSET Tools,
           finished : BOOLEAN, live : BOOLEAN]

\* The chunks are chunks.
LEMMA ChunkType ==
    /\ \A type \in {"text", "reasoning", "raw_added", "raw_done", "finish"} \cup Stops :
          Simple(type) \in Chunk /\ Simple(type).type = type
    /\ \A t \in Tools : DoneOf(t) \in Chunk /\ DoneOf(t).type = "tool_call_done" /\ DoneOf(t).tool = t
    /\ \A t \in Tools, n, ok \in BOOLEAN : /\ Fragment(t, n, ok) \in Chunk /\ Fragment(t, n, ok).type = "tool_call"
                                           /\ Fragment(t, n, ok).tool = t /\ Fragment(t, n, ok).named = n
BY DEF Simple, DoneOf, Fragment, Chunk

\* A frame that leads to a chunk without a call.
LEMMA PutSimple ==
    ASSUME Inv, NEW ch \in Seq(Chunk), Put(up, ch),
           \A k \in DOMAIN ch : ch[k].type \notin Stops \cup {"tool_call", "tool_call_done"}
    PROVE  Inv'
<1>1. up \in UpType /\ up' = [up EXCEPT !.left = @ - 1] /\ cons.pc = "run"
  BY DEF Inv, TypeOK, UpType, Put, Feeding, Between
<1>2. up'.open = up.open /\ up'.closed = up.closed /\ up'.begun = up.begun
  BY <1>1 DEF UpType
<1>3. Frames(ch)
  BY <1>1, <1>2, FramesSame
<1> QED BY <1>1, <1>3, PutInv DEF UpType

\* The frames without a call keep the invariant.
LEMMA UpSimpleInv ==
    ASSUME Inv, UpText \/ UpReasoning \/ \E type \in {"raw_added", "raw_done"} : UpRawItem(type)
    PROVE  Inv'
<1>1. PICK type \in {"text", "reasoning", "raw_added", "raw_done"} : Put(up, <<Simple(type)>>)
  BY DEF UpText, UpReasoning, UpRawItem
<1>2. Simple(type) \in Chunk /\ Simple(type).type = type /\ type \notin Stops \cup {"tool_call", "tool_call_done"}
  BY ChunkType DEF Stops, Timeouts
<1> DEFINE ch == <<Simple(type)>>
<1>3. ch \in Seq(Chunk) /\ \A k \in DOMAIN ch : ch[k].type = type
  <2> DEFINE x == Simple(type)
  <2> HIDE DEF x
  <2>1. <<x>> \in Seq(Chunk) /\ \A k \in DOMAIN <<x>> : <<x>>[k] = x
    BY <1>2 DEF x
  <2> QED BY <1>2, <2>1 DEF x
<1> HIDE DEF ch
<1> QED BY <1>1, <1>2, <1>3, PutSimple DEF ch

\* A frame without a chunk.
LEMMA PutNothing ==
    ASSUME Inv, Put(up, <<>>)
    PROVE  Inv'
<1>1. <<>> \in Seq(Chunk) /\ DOMAIN <<>> = {}
  OBVIOUS
<1> QED BY <1>1, PutSimple

\* A fragment: the call is tracked, unless the adapter has closed it.
LEMMA UpToolCallInv ==
    ASSUME Inv, NEW t \in Tools, NEW ok \in BOOLEAN, UpToolCall(t, ok)
    PROVE  Inv'
<1> DEFINE first == t \notin up.begun
           v == IF cfg.dialect = "anthropic" /\ ~first THEN up ELSE TrackTool(t)
           u == [v EXCEPT !.begun = @ \cup {t}]
           x == Fragment(t, first, ok)
           ch == <<x>>
<1>1. Put(u, ch)
  BY DEF UpToolCall
<1>2. up \in UpType /\ cons.pc = "run" /\ Adapter
  BY <1>1 DEF Inv, TypeOK, UpType, Put, Feeding, Between, Queued
<1>3. x \in Chunk /\ x.type = "tool_call" /\ x.tool = t /\ x.named = first
  <2>1. first \in BOOLEAN
    OBVIOUS
  <2> HIDE DEF first
  <2> QED BY <2>1, ChunkType
<1> HIDE DEF x
<1>4. ch \in Seq(Chunk) /\ DOMAIN ch = {1} /\ ch[1] = x
  BY <1>3
<1>5. /\ v \in UpType /\ v.left = up.left /\ v.closed = up.closed /\ v.begun = up.begun
      /\ \/ v.open = up.open /\ (t \in up.begun \/ t \in up.closed \/ \E i \in DOMAIN up.open : up.open[i] = t)
         \/ /\ v.open = Append(up.open, t) /\ t \notin up.closed
            /\ \A i \in DOMAIN up.open : up.open[i] # t
  <2>1. CASE v = up /\ (t \in up.begun \/ t \in up.closed \/ Contains(up.open, t))
    <3>1. up.open \in Seq(Tools) /\ DOMAIN up.open = 1..Len(up.open)
      BY <1>2 DEF UpType
    <3> QED BY <1>2, <2>1, <3>1 DEF Contains
  <2>2. CASE v = [up EXCEPT !.open = Append(@, t)] /\ t \notin up.closed /\ ~Contains(up.open, t)
    <3>1. up.open \in Seq(Tools) /\ DOMAIN up.open = 1..Len(up.open)
      BY <1>2 DEF UpType
    <3>2. Append(up.open, t) \in Seq(Tools)
      BY <3>1
    <3>3. v \in UpType /\ v.left = up.left /\ v.closed = up.closed /\ v.begun = up.begun /\ v.open = Append(up.open, t)
      <4> HIDE DEF v
      <4> QED BY <1>2, <2>2, <3>2 DEF UpType
    <3> QED BY <2>2, <3>1, <3>3 DEF Contains
  <2> QED BY <2>1, <2>2 DEF TrackTool
<1> HIDE DEF v
<1>6. u \in UpType /\ u.left = up.left /\ u.closed = up.closed /\ u.begun = up.begun \cup {t} /\ u.open = v.open
  BY <1>5 DEF UpType
<1> HIDE DEF u
<1>7. up'.closed = up.closed /\ up'.begun = up.begun \cup {t} /\ up'.open = v.open
  <2>1. up' = [u EXCEPT !.left = u.left - 1]
    BY <1>1 DEF Put
  <2> QED BY <1>6, <2>1 DEF UpType
<1> HIDE DEF ch
<1>8. \A k \in DOMAIN ch : /\ ch[k].type = "tool_call" /\ ch[k].tool = t /\ ch[k].type \notin Stops
                           /\ \A s : ~IsDone(ch[k], s)
  BY <1>3, <1>4 DEF Stops, Timeouts, IsDone
<1>9. Frames(ch)
  <2>1. CASE v.open = up.open /\ (t \in up.begun \/ t \in up.closed \/ \E i \in DOMAIN up.open : up.open[i] = t)
    <3>1. \A s \in up'.begun : s \in up'.closed \/ \E i \in DOMAIN up'.open : up'.open[i] = s
      BY <1>2, <1>7, <2>1 DEF Adapter
    <3> QED BY <1>2, <1>4, <1>7, <1>8, <2>1, <3>1 DEF Frames, Adapter
  <2>2. CASE /\ v.open = Append(up.open, t) /\ t \notin up.closed
             /\ \A i \in DOMAIN up.open : up.open[i] # t
    <3> DEFINE n == Len(up.open)
    <3>1. /\ up.open \in Seq(Tools) /\ n \in Nat /\ DOMAIN up.open = 1..n /\ DOMAIN up'.open = 1..(n + 1)
          /\ up'.open[n + 1] = t /\ \A i \in 1..n : up'.open[i] = up.open[i]
      BY <1>2, <1>7, <2>2 DEF UpType
    <3>2. first
      BY <1>2, <2>2 DEF Adapter
    <3>3. Announces(ch[1], t)
      BY <1>3, <1>4, <3>2 DEF Announces
    <3> HIDE DEF n
    <3>4. \A i \in 1..(n + 1) : i \in 1..n \/ i = n + 1
      BY <3>1
    <3>5. \A i, k \in DOMAIN up'.open : up'.open[i] = up'.open[k] => i = k
      BY <1>2, <2>2, <3>1, <3>4 DEF Adapter
    <3>6. \A i \in DOMAIN up'.open :
             /\ up'.open[i] \in up'.begun \ up'.closed
             /\ \/ \E k \in DOMAIN up.open : up.open[k] = up'.open[i]
                \/ \E k \in DOMAIN ch : Announces(ch[k], up'.open[i])
      <4> TAKE i \in DOMAIN up'.open
      <4>1. CASE i \in 1..n
        BY <1>2, <1>7, <3>1, <4>1 DEF Adapter
      <4>2. CASE i = n + 1
        BY <1>4, <1>7, <2>2, <3>1, <3>3, <4>2
      <4> QED BY <3>1, <3>4, <4>1, <4>2
    <3>7. \A s \in up'.begun : s \in up'.closed \/ \E i \in DOMAIN up'.open : up'.open[i] = s
      <4> TAKE s \in up'.begun
      <4>1. n + 1 \in 1..(n + 1) /\ 1..n \subseteq 1..(n + 1)
        BY <3>1
      <4> QED BY <1>2, <1>7, <3>1, <4>1 DEF Adapter
    <3> QED BY <1>4, <1>7, <1>8, <3>5, <3>6, <3>7 DEF Frames
  <2> QED BY <1>5, <2>1, <2>2
<1> QED BY <1>1, <1>6, <1>8, <1>9, PutInv DEF UpType

\* The end of a call: it leaves the open calls, and its terminator is the only one.
LEMMA UpToolStopInv ==
    ASSUME Inv, NEW t \in Tools, UpToolStop(t)
    PROVE  Inv'
<1>1. CASE Put(up, <<>>)
  BY <1>1, PutNothing
<1>2. CASE /\ Contains(up.open, t)
           /\ Put([up EXCEPT !.open = RemoveFirst(@, t), !.closed = @ \cup {t}], <<DoneOf(t)>>)
  <2> DEFINE r == RemoveFirst(up.open, t)
             u == [up EXCEPT !.open = r, !.closed = up.closed \cup {t}]
             x == DoneOf(t)
             ch == <<x>>
  <2>1. Put(u, ch)
    BY <1>2
  <2>2. up \in UpType /\ up.open \in Seq(Tools) /\ cons.pc = "run" /\ Adapter
    BY <2>1 DEF Inv, TypeOK, UpType, Put, Feeding, Between, Queued
  <2>3. x \in Chunk /\ x.type = "tool_call_done" /\ x.tool = t
    BY ChunkType
  <2>4. PICK m \in DOMAIN up.open : up.open[m] = t
    BY <1>2, <2>2 DEF Contains
  <2> HIDE DEF x
  <2>5. ch \in Seq(Chunk) /\ DOMAIN ch = {1} /\ ch[1] = x
    BY <2>3
  <2>6. /\ r \in Seq(Tools)
        /\ \A i \in DOMAIN r : r[i] # t /\ \E k \in DOMAIN up.open : r[i] = up.open[k]
        /\ \A k \in DOMAIN up.open : up.open[k] # t => \E i \in DOMAIN r : r[i] = up.open[k]
        /\ \A i, k \in DOMAIN r : r[i] = r[k] => i = k
    <3>1. \A i, k \in DOMAIN up.open : up.open[i] = up.open[k] => i = k
      BY <2>2 DEF Adapter
    <3> QED BY <2>2, <3>1, RemoveFirstOnce
  <2> HIDE DEF r
  <2>7. u \in UpType /\ u.left = up.left /\ u.open = r /\ u.closed = up.closed \cup {t} /\ u.begun = up.begun
    BY <2>2, <2>6 DEF UpType
  <2> HIDE DEF u, ch
  <2>8. up'.open = r /\ up'.closed = up.closed \cup {t} /\ up'.begun = up.begun
    <3>1. up' = [u EXCEPT !.left = u.left - 1]
      BY <2>1 DEF Put
    <3> QED BY <2>7, <3>1 DEF UpType
  <2>9. \A k \in DOMAIN ch : k = 1 /\ ch[k].type = "tool_call_done" /\ ch[k].tool = t /\ ch[k].type \notin Stops
    BY <2>3, <2>5 DEF Stops, Timeouts
  <2>10. \A s \in up'.begun : s \in up'.closed \/ \E i \in DOMAIN up'.open : up'.open[i] = s
    <3> TAKE s \in up'.begun
    <3>1. s \in up.closed \/ \E k \in DOMAIN up.open : up.open[k] = s
      BY <2>2, <2>8 DEF Adapter
    <3> QED BY <2>6, <2>8, <3>1
  <2>11. \A i \in DOMAIN up'.open : /\ up'.open[i] \in up'.begun \ up'.closed
                                    /\ \E k \in DOMAIN up.open : up.open[k] = up'.open[i]
    <3> TAKE i \in DOMAIN up'.open
    <3>1. PICK k \in DOMAIN up.open : r[i] = up.open[k] /\ r[i] # t
      BY <2>6, <2>8
    <3> QED BY <2>2, <2>8, <3>1 DEF Adapter
  <2>12. Frames(ch)
    BY <2>4, <2>5, <2>6, <2>8, <2>9, <2>10, <2>11 DEF Frames, IsDone
  <2> QED BY <2>1, <2>7, <2>9, <2>12, PutInv DEF UpType
<1> QED BY <1>1, <1>2 DEF UpToolStop

\* The finish: a terminator for every open call, once.
LEMMA UpFinishInv ==
    ASSUME Inv, UpFinish
    PROVE  Inv'
<1>1. CASE Put(up, <<>>)
  BY <1>1, PutNothing
<1> DEFINE u == [up EXCEPT !.finished = TRUE, !.open = <<>>, !.closed = up.closed \cup ToSet(up.open)]
           a == [i \in DOMAIN up.open |-> DoneOf(up.open[i])]
           b == <<Simple("finish")>>
           ch == a \o b
<1>2. CASE Put(u, ch)
  <2>2. up \in UpType /\ up.open \in Seq(Tools) /\ cons.pc = "run" /\ Adapter
    BY <1>2 DEF Inv, TypeOK, UpType, Put, Feeding, Between, Queued
  <2>3. a \in Seq(Chunk) /\ DOMAIN a = DOMAIN up.open
        /\ \A i \in DOMAIN a : a[i].type = "tool_call_done" /\ a[i].tool = up.open[i] /\ up.open[i] \in Tools
    <3>1. \A i \in DOMAIN up.open : up.open[i] \in Tools
      BY <2>2
    <3>2. \A i \in DOMAIN up.open : DoneOf(up.open[i]) \in Chunk /\ DoneOf(up.open[i]).type = "tool_call_done"
                                    /\ DoneOf(up.open[i]).tool = up.open[i]
      BY <3>1, ChunkType
    <3>3. DOMAIN up.open = 1..Len(up.open) /\ Len(up.open) \in Nat
      BY <2>2
    <3> QED BY <3>1, <3>2, <3>3
  <2>4. b \in Seq(Chunk) /\ \A i \in DOMAIN b : b[i].type = "finish"
    <3> DEFINE x == Simple("finish")
    <3>1. x \in Chunk /\ x.type = "finish"
      BY ChunkType
    <3> HIDE DEF x
    <3>2. <<x>> \in Seq(Chunk) /\ \A i \in DOMAIN <<x>> : <<x>>[i] = x
      BY <3>1
    <3> QED BY <3>1, <3>2 DEF x
  <2> HIDE DEF a, b
  <2>5. /\ ch \in Seq(Chunk)
        /\ \A i \in DOMAIN ch : \/ i \in DOMAIN a /\ ch[i] = a[i]
                                \/ i \notin DOMAIN a /\ \E k \in DOMAIN b : ch[i] = b[k]
    <3>1. /\ a \o b \in Seq(Chunk)
          /\ \A i \in DOMAIN (a \o b) :
                 \/ i \in DOMAIN a /\ (a \o b)[i] = a[i]
                 \/ i \notin DOMAIN a /\ \E k \in DOMAIN b : i = Len(a) + k /\ (a \o b)[i] = b[k]
      BY <2>3, <2>4, Concat
    <3> QED BY <3>1
  <2> HIDE DEF ch
  <2>6. \A k \in DOMAIN ch : /\ ch[k].type \notin Stops
                             /\ \/ ch[k].type = "tool_call_done" /\ k \in DOMAIN up.open /\ ch[k].tool = up.open[k] /\ up.open[k] \in Tools
                                \/ ch[k].type = "finish"
    BY <2>3, <2>4, <2>5 DEF Stops, Timeouts
  <2>7. u \in UpType /\ u.left = up.left /\ u.open = <<>> /\ u.closed = up.closed \cup ToSet(up.open) /\ u.begun = up.begun
    <3>1. ToSet(up.open) \in SUBSET Tools
      BY <2>2 DEF ToSet
    <3>2. <<>> \in Seq(Tools)
      OBVIOUS
    <3> QED BY <2>2, <3>1, <3>2 DEF UpType
  <2> HIDE DEF u
  <2>8. up'.open = <<>> /\ up'.closed = up.closed \cup ToSet(up.open) /\ up'.begun = up.begun /\ DOMAIN up'.open = {}
    <3>1. up' = [u EXCEPT !.left = u.left - 1]
      BY <1>2 DEF Put
    <3> QED BY <2>7, <3>1 DEF UpType
  <2>9. \A i \in DOMAIN up.open : up.open[i] \in up'.closed
    BY <2>8 DEF ToSet
  <2>10. \A s \in up'.begun : s \in up'.closed
    BY <2>2, <2>8, <2>9 DEF Adapter
  <2>11. \A k \in DOMAIN ch : \A s \in Tools : IsDone(ch[k], s) => k \in DOMAIN up.open /\ up.open[k] = s
    BY <2>6 DEF IsDone
  <2>12. \A i, k \in DOMAIN up.open : up.open[i] = up.open[k] => i = k
    BY <2>2 DEF Adapter
  <2>13. Frames(ch)
    BY <2>5, <2>6, <2>8, <2>9, <2>10, <2>11, <2>12 DEF Frames
  <2> QED BY <1>2, <2>6, <2>7, <2>13, PutInv DEF UpType
<1> QED BY <1>1, <1>2 DEF UpFinish

\* A stop is put: the end of the body, a limit, or the client's cancellation.
LEMMA StopPutInv ==
    ASSUME Inv, Feeding, NEW k \in Stops, queue' = Append(queue, Simple(k)),
           up'.open = up.open, up'.closed = up.closed, up'.begun = up.begun, up' \in UpType,
           timer' \in {"on", "off"}, watch' \in {"on", "off"}, watch = "off" => watch' = "off",
           k = "first_token" => ~produced, k = "client_cancel" => watch' = "off",
           UNCHANGED <<cfg, produced, cons, log, shown, faults>>
    PROVE  Inv'
<1> DEFINE x == Simple(k)
           ch == <<x>>
<1>1. x \in Chunk /\ x.type = k /\ queue \in Seq(Chunk) /\ Between
  <2>1. x \in Chunk /\ x.type = k
    BY ChunkType, Zenon
  <2>2. queue \in Seq(Chunk)
    BY Zenon DEF Inv, TypeOK
  <2>3. Between
    BY Zenon DEF Feeding
  <2> QED BY <2>1, <2>2, <2>3, Zenon
<1> HIDE DEF x
<1>2. queue' = queue \o ch /\ ch \in Seq(Chunk) /\ DOMAIN ch = {1} /\ ch[1] = x
  BY <1>1 DEF x
<1> HIDE DEF ch
<1>3. Puts(ch)
  BY <1>1, <1>2, PutsIs
<1>4. k \notin {"tool_call", "tool_call_done"}
  BY DEF Stops, Timeouts
<1>5. cons.pc = "run" /\ Frames(ch)
  BY <1>1, <1>2, <1>4, FramesSame DEF Between
<1>6. Queued'
  BY <1>3, <1>5, PutQueued
<1>7. TypeOK'
  BY <1>3 DEF Inv, TypeOK, UpType, Puts
<1>8. \A i \in DOMAIN queue' : queue'[i].type = k \/ (queue'[i].type \notin Stops /\ i \in DOMAIN queue /\ queue'[i] = queue[i])
  BY <1>1, <1>2, <1>3 DEF Puts, Feeding
<1>9. \A i \in DOMAIN queue' : /\ queue'[i].type = "first_token" => ~produced
                               /\ queue'[i].type = "client_cancel" => watch' = "off"
  BY <1>8 DEF Stops, Timeouts
<1>10. ~produced => \A i \in DOMAIN queue' : queue'[i].type \in Stops
  BY <1>8 DEF Inv, Told
<1>11. Told'
  BY <1>9, <1>10 DEF Inv, Told
<1> QED BY <1>1, <1>6, <1>7, <1>11, PutRest DEF Inv

\* The ways a stop is put.
LEMMA StopsInv ==
    ASSUME Inv, UpStops \/ MonitorFires \/ WatchCancel
    PROVE  Inv'
<1>1. up \in UpType /\ timer \in {"on", "off"} /\ watch \in {"on", "off"}
  BY DEF Inv, TypeOK, UpType
<1>2. CASE UpStops
  <2>1. /\ Feeding /\ up' = [up EXCEPT !.live = FALSE]
        /\ UNCHANGED <<cfg, produced, timer, watch, cons, log, shown, faults>>
    BY <1>2 DEF UpStops
  <2>2. PICK k \in {"upstream_end", "upstream_error"} : queue' = Append(queue, Simple(k))
    BY <1>2 DEF UpStops
  <2>3. up' \in UpType /\ up'.open = up.open /\ up'.closed = up.closed /\ up'.begun = up.begun
    BY <1>1, <2>1 DEF UpType
  <2>4. k \in Stops /\ k # "first_token" /\ k # "client_cancel"
    BY DEF Stops
  <2> QED BY <1>1, <2>1, <2>2, <2>3, <2>4, StopPutInv
<1>3. CASE MonitorFires
  <2>1. /\ Feeding /\ timer' = "off"
        /\ UNCHANGED <<cfg, up, produced, watch, cons, log, shown, faults>>
    BY <1>3 DEF MonitorFires
  <2>2. PICK k \in Due : queue' = Append(queue, Simple(k))
    BY <1>3 DEF MonitorFires
  <2>3. k \in Stops /\ (k = "first_token" => ~produced) /\ k # "client_cancel"
    BY <2>2 DEF Due, Stops, Timeouts
  <2> QED BY <1>1, <2>1, <2>2, <2>3, StopPutInv
<1>4. CASE WatchCancel
  <2>1. /\ Feeding /\ watch' = "off" /\ queue' = Append(queue, Simple("client_cancel"))
        /\ UNCHANGED <<cfg, up, produced, timer, cons, log, shown, faults>>
    BY <1>4 DEF WatchCancel
  <2>2. "client_cancel" \in Stops /\ "client_cancel" # "first_token"
    BY DEF Stops
  <2> QED BY <1>1, <2>1, <2>2, StopPutInv
<1> QED BY <1>2, <1>3, <1>4

(***************************************************************************)
(* The theorems                                                            *)
(***************************************************************************)
\* The invariant holds of a new stream.
LEMMA InitInv ==
    ASSUME Init
    PROVE  Inv
<1> DEFINE a == Do("created")
           q == <<a>>
           acc == [t \in Tools |-> NoAcc]
<1>1. a \in Op /\ a.op = "created" /\ NoIdx \in Int /\ NoIdx = -1
  <2>1. "created" \in Ops
    BY DEF Ops
  <2> QED BY <2>1, DoType DEF NoIdx
<1>2. NoAcc \in Accumulator /\ acc \in [Tools -> Accumulator] /\ \A t \in Tools : acc[t] = NoAcc
  BY <1>1 DEF NoAcc, Accumulator
<1> HIDE DEF a, acc
<1>3. q \in Seq(Op) /\ Len(q) = 1 /\ q[1] = a /\ DOMAIN q = {1} /\ q # <<>>
  BY <1>1
<1> HIDE DEF q
<1>4. cons = [pc |-> "run", todo |-> q, frames |-> {}, out |-> 0, msg |-> NoIdx,
              reason |-> NoIdx, reasoned |-> FALSE, acc |-> acc, special |-> {},
              raw |-> <<>>, finish |-> FALSE, invalid |-> FALSE, why |-> "none"]
  BY DEF Init, q, a, acc
<1>5. <<>> \in Seq(Int) /\ <<>> \in Seq(Chunk) /\ <<>> \in Seq(Frame) /\ <<>> \in Seq(Tools) /\ DOMAIN <<>> = {} /\ "none" \in Reasons
  BY DEF Reasons
<1>6. cons \in State
  BY <1>1, <1>2, <1>3, <1>4, <1>5 DEF State
<1>7. /\ cons.pc = "run" /\ cons.todo = q /\ cons.frames = {} /\ cons.out = 0 /\ cons.msg = NoIdx /\ cons.reason = NoIdx
      /\ cons.acc = acc /\ cons.special = {} /\ cons.raw = <<>> /\ cons.invalid = FALSE /\ cons.why = "none"
  BY <1>4
<1>8. /\ cfg \in Configs /\ up = [left |-> MaxFrames, open |-> <<>>, closed |-> {}, begun |-> {}, finished |-> FALSE, live |-> TRUE]
      /\ produced = FALSE /\ queue = <<>> /\ timer = "on" /\ watch = "on" /\ log = <<>> /\ shown = {} /\ faults = 0
  BY DEF Init
<1>9. \A t \in Tools : /\ cons.acc[t].idx = NoIdx /\ ~cons.acc[t].added /\ ~cons.acc[t].done
                       /\ ~cons.acc[t].argsDone /\ ~cons.acc[t].final
  BY <1>2, <1>7 DEF NoAcc
<1>10. TypeOK
  <2>1. up \in UpType /\ 0 \in 0..MaxFaults
    BY <1>5, <1>8, PipelineAssumption DEF UpType
  <2> QED BY <1>5, <1>6, <1>7, <1>8, <2>1 DEF TypeOK, UpType
<1>11. DOMAIN queue = {} /\ DOMAIN log = {} /\ up.open = <<>> /\ DOMAIN up.open = {} /\ up.begun = {} /\ DOMAIN cons.raw = {}
  BY <1>5, <1>7, <1>8
<1>12. Queued
  BY <1>9, <1>11 DEF Queued, Adapter, Terminators, ToolChunks
<1>13. Planned
  <2>1. \A i \in 1..Len(q) : i = 1 /\ ~(i < Len(q))
    BY <1>3
  <2>2. Fits(cons, a)
    BY <1>1 DEF Fits
  <2> QED BY <1>1, <1>3, <1>7, <1>9, <2>1, <2>2 DEF Planned, ToolOp
<1>14. Ending
  BY <1>3, <1>7, <1>8 DEF Ending
<1>15. Told
  BY <1>1, <1>3, <1>7, <1>9, <1>11 DEF Told
<1>16. Tracked
  <2>1. At("added") = {} /\ At("done") = {} /\ At("delta") = {} /\ At("args_done") = {}
    BY <1>11 DEF At
  <2>2. AddedFirst /\ EachOnce /\ ReasoningFirst
    BY <2>1 DEF AddedFirst, EachOnce, ReasoningFirst
  <2>3. Numbered /\ Listed
    BY <1>11 DEF Numbered, Listed
  <2>4. Calls
    BY <1>9 DEF Calls
  <2>5. Items
    BY <1>1, <1>3, <1>7, <1>11 DEF Items
  <2> QED BY <2>2, <2>3, <2>4, <2>5 DEF Tracked
<1> QED BY <1>10, <1>12, <1>13, <1>14, <1>15, <1>16 DEF Inv

\* Every step keeps the invariant.
LEMMA NextInv ==
    ASSUME Inv, [Next]_vars
    PROVE  Inv'
<1>1. CASE Next
  <2>1. CASE Upstream
    <3>1. CASE UpStops
      BY <3>1, StopsInv
    <3>2. CASE UpFinish
      BY <3>2, UpFinishInv
    <3>3. CASE UpText \/ UpReasoning \/ \E type \in {"raw_added", "raw_done"} : UpRawItem(type)
      BY <3>3, UpSimpleInv
    <3>4. ASSUME NEW t \in Tools, UpToolStop(t) PROVE Inv'
      BY <3>4, UpToolStopInv
    <3>5. ASSUME NEW t \in Tools, NEW ok \in BOOLEAN, UpToolCall(t, ok) PROVE Inv'
      BY <3>5, UpToolCallInv
    <3> QED BY <2>1, <3>1, <3>2, <3>3, <3>4, <3>5 DEF Upstream
  <2>2. CASE Consumer
    BY <2>2, TakeTextInv, TakeReasoningInv, TakeToolCallInv, TakeToolDoneInv, TakeRawInv, TakeFinishInv, StopInv, EmitInv
       DEF Consumer
  <2> QED BY <1>1, <2>1, <2>2, StopsInv, EmitFailsInv, AcloseInv DEF Next
<1>2. CASE UNCHANGED vars
  <2>1. UNCHANGED <<cfg, up, produced, queue, timer, watch, cons, log, shown, faults>>
    BY <1>2 DEF vars
  <2>2. TypeOK' /\ Planned' /\ Ending' /\ Told'
    BY <2>1 DEF Inv, TypeOK, Planned, Ending, Told
  <2>3. Queued'
    BY <2>1 DEF Inv, Queued, Adapter, Terminators, ToolChunks, Known, Announces
  <2>4. faults' = 0 => Tracked'
    BY <2>1 DEF Inv, Tracked, Numbered, Calls, Items, Listed, AddedFirst, EachOnce, ReasoningFirst, At, Same, Done
  <2> QED BY <2>2, <2>3, <2>4 DEF Inv
<1> QED BY <1>1, <1>2

\* The invariant of every reachable state.
LEMMA InvAlways == Spec => []Inv
<1>1. Init => Inv
  BY InitInv
<1>2. Inv /\ [Next]_vars => Inv'
  BY NextInv
<1> QED BY <1>1, <1>2, PTL DEF Spec

\* The last event of the log.
LEMMA LastIs == ASSUME NEW l \in Seq(Frame), l # <<>> PROVE Last(l) = l[Len(l)]
BY DEF Last

\* The item rule of the Responses stream (translate_chunk, _close_open_items):
\* each item is added once and first, done at most once, reasoning before the
\* message, and nothing is open behind the terminal event.
THEOREM ItemLifecycleAlways == Spec => []ItemLifecycle
<1>1. Inv => ItemLifecycle
  <2> SUFFICES ASSUME Inv, faults = 0
               PROVE  AddedFirst /\ EachOnce /\ ReasoningFirst /\ (cons.pc = "ended" => NothingOpen)
    BY DEF ItemLifecycle
  <2>1. Tracked
    BY DEF Inv
  <2>2. ASSUME cons.pc = "ended", NEW i \in DOMAIN log, log[i].ev = "added", ~Done(i) PROVE FALSE
    <3>1. Covers(cons) /\ cons.todo = <<>> /\ cons \in State
      BY <2>2 DEF Inv, Ending, TypeOK
    <3>2. DOMAIN cons.todo = {} /\ NoIdx \in Int /\ \A t \in Tools : t \in Int
      BY <3>1, PipelineAssumption DEF NoIdx
    <3>3. \A op, t : ~Has(cons.todo, op, t)
      BY <3>2 DEF Has
    <3>4. cons.reason = NoIdx /\ cons.msg = NoIdx /\ OpenTools(cons) = {}
      BY <3>1, <3>2, <3>3 DEF Covers, OpenTools
    <3>5. \A k \in DOMAIN cons.raw : FALSE
      <4> SUFFICES ASSUME NEW k \in DOMAIN cons.raw PROVE FALSE
        OBVIOUS
      <4>1. cons.raw[k] \in Int
        BY <3>1 DEF State
      <4> QED BY <3>1, <3>3, <4>1 DEF Covers
    <3>6. log[i].idx # NoIdx
      <4>1. log[i].idx \in 0..(cons.out - 1)
        BY <2>1, <2>2 DEF Tracked, Numbered, ItemEvents
      <4> QED BY <4>1 DEF NoIdx
    <3> QED BY <2>1, <2>2, <3>1, <3>4, <3>5, <3>6 DEF Tracked, Listed, OpenTools
  <2>3. cons.pc = "ended" => NothingOpen
    BY <2>2 DEF NothingOpen, Done
  <2> QED BY <2>1, <2>3 DEF Tracked
<1> QED BY <1>1, InvAlways, PTL

\* U1 (_terminal_frames, _status_for): no stream with unparsed final arguments
\* is completed, and in strict mode none that was cut or timed out; a failing log
\* fails the response, and terminal_reason is true unless the client cancelled.
THEOREM NoWhitewashAlways == Spec => []NoWhitewash
<1>1. Inv => NoWhitewash
  <2> SUFFICES ASSUME Inv, cons.pc = "ended" PROVE NoWhitewash
    BY DEF NoWhitewash
  <2>1. log # <<>> /\ log \in Seq(Frame) /\ Fair(cons, log[Len(log)].ev, faults, cfg.strict) /\ faults \in Nat
    BY DEF Inv, Ending, TypeOK
  <2>2. Last(log) = log[Len(log)]
    BY <2>1, LastIs
  <2>3. \A t \in Tools : cons.acc[t].final /\ ~cons.acc[t].argsDone => cons.invalid
    BY DEF Inv, Told
  <2>4. cons.why \in {"first_token", "connect"} => \A i \in DOMAIN log : log[i].ev # "added"
    BY DEF Inv, Told
  <2>5. cons.why = "none" => cons.finish \/ watch = "off"
    BY DEF Inv, Told
  <2> QED BY <2>1, <2>2, <2>3, <2>4, <2>5 DEF NoWhitewash, Fair
<1> QED BY <1>1, InvAlways, PTL

(***************************************************************************)
(* The refinement                                                          *)
(***************************************************************************)
\* What the handler sees of a stream.
Shows == \E i \in shown : HasContent(log[i])
Running == cons.pc \in {"run", "closing"}

\* A step that shows nothing new and leaves the stream open is no step of the
\* abstract stream.
LEMMA NoStreamStep ==
    ASSUME Running, Running', Shows' = Shows
    PROVE  UNCHANGED Stream!streamVars
BY DEF Running, Shows, Stream!streamVars

\* The steps that neither write nor yield.
LEMMA QuietStep ==
    ASSUME Running, Running', log' = log, shown' = shown
    PROVE  UNCHANGED Stream!streamVars
<1>1. Shows' = Shows
  BY DEF Shows
<1> QED BY <1>1, NoStreamStep

\* An event that is appended, and the yield behind the last one of a chunk.
LEMMA EmitStream ==
    ASSUME Inv, Emit, Inv'
    PROVE  [Stream!Next]_(Stream!streamVars)
<1> DEFINE o == cons.todo[1]
           n == Len(log) + 1
<1>1. PICK f : EmitStep(o, f)
  BY EmitIs
<1>2. /\ log \in Seq(Frame) /\ shown \subseteq DOMAIN log /\ cons.frames \subseteq DOMAIN log /\ Running
      /\ cons.todo # <<>>
  BY DEF Inv, TypeOK, Ending, Emit, Running, State
<1>3. \A i \in DOMAIN log : log'[i] = log[i]
  BY <1>1 DEF EmitStep, Appended
<1>4. log'[n] = f
  BY <1>1 DEF EmitStep, Appended
<1>5. Shows => \E i \in shown : HasContent(log'[i])
  BY <1>2, <1>3 DEF Shows
<1>6. CASE Len(cons.todo) # 1
  <2>1. shown' = shown /\ cons'.pc = cons.pc
    BY <1>1, <1>6 DEF EmitStep
  <2>2. Shows' = Shows
    BY <1>2, <1>3, <2>1 DEF Shows
  <2> QED BY <1>2, <2>1, <2>2, NoStreamStep DEF Running
<1>7. CASE Len(cons.todo) = 1 /\ cons.pc = "run"
  <2>1. shown \subseteq shown' /\ cons'.pc = "run"
    BY <1>1, <1>7 DEF EmitStep
  <2>2. Shows => Shows'
    BY <1>5, <2>1 DEF Shows
  <2>3. CASE Shows' = Shows
    BY <1>2, <2>1, <2>3, NoStreamStep DEF Running
  <2>4. CASE Shows' /\ ~Shows
    <3>1. Stream!Deliver
      BY <1>7, <2>1, <2>4 DEF Shows, Stream!Deliver
    <3> QED BY <3>1 DEF Stream!Next
  <2> QED BY <2>2, <2>3, <2>4 DEF Shows
<1>8. CASE Len(cons.todo) = 1 /\ cons.pc = "closing"
  <2>1. /\ shown' = shown \cup cons.frames \cup {n} /\ cons'.pc = "ended"
    BY <1>1, <1>8 DEF EmitStep
  <2>2. /\ o.op = "end" /\ \A i \in cons.frames : ~HasContent(log[i])
    <3>1. EndPlan(cons, faults, cfg.strict) /\ 1 \in 1..Len(cons.todo) /\ \A i \in cons.frames : ~HasContent(log[i])
      BY <1>8 DEF Inv, Ending
    <3> QED BY <1>8, <3>1 DEF EndPlan
  <2>3. ~HasContent(f)
    <3>1. o.st \in {"completed", "incomplete", "failed"}
      BY <1>1, <2>2 DEF EmitStep, Op
    <3> QED BY <1>1, <2>2, <3>1 DEF EmitStep, Writes, HasContent
  <2>4. Shows' = Shows
    <3>1. \A i \in shown : HasContent(log'[i]) <=> HasContent(log[i])
      BY <1>2, <1>3
    <3>2. \A i \in cons.frames : ~HasContent(log'[i])
      BY <1>2, <1>3, <2>2
    <3>3. ~HasContent(log'[n])
      BY <1>4, <2>3
    <3> HIDE DEF n
    <3>4. Shows' <=> \E i \in shown' : HasContent(log'[i])
      BY DEF Shows, HasContent
    <3> QED BY <2>1, <3>1, <3>2, <3>3, <3>4 DEF Shows
  <2>5. /\ log' \in Seq(Frame) /\ log' # <<>> /\ Fair(cons', log'[Len(log')].ev, faults', cfg'.strict)
    BY <2>1 DEF Inv, Ending, TypeOK
  <2>6. Last(log') = log'[Len(log')]
    BY <2>5, LastIs
  <2>7. /\ Last(log').ev \in {"completed", "incomplete", "failed"}
        /\ cons'.why = "none" => Last(log').ev = "completed"
    BY <2>5, <2>6 DEF Fair
  <2>8. Stream!End
    BY <1>8, <2>1, <2>4, <2>7 DEF Shows, Stream!End
  <2> QED BY <2>8 DEF Stream!Next
<1> QED BY <1>2, <1>6, <1>7, <1>8 DEF Running

\* A failing append ends an open stream with an exception, or closes it.
LEMMA EmitFailsStream ==
    ASSUME Inv, EmitFails
    PROVE  [Stream!Next]_(Stream!streamVars)
<1>1. PICK c : Failed(c)
  BY EmitFailsIs
<1>2. Running /\ log' = log /\ shown' = shown
  BY DEF Inv, TypeOK, Ending, EmitFails, Running, State
<1>3. CASE cons' = Close(c, "internal")
  <2>1. cons'.pc = "closing"
    <3>1. "internal" \in Reasons /\ c \in State /\ 0 \in Nat /\ (0 > 0 => "internal" = "internal")
      BY <1>1 DEF Reasons, Failed
    <3>2. Closes(c, "internal", 0, cons')
      BY <1>3, <3>1, CloseIs
    <3> QED BY <3>2 DEF Closes
  <2> QED BY <1>2, <2>1, QuietStep DEF Running
<1>4. CASE cons' = [c EXCEPT !.pc = "raised", !.todo = <<>>]
  <2>1. cons'.pc = "raised"
    BY <1>1, <1>4 DEF Failed, State
  <2>2. Stream!Raise
    BY <1>2, <2>1 DEF Running, Stream!Raise
  <2> QED BY <2>2 DEF Stream!Next
<1> QED BY <1>1, <1>3, <1>4 DEF Failed

\* The other steps.
LEMMA OtherStream ==
    ASSUME Inv, Next, Inv', ~Emit, ~EmitFails
    PROVE  [Stream!Next]_(Stream!streamVars)
<1>1. CASE Aclose
  <2>1. cons.pc = "run" /\ cons \in State /\ cons' = [cons EXCEPT !.pc = "gone"] /\ log' = log /\ shown' = shown
    BY <1>1 DEF Aclose, Between, Inv, TypeOK
  <2>2. cons'.pc = "gone"
    BY <2>1 DEF State
  <2>3. Stream!Drop
    BY <2>1, <2>2 DEF Stream!Drop
  <2> QED BY <2>3 DEF Stream!Next
<1>2. CASE Upstream \/ MonitorFires \/ WatchCancel
  <2>1. Between /\ cons' = cons /\ log' = log /\ shown' = shown
    BY <1>2 DEF Upstream, UpText, UpReasoning, UpFinish, UpStops, UpToolStop, UpToolCall, UpRawItem, Put, MonitorFires,
                WatchCancel, Feeding
  <2> QED BY <2>1, QuietStep DEF Running, Between
<1>3. CASE Stop
  <2>1. cons.pc = "run" /\ log' = log /\ shown' = shown
    BY <1>3 DEF Stop, Between
  <2>2. cons'.pc = "closing"
    <3>1. PICK why \in Reasons : cons' = Close(cons, why)
      BY <1>3, StopReason
    <3>2. cons \in State /\ 0 \in Nat /\ (0 > 0 => why = "internal")
      BY DEF Inv, TypeOK
    <3>3. Closes(cons, why, 0, cons')
      BY <3>1, <3>2, CloseIs
    <3> QED BY <3>3 DEF Closes
  <2> QED BY <2>1, <2>2, QuietStep DEF Running
<1>4. CASE TakeText \/ TakeReasoning \/ TakeToolCall \/ TakeToolDone \/ TakeRaw \/ TakeFinish
  <2>1. cons \in State /\ cons.pc = "run"
    BY <1>4 DEF Inv, TypeOK, TakeText, TakeReasoning, TakeToolCall, TakeToolDone, TakeRaw, TakeFinish, Ready, Between
  <2>2. ASSUME NEW c, NEW ops, Take(c, ops), DOMAIN c = DOMAIN cons, c.pc = "run"
        PROVE  [Stream!Next]_(Stream!streamVars)
    <3>1. cons' = [c EXCEPT !.todo = ops] /\ log' = log /\ shown' = shown
      BY <2>2 DEF Take
    <3>2. "pc" \in DOMAIN c
      BY <2>1, <2>2 DEF State
    <3>3. cons'.pc = "run"
      BY <2>2, <3>1, <3>2
    <3> QED BY <2>1, <3>1, <3>3, QuietStep DEF Running
  <2>3. CASE TakeText \/ TakeReasoning \/ TakeRaw
    BY <2>1, <2>2, <2>3 DEF TakeText, TakeReasoning, TakeRaw
  <2>4. CASE TakeFinish
    <3> DEFINE c == [cons EXCEPT !.finish = TRUE]
    <3>1. Take(c, <<>>) /\ DOMAIN c = DOMAIN cons /\ c.pc = "run"
      BY <2>1, <2>4 DEF TakeFinish, State
    <3> HIDE DEF c
    <3> QED BY <2>2, <3>1
  <2>5. ASSUME NEW S, NEW ops, Take([cons EXCEPT !.special = S], ops)
        PROVE  [Stream!Next]_(Stream!streamVars)
    <3> DEFINE c == [cons EXCEPT !.special = S]
    <3>1. Take(c, ops) /\ DOMAIN c = DOMAIN cons /\ c.pc = "run"
      BY <2>1, <2>5 DEF State
    <3> HIDE DEF c
    <3> QED BY <2>2, <3>1
  <2>6. CASE TakeToolCall
    <3> DEFINE h == Head(queue)
               c == Ensured(h.tool, h.ok)
    <3>1. CASE Take([cons EXCEPT !.special = @ \cup {h.tool}], <<>>)
      BY <2>5, <3>1
    <3>2. CASE Take(c, ToolOps(h.tool))
      <4>1. DOMAIN c = DOMAIN cons /\ c.pc = "run"
        BY <2>1 DEF Ensured, State
      <4> HIDE DEF c
      <4> QED BY <2>2, <3>2, <4>1
    <3> QED BY <2>6, <3>1, <3>2 DEF TakeToolCall
  <2>7. CASE TakeToolDone
    <3> DEFINE t == Head(queue).tool
               c == [cons EXCEPT !.acc[t].final = TRUE, !.acc[t].argsDone = cons.acc[t].valid,
                                 !.invalid = @ \/ ~cons.acc[t].valid]
    <3>1. ASSUME NEW ops, Take([cons EXCEPT !.special = @ \ {t}], ops) PROVE [Stream!Next]_(Stream!streamVars)
      BY <2>5, <3>1
    <3>2. CASE Take(c, FinalOps(t))
      <4>1. DOMAIN c = DOMAIN cons /\ c.pc = "run"
        BY <2>1 DEF State
      <4> HIDE DEF c
      <4> QED BY <2>2, <3>2, <4>1
    <3> QED BY <2>7, <3>1, <3>2 DEF TakeToolDone
  <2> QED BY <1>4, <2>3, <2>4, <2>6, <2>7
<1> QED BY <1>1, <1>2, <1>3, <1>4 DEF Next, Consumer

\* ResponsePipeline.run is a response stream as the handler of streamed creates
\* consumes it: content never goes away, it ends once, and a terminal event
\* without a reason is a completion.
THEOREM ImplementsStreamAlways == Spec => ImplementsStream
<1>1. Init => Stream!Init
  BY DEF Init, Stream!Init
<1>2. Inv /\ Inv' /\ [Next]_vars => [Stream!Next]_(Stream!streamVars)
  <2> SUFFICES ASSUME Inv, Inv', [Next]_vars PROVE [Stream!Next]_(Stream!streamVars)
    OBVIOUS
  <2>1. CASE UNCHANGED vars
    BY <2>1 DEF vars, Stream!streamVars, HasContent
  <2>2. CASE Next
    BY <2>2, EmitStream, EmitFailsStream, OtherStream
  <2> QED BY <2>1, <2>2
<1> QED BY <1>1, <1>2, InvAlways, PTL DEF Spec, ImplementsStream, Stream!Spec
===============================================================================
