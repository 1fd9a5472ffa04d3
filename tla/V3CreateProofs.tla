----------------------------- MODULE V3CreateProofs ----------------------------
(***************************************************************************)
(* OneAttemptIsStored, RowTellsTheStory and CallBudget of a create, for any  *)
(* request, any keys, any number of attempts, frames and failing statements. *)
(*                                                                           *)
(* The inductive invariant has three parts.  Attempts: an attempt holds its  *)
(* events back until its first content frame, and from then on every event   *)
(* of it is in the database, where the frames that the client was shown and  *)
(* the frames that the generator still has to yield are found under their    *)
(* numbers.  Story: a create that is over left the row that belongs to its   *)
(* end.  Budget: what a key was called for so far, against the retries that  *)
(* are still open to it.                                                     *)
(***************************************************************************)
EXTENDS V3Create, SequenceTheorems, TLAPS

Types ==
    /\ req \in Requests /\ ready \subseteq Keys
    /\ pc \in {"start", "pick", "call", "stream", "left", "decide", "fallback", "done"}
    /\ att \in Nat /\ frames \in Nat /\ faults \in Nat
    /\ rs \in BOOLEAN /\ live \in BOOLEAN /\ broken \in BOOLEAN /\ prepared \in BOOLEAN /\ effort \in BOOLEAN
    /\ db \in Seq(Frame) /\ buf \in Seq(Frame) /\ pending \in Seq(Frame)
    /\ shown \in Seq(Frame) /\ kept \in Seq(Frame) /\ ahead \in Seq(Frame)

\* Frames of the current attempt that follow its frame k.
Numbered(s, k) == \A i \in DOMAIN s : s[i].n = k + i /\ s[i].att = att

\* All frames of the current attempt so far.
Tally(s) == Len(s) = frames /\ Numbered(s, 0)

\* The frames of s are found in d under their numbers.
Among(s, d) == \A i \in DOMAIN s : s[i].n \in DOMAIN d /\ d[s[i].n] = s[i]

NoContent(s) == \A i \in DOMAIN s : ~s[i].c

\* The frames that are still to be yielded are the last ones made.
AheadIs == Len(ahead) <= frames /\ Numbered(ahead, frames - Len(ahead))

\* Nothing of this attempt, nor of the ones before it, has left the handler.
Untold == db = <<>> /\ shown = <<>> /\ ~prepared

Held ==
    /\ Untold /\ ~live /\ ~broken
    /\ Len(buf) = frames - Len(ahead) /\ Numbered(buf, 0) /\ NoContent(buf)
    /\ StoreRow => Tally(pending) /\ Among(buf, pending) /\ Among(ahead, pending)

Told ==
    /\ prepared /\ live /\ \E i \in DOMAIN shown : shown[i].c
    /\ \A i, j \in DOMAIN shown : i < j => shown[i].n < shown[j].n
    /\ \A i \in DOMAIN shown : shown[i].n <= frames - Len(ahead) /\ shown[i].att = att
    /\ ~broken => Len(shown) = frames - Len(ahead) /\ \A i \in DOMAIN shown : shown[i].n = i
    /\ phase = "ended" /\ ahead = <<>> => ShownToTheEnd
    /\ StoreRow => Tally(db) /\ Among(shown, db) /\ Among(ahead, db)
    /\ ~StoreRow => db = <<>>

Attempts ==
    /\ OneAttemptIsStored
    /\ NoContent(kept)
    /\ pc \notin {"stream", "left", "done"} => Untold
    /\ pc = "stream" => phase \in {"open", "ended"} /\ AheadIs /\ (Held \/ Told)
    /\ pc = "left" => client = "gone" /\ phase \in {"ended", "gone"} /\ (phase = "ended" => ~ShownToTheEnd)

\* What a key may still be called for: one call without reasoning_effort, one
\* translated call, one call with string content, and the answer.
Chats == IF "chat" \in retried THEN 1 ELSE 0
Strips == IF effort THEN 1 ELSE 0

Calling == pc = "call" \/ (pc = "fallback" /\ cur # NoKey)

Budget ==
    /\ calls \in [AnyKey -> Nat] /\ tried \subseteq AnyKey
    /\ \A k \in AnyKey \ tried : calls[k] = 0
    /\ req.mode = "nonstream" =>
          /\ \A k \in AnyKey : calls[k] <= 5
          /\ Calling => /\ cur \in tried
                        /\ calls[cur] + Strips <= Chats + (IF "string" \in retried THEN 3 ELSE 1)
    /\ req.mode = "stream" =>
          /\ \A k \in AnyKey : calls[k] <= (IF effort THEN 1 ELSE 2)
          /\ \A j, k \in AnyKey : calls[j] = 2 /\ calls[k] = 2 => j = k
          /\ pc = "call" => /\ cur \in AnyKey
                            /\ cur \notin tried \/ (~effort /\ \A k \in AnyKey : calls[k] <= 1)

Inv == Types /\ Attempts /\ RowTellsTheStory /\ Budget

(***************************************************************************)
(* Steps of the dispatch loop: the attempt's state is left alone            *)
(***************************************************************************)
Waiting == {"start", "pick", "call", "decide", "fallback"}

PhaseAOrLoop ==
    \/ PhaseA \/ (\E k \in Selectable : Select(k)) \/ SelectNone \/ NonStream
    \/ StreamNoConnection \/ StreamStrip
    \/ \E window \in BOOLEAN : StreamLocalError(window)
    \/ \E e \in HttpErrors : StreamHttpError(e)
    \/ \E k \in Keys : KeyCools(k)

Attempting ==
    \/ \E cs \in Chunks : Translate(cs) \/ Close(cs)
    \/ \E cs \in Beginnings : TranslateFails(cs) \/ StreamRaises(cs)
    \/ Open \/ Buffer \/ Commit \/ CommitToNobody \/ Write \/ WriteToNobody \/ AfterEmpty
    \/ \E i \in 0..MaxFrames : CommitFails(i)
    \/ \E ok \in BOOLEAN : AfterGone(ok) \/ AfterCommitted(ok) \/ StreamExhausted(ok)

\* A step is one of the dispatch loop, one of an attempt, or the client leaves.
LEMMA NextSplits == Next <=> PhaseAOrLoop \/ Attempting \/ ClientLeaves
  BY DEF Next, Handler, Streaming, PhaseAOrLoop, Attempting

\* What such a step leaves alone, and where it goes.
LEMMA LoopLeavesAttempt ==
    ASSUME Inv, PhaseAOrLoop
    PROVE  /\ UNCHANGED attempt /\ req' = req /\ client' = client
           /\ pc \in Waiting /\ pc' \in Waiting \cup {"done"}
           /\ rs' \in BOOLEAN /\ effort' \in BOOLEAN /\ faults' \in Nat /\ ready' \subseteq Keys
<1>1. faults \in Nat /\ rs \in BOOLEAN /\ effort \in BOOLEAN /\ ready \subseteq Keys /\ pc \in Waiting \cup {"stream", "left", "done"}
  BY DEF Inv, Types, Waiting
<1>2. CASE PhaseA
  <2>1. CASE Refuse
    BY <1>1, <2>1 DEF Refuse, Finish, record, Waiting
  <2>2. ASSUME NEW ok \in BOOLEAN, Enqueue(ok)
        PROVE  /\ UNCHANGED attempt /\ req' = req /\ client' = client
               /\ pc \in Waiting /\ pc' \in Waiting \cup {"done"}
               /\ rs' \in BOOLEAN /\ effort' \in BOOLEAN /\ faults' \in Nat /\ ready' \subseteq Keys
    BY <1>1, <2>2 DEF Enqueue, Finish, Waiting
  <2>3. ASSUME NEW rowOk \in BOOLEAN, NEW sideOk \in BOOLEAN, PrepareSync(rowOk, sideOk)
        PROVE  /\ UNCHANGED attempt /\ req' = req /\ client' = client
               /\ pc \in Waiting /\ pc' \in Waiting \cup {"done"}
               /\ rs' \in BOOLEAN /\ effort' \in BOOLEAN /\ faults' \in Nat /\ ready' \subseteq Keys
    BY <1>1, <2>3 DEF PrepareSync, Waiting
  <2> QED BY <1>2, <2>1, <2>2, <2>3 DEF PhaseA
<1>3. CASE \E k \in Selectable : Select(k)
  BY <1>1, <1>3 DEF Select, record, Waiting
<1>4. CASE SelectNone
  BY <1>1, <1>4 DEF SelectNone, record, Waiting
<1>5. CASE NonStream
  <2>1. ASSUME NEW r, ResultIs(r)
        PROVE  /\ UNCHANGED attempt /\ req' = req /\ client' = client
               /\ pc \in Waiting /\ pc' \in Waiting \cup {"done"}
               /\ rs' \in BOOLEAN /\ effort' \in BOOLEAN /\ faults' \in Nat /\ ready' \subseteq Keys
    BY <1>1, <2>1 DEF ResultIs, record, Waiting
  <2>2. CASE LocalError \/ NoConnection \/ (\E e \in HttpErrors : HttpError(e)) \/ (\E b \in Bodies : Answer(b))
    BY <2>1, <2>2 DEF LocalError, NoConnection, HttpError, Answer
  <2>3. CASE EnterFallback \/ ReplyError \/ \E k \in Fallback : TryFallback(k)
    BY <1>1, <2>3 DEF EnterFallback, ReplyError, TryFallback, Finish, record, Waiting
  <2>4. CASE \E why \in {"strip", "chat", "string"} : RetrySameKey(why)
    BY <1>1, <2>4 DEF RetrySameKey, StripRetry, InGroup, record, Waiting
  <2>5. ASSUME NEW ok \in BOOLEAN, ReplyBody(ok)
        PROVE  /\ UNCHANGED attempt /\ req' = req /\ client' = client
               /\ pc \in Waiting /\ pc' \in Waiting \cup {"done"}
               /\ rs' \in BOOLEAN /\ effort' \in BOOLEAN /\ faults' \in Nat /\ ready' \subseteq Keys
    BY <1>1, <2>5 DEF ReplyBody, Finish, Persist, record, Waiting
  <2> QED BY <1>5, <2>2, <2>3, <2>4, <2>5 DEF NonStream
<1>6. CASE StreamNoConnection \/ StreamStrip
  BY <1>1, <1>6 DEF StreamNoConnection, StreamStrip, StripRetry, NextKey, Finish, record, Waiting
<1>7. CASE (\E window \in BOOLEAN : StreamLocalError(window)) \/ (\E e \in HttpErrors : StreamHttpError(e))
  BY <1>1, <1>7 DEF StreamLocalError, StreamHttpError, NextKey, record, Waiting
<1>8. CASE \E k \in Keys : KeyCools(k)
  BY <1>1, <1>8 DEF KeyCools, loop, record, Waiting
<1> QED BY <1>2, <1>3, <1>4, <1>5, <1>6, <1>7, <1>8 DEF PhaseAOrLoop

\* The dispatch loop touches neither events nor frames, except to start over with none.
LEMMA LoopKeepsAttempts ==
    ASSUME Inv, PhaseAOrLoop
    PROVE  Types' /\ Attempts'
<1>1. /\ UNCHANGED attempt /\ req' = req /\ pc \in Waiting /\ pc' \in Waiting \cup {"done"}
      /\ rs' \in BOOLEAN /\ effort' \in BOOLEAN /\ faults' \in Nat /\ ready' \subseteq Keys
  BY LoopLeavesAttempt
<1>2. /\ att' = att /\ frames' = frames /\ buf' = buf /\ pending' = pending /\ live' = live
      /\ ahead' = ahead /\ broken' = broken /\ db' = db /\ shown' = shown /\ prepared' = prepared /\ kept' = kept
  BY <1>1 DEF attempt
<1>3. Types'
  BY <1>1, <1>2 DEF Inv, Types, Waiting
<1>4. Untold /\ NoContent(kept)
  BY <1>1 DEF Inv, Attempts, Waiting
<1>5. OneAttemptIsStored'
  BY <1>2, <1>4 DEF Untold, OneAttemptIsStored
<1>6. Attempts'
  BY <1>1, <1>2, <1>4, <1>5 DEF Attempts, Untold, NoContent, Waiting
<1> QED BY <1>3, <1>6

(***************************************************************************)
(* Sequences of frames                                                      *)
(***************************************************************************)
Sound(s) == \A i \in DOMAIN s : s[i].n = i /\ s[i].att = s[1].att

\* No events are the events of any attempt.
LEMMA EmptyIsSound == Sound(<<>>) /\ <<>> \in Seq(Frame)
  BY DEF Sound

\* One more frame.
LEMMA Appended ==
    ASSUME NEW s \in Seq(Frame), NEW h \in Frame, NEW b, b = Append(s, h)
    PROVE  /\ b \in Seq(Frame) /\ Len(b) = Len(s) + 1 /\ (\A i \in 1..Len(s) : b[i] = s[i]) /\ b[Len(s) + 1] = h
           /\ DOMAIN b = 1..(Len(s) + 1) /\ DOMAIN s = 1..Len(s) /\ Len(s) \in Nat /\ b # <<>>
  OBVIOUS

\* Several more frames.
LEMMA Joined ==
    ASSUME NEW s \in Seq(Frame), NEW f \in Seq(Frame), NEW t, t = s \o f
    PROVE  /\ t \in Seq(Frame) /\ Len(t) = Len(s) + Len(f) /\ DOMAIN t = 1..(Len(s) + Len(f))
           /\ \A i \in 1..Len(s) : t[i] = s[i]
           /\ \A i \in 1..Len(f) : t[Len(s) + i] = f[i]
<1>1. t \in Seq(Frame) /\ Len(t) = Len(s) + Len(f)
  OBVIOUS
<1>2. \A i \in 1..Len(s) : t[i] = s[i]
  OBVIOUS
<1>3. \A i \in 1..Len(f) : t[Len(s) + i] = f[i]
  OBVIOUS
<1> QED BY <1>1, <1>2, <1>3

\* Frames that are counted by the attempt are the frames of that attempt, in order.
LEMMA TallyIsSound ==
    ASSUME NEW s \in Seq(Frame), Tally(s)
    PROVE  Sound(s)
  BY DEF Tally, Numbered, Sound

\* What an upstream chunk, or the closing of the stream, becomes.
LEMMA ChunkIs ==
    ASSUME NEW cs
    PROVE  /\ cs \in Chunks => cs \in Seq(BOOLEAN) /\ Len(cs) \in Nat /\ Len(cs) > 0
           /\ cs \in Beginnings => cs \in Seq(BOOLEAN) /\ Len(cs) \in Nat
<1>1. ASSUME NEW n \in Nat, cs \in [1..n -> BOOLEAN] PROVE cs \in Seq(BOOLEAN) /\ Len(cs) = n
  BY <1>1
<1>2. ASSUME cs \in Chunks PROVE cs \in Seq(BOOLEAN) /\ Len(cs) \in Nat /\ Len(cs) > 0
  <2>1. PICK n \in 1..MaxChunk : cs \in [1..n -> BOOLEAN]
    BY <1>2 DEF Chunks
  <2>2. n \in Nat /\ n > 0
    BY <2>1, CreateAssumption
  <2> QED BY <1>1, <2>1, <2>2
<1>3. ASSUME cs \in Beginnings PROVE cs \in Seq(BOOLEAN) /\ Len(cs) \in Nat
  <2>1. PICK n \in 0..(MaxChunk - 1) : cs \in [1..n -> BOOLEAN]
    BY <1>3 DEF Beginnings
  <2>2. n \in Nat
    BY <2>1, CreateAssumption
  <2> QED BY <1>1, <2>1, <2>2
<1> QED BY <1>2, <1>3

\* The frames that come next have the next numbers.
LEMMA NewIs ==
    ASSUME Types, NEW cs \in Seq(BOOLEAN)
    PROVE  /\ New(cs) \in Seq(Frame) /\ Len(New(cs)) = Len(cs) /\ Len(cs) \in Nat
           /\ Numbered(New(cs), frames)
<1>1. Len(cs) \in Nat /\ frames \in Nat /\ att \in Nat /\ DOMAIN cs = 1..Len(cs)
  BY DEF Types
<1>2. \A i \in 1..Len(cs) : [att |-> att, n |-> frames + i, c |-> cs[i]] \in Frame
  BY <1>1 DEF Frame
<1>3. New(cs) \in [1..Len(cs) -> Frame]
  BY <1>2 DEF New
<1>4. New(cs) \in Seq(Frame) /\ Len(New(cs)) = Len(cs) /\ DOMAIN New(cs) = 1..Len(cs)
  BY <1>1, <1>3
<1>5. \A i \in 1..Len(cs) : New(cs)[i].n = frames + i /\ New(cs)[i].att = att
  BY <1>1 DEF New
<1> QED BY <1>1, <1>4, <1>5 DEF Numbered

\* The frames that come next, put behind all frames so far.
LEMMA TallyGrows ==
    ASSUME Types, NEW s \in Seq(Frame), Tally(s), NEW cs \in Seq(BOOLEAN), NEW t, t = s \o New(cs),
           frames' = frames + Len(cs), att' = att
    PROVE  /\ t \in Seq(Frame) /\ Tally(t)' /\ Sound(t) /\ Among(New(cs), t)
           /\ \A u \in Seq(Frame) : Among(u, s) => Among(u, t)
<1>1. PICK f : f = New(cs)
  OBVIOUS
<1>2. f \in Seq(Frame) /\ Len(f) = Len(cs) /\ Len(cs) \in Nat /\ Numbered(f, frames) /\ frames \in Nat
  BY <1>1, NewIs DEF Types
<1>3. Len(s) = frames /\ Numbered(s, 0) /\ DOMAIN s = 1..frames /\ DOMAIN f = 1..Len(f)
  BY <1>2 DEF Tally
<1>4. t = s \o f
  BY <1>1
<1>5. /\ t \in Seq(Frame) /\ Len(t) = frames + Len(f) /\ DOMAIN t = 1..(frames + Len(f))
      /\ \A i \in 1..frames : t[i] = s[i]
      /\ \A i \in 1..Len(f) : t[frames + i] = f[i]
  <2>1. /\ t \in Seq(Frame) /\ Len(t) = Len(s) + Len(f) /\ DOMAIN t = 1..(Len(s) + Len(f))
        /\ \A i \in 1..Len(s) : t[i] = s[i]
        /\ \A i \in 1..Len(f) : t[Len(s) + i] = f[i]
    BY <1>2, <1>4, Joined, ZenonT(50)
  <2> QED BY <1>3, <2>1
<1>6. ASSUME NEW i \in DOMAIN t PROVE t[i].n = i /\ t[i].att = att
  <2>1. CASE i <= frames
    <3>1. i \in DOMAIN s /\ t[i] = s[i]
      BY <1>2, <1>3, <1>5, <2>1
    <3> QED BY <1>3, <3>1 DEF Numbered
  <2>2. CASE i > frames
    <3>1. PICK j \in 1..Len(f) : i = frames + j
      <4>1. i - frames \in 1..Len(f) /\ i = frames + (i - frames)
        BY <1>2, <1>5, <2>2
      <4> QED BY <4>1
    <3>2. t[i] = f[j] /\ j \in DOMAIN f
      BY <1>3, <1>5, <3>1
    <3> QED BY <1>2, <3>1, <3>2 DEF Numbered
  <2> QED BY <1>2, <1>5, <2>1, <2>2
<1>7. Tally(t)' /\ Sound(t)
  <2>1. Len(t) = frames' /\ \A i \in DOMAIN t : t[i].n = 0 + i /\ t[i].att = att
    BY <1>2, <1>5, <1>6
  <2>2. Tally(t)'
    BY <2>1 DEF Tally, Numbered
  <2>3. Sound(t)
    <3>1. ASSUME NEW i \in DOMAIN t PROVE 1 \in DOMAIN t
      BY <1>2, <1>5
    <3> QED BY <1>6, <3>1 DEF Sound
  <2> QED BY <2>2, <2>3
<1>8. Among(f, t)
  <2>1. SUFFICES ASSUME NEW i \in 1..Len(f) PROVE f[i].n \in DOMAIN t /\ t[f[i].n] = f[i]
    BY <1>3 DEF Among
  <2>2. f[i].n = frames + i
    BY <1>2, <1>3 DEF Numbered
  <2> QED BY <1>2, <1>5, <2>2
<1>9. ASSUME NEW u \in Seq(Frame), Among(u, s) PROVE Among(u, t)
  <2>1. \A i \in DOMAIN u : u[i].n \in 1..frames /\ s[u[i].n] = u[i]
    BY <1>3, <1>9 DEF Among
  <2> QED BY <1>2, <1>5, <2>1, SMTT(30) DEF Among
<1> QED BY <1>1, <1>5, <1>7, <1>8, <1>9

\* The beginning of what was held.
LEMMA SoundBeginning ==
    ASSUME NEW s \in Seq(Frame), Sound(s), NEW i \in 0..Len(s)
    PROVE  SubSeq(s, 1, i) \in Seq(Frame) /\ Sound(SubSeq(s, 1, i))
<1>1. Len(s) \in Nat /\ i \in Nat /\ i <= Len(s)
  OBVIOUS
<1>2. PICK u : u = SubSeq(s, 1, i)
  OBVIOUS
<1>3. /\ u \in Seq(Frame) /\ Len(u) = IF 1 <= i THEN i - 1 + 1 ELSE 0
      /\ \A j \in 1..(i - 1 + 1) : u[j] = s[1 + j - 1]
  <2>1. 1 \in Int /\ i \in Int /\ \A j \in 1..i : s[j] \in Frame
    BY <1>1
  <2> QED BY <1>2, <2>1, SubSeqProperties
<1>4. Len(u) = i
  BY <1>1, <1>3
<1>5. ASSUME NEW j \in 1..i PROVE u[j] = s[j]
  <2>1. j \in 1..(i - 1 + 1) /\ 1 + j - 1 = j
    BY <1>1
  <2> QED BY <1>3, <2>1
<1>6. Sound(u)
  <2>1. DOMAIN u = 1..i /\ DOMAIN s = 1..Len(s)
    BY <1>3, <1>4
  <2>2. SUFFICES ASSUME NEW j \in 1..i PROVE u[j].n = j /\ u[j].att = u[1].att
    BY <2>1 DEF Sound
  <2>3. u[j] = s[j] /\ u[1] = s[1] /\ j \in DOMAIN s
    BY <1>1, <1>5, <2>1
  <2> QED BY <2>3 DEF Sound
<1> QED BY <1>2, <1>3, <1>6

(***************************************************************************)
(* Steps of an attempt                                                      *)
(***************************************************************************)
\* The parts of OneAttemptIsStored, for a create that goes on or does not end in
\* a stream that the client saw to its end.
LEMMA StoredIs ==
    ASSUME NEW d, NEW h, d = db', h = shown', Sound(d),
           \A i, j \in DOMAIN h : i < j => h[i].n < h[j].n /\ h[i].att = h[j].att,
           ~broken' => \A i \in DOMAIN h : h[i].n = i,
           StoreRow' => Among(h, d),
           prepared' => \E i \in DOMAIN h : h[i].c,
           pc' # "done" \/ reply' # "stream" \/ client' # "here"
    PROVE  OneAttemptIsStored'
  BY DEF OneAttemptIsStored, Sound, Among

\* What is stored stays so while database and client are left alone.
LEMMA StoredKept ==
    ASSUME OneAttemptIsStored, db' = db, shown' = shown, prepared' = prepared, StoreRow' = StoreRow, broken' = broken,
           pc' # "done" \/ reply' # "stream" \/ client' # "here"
    PROVE  OneAttemptIsStored'
  BY DEF OneAttemptIsStored

\* Nothing was told: nothing is stored.
LEMMA UntoldIsStored == ASSUME Untold' PROVE OneAttemptIsStored'
  BY DEF Untold, OneAttemptIsStored

\* What is told is stored.
LEMMA ToldIsStored ==
    ASSUME Told', Types', pc' # "done" \/ reply' # "stream" \/ client' # "here"
    PROVE  OneAttemptIsStored'
<1>1. PICK d, h : d = db' /\ h = shown'
  OBVIOUS
<1>2. Sound(d)
  <2>1. d \in Seq(Frame)
    BY <1>1 DEF Types
  <2>2. CASE StoreRow'
    <3>1. \A i \in DOMAIN d : d[i].n = 0 + i /\ d[i].att = att'
      BY <1>1, <2>2 DEF Told, Tally, Numbered
    <3>2. DOMAIN d = 1..Len(d) /\ Len(d) \in Nat
      BY <2>1
    <3> QED BY <3>1, <3>2 DEF Sound
  <2>3. CASE ~StoreRow'
    BY <1>1, <2>3, EmptyIsSound DEF Told
  <2> QED BY <2>2, <2>3
<1>3. /\ \A i, j \in DOMAIN h : i < j => h[i].n < h[j].n /\ h[i].att = h[j].att
      /\ ~broken' => \A i \in DOMAIN h : h[i].n = i
      /\ prepared' => \E i \in DOMAIN h : h[i].c
  BY <1>1 DEF Told
<1>4. StoreRow' => Among(h, d)
  BY <1>1 DEF Told, Among
<1> QED BY <1>1, <1>2, <1>3, <1>4, StoredIs

\* What a step of the pipeline or of the handler's loop over frames leaves alone.
LEMMA HandlerRestIs ==
    ASSUME UNCHANGED handlerRest
    PROVE  /\ req' = req /\ client' = client /\ ready' = ready /\ effort' = effort /\ rs' = rs /\ kept' = kept /\ att' = att
           /\ cur' = cur /\ tried' = tried /\ retried' = retried /\ calls' = calls
           /\ row' = row /\ StoreRow' = StoreRow
  BY DEF handlerRest, record, StoreRow

\* An attempt that opens its stream holds everything back.
LEMMA OpenKeeps ==
    ASSUME Inv, Open
    PROVE  Types' /\ Attempts'
<1>1. Types /\ Attempts
  BY DEF Inv
<1>2. /\ pc = "call" /\ pc' = "stream" /\ att' = att + 1 /\ frames' = 0 /\ buf' = <<>> /\ pending' = <<>>
      /\ live' = FALSE /\ ahead' = <<>> /\ broken' = FALSE /\ phase' = "open"
      /\ req' = req /\ ready' = ready /\ effort' = effort /\ rs' = rs
      /\ kept' = kept /\ db' = db /\ shown' = shown /\ prepared' = prepared /\ faults' = faults
  BY DEF Open, record
<1>3. Untold
  BY <1>1, <1>2 DEF Attempts
<1>4. Types'
  <2>1. att' \in Nat /\ frames' \in Nat
    BY <1>1, <1>2 DEF Types
  <2>2. buf' \in Seq(Frame) /\ pending' \in Seq(Frame) /\ ahead' \in Seq(Frame) /\ live' \in BOOLEAN /\ broken' \in BOOLEAN
    BY <1>2, EmptyIsSound
  <2> QED BY <1>1, <1>2, <2>1, <2>2 DEF Types
<1>5. Untold'
  BY <1>2, <1>3 DEF Untold
<1>6. Held' /\ AheadIs'
  <2>1. PICK e : e = <<>>
    OBVIOUS
  <2>2. Len(e) = 0 /\ DOMAIN e = {}
    BY <2>1
  <2>3. buf' = e /\ pending' = e /\ ahead' = e /\ frames' = 0
    BY <1>2, <2>1
  <2>5. Tally(pending)' /\ Among(buf', pending') /\ Among(ahead', pending') /\ NoContent(buf)' /\ Len(buf') = 0 /\ Len(ahead') = 0
    BY <2>2, <2>3 DEF Tally, Numbered, Among, NoContent
  <2>6. Numbered(buf, 0)' /\ Numbered(ahead, frames - Len(ahead))'
    BY <2>2, <2>3 DEF Numbered
  <2>7. Len(buf') = frames' - Len(ahead') /\ Len(ahead') <= frames'
    BY <2>3, <2>5
  <2>8. ~live' /\ ~broken'
    BY <1>2
  <2> QED BY <1>5, <2>5, <2>6, <2>7, <2>8 DEF Held, AheadIs
<1>7. OneAttemptIsStored'
  BY <1>5, UntoldIsStored
<1>8. Attempts'
  BY <1>1, <1>2, <1>6, <1>7 DEF Attempts, NoContent
<1> QED BY <1>4, <1>8

\* Events are logged: held back before the commit, written after it.
LEMMA LogGrows ==
    ASSUME Types, Held \/ Told, NEW cs \in Seq(BOOLEAN), frames' = frames + Len(cs), LogEvents(New(cs)),
           att' = att, StoreRow' = StoreRow, NEW f, f = New(cs)
    PROVE  /\ frames' \in Nat /\ db' \in Seq(Frame) /\ pending' \in Seq(Frame)
           /\ f \in Seq(Frame) /\ Len(f) = Len(cs) /\ Len(cs) \in Nat /\ Numbered(f, frames)
           /\ Held => /\ db' = <<>>
                      /\ StoreRow => Tally(pending)' /\ Among(buf, pending') /\ Among(f, pending')
           /\ Told => /\ StoreRow => Tally(db)' /\ Sound(db') /\ Among(shown, db') /\ Among(f, db')
                      /\ ~StoreRow => db' = <<>>
<1>1. /\ f \in Seq(Frame) /\ Len(f) = Len(cs) /\ Len(cs) \in Nat /\ Numbered(f, frames) /\ frames' \in Nat
      /\ db \in Seq(Frame) /\ pending \in Seq(Frame) /\ buf \in Seq(Frame) /\ shown \in Seq(Frame)
  BY NewIs DEF Types
<1>2. CASE ~StoreRow
  <2>1. db' = db /\ pending' = pending
    BY <1>2 DEF LogEvents
  <2> QED BY <1>1, <1>2, <2>1 DEF Held, Untold, Told
<1>3. CASE StoreRow /\ Held
  <2>1. db' = db /\ pending' = pending \o f /\ db = <<>> /\ ~Told /\ Tally(pending) /\ Among(buf, pending)
    BY <1>3 DEF LogEvents, Held, Told, Untold
  <2>2. PICK t : t = pending \o New(cs)
    OBVIOUS
  <2>3. t \in Seq(Frame) /\ Tally(t)' /\ Among(f, t) /\ Among(buf, t)
    BY <1>1, <2>1, <2>2, TallyGrows
  <2>4. pending' = t
    BY <2>1, <2>2
  <2>5. Tally(pending)'
    BY <2>3, <2>4 DEF Tally, Numbered
  <2> QED BY <1>1, <1>3, <2>1, <2>3, <2>4, <2>5
<1>4. CASE StoreRow /\ Told
  <2>1. pending' = pending /\ db' = db \o f /\ ~Held /\ Tally(db) /\ Among(shown, db)
    BY <1>4 DEF LogEvents, Held, Told, Untold
  <2>2. PICK t : t = db \o New(cs)
    OBVIOUS
  <2>3. t \in Seq(Frame) /\ Tally(t)' /\ Sound(t) /\ Among(f, t) /\ Among(shown, t)
    BY <1>1, <2>1, <2>2, TallyGrows
  <2>4. db' = t
    BY <2>1, <2>2
  <2>5. Tally(db)'
    BY <2>3, <2>4 DEF Tally, Numbered
  <2> QED BY <1>1, <1>4, <2>1, <2>3, <2>4, <2>5
<1> QED BY <1>2, <1>3, <1>4

\* A chunk becomes frames, or the stream is closed with its last ones.
LEMMA MoreKeeps ==
    ASSUME Inv, NEW cs \in Chunks, Asked, frames' = frames + Len(cs), ahead' = New(cs), LogEvents(New(cs)),
           UNCHANGED <<pipelineRest, pc, broken, reply, faults>>, phase' \in {"open", "ended"}
    PROVE  Types' /\ Attempts'
<1>1. Types /\ Attempts /\ pc = "stream" /\ ahead = <<>> /\ (Held \/ Told)
  BY DEF Inv, Attempts, Asked
<1>2. /\ req' = req /\ client' = client /\ ready' = ready /\ effort' = effort /\ rs' = rs /\ kept' = kept /\ att' = att
      /\ StoreRow' = StoreRow
  BY HandlerRestIs DEF pipelineRest
<1>3. /\ buf' = buf /\ live' = live /\ shown' = shown /\ prepared' = prepared
      /\ pc' = pc /\ broken' = broken /\ faults' = faults
  BY DEF pipelineRest
<1>4. cs \in Seq(BOOLEAN) /\ Len(cs) > 0
  BY ChunkIs
<1>5. PICK f : f = New(cs)
  OBVIOUS
<1>6. /\ frames' \in Nat /\ db' \in Seq(Frame) /\ pending' \in Seq(Frame)
      /\ f \in Seq(Frame) /\ Len(f) = Len(cs) /\ Len(cs) \in Nat /\ Numbered(f, frames)
      /\ Held => /\ db' = <<>>
                 /\ StoreRow => Tally(pending)' /\ Among(buf, pending') /\ Among(f, pending')
      /\ Told => /\ StoreRow => Tally(db)' /\ Sound(db') /\ Among(shown, db') /\ Among(f, db')
                 /\ ~StoreRow => db' = <<>>
  BY <1>1, <1>2, <1>4, <1>5, LogGrows
<1>7. ahead' = f /\ frames' - Len(f) = frames /\ frames \in Nat /\ ahead' # <<>>
  BY <1>1, <1>4, <1>5, <1>6 DEF Types
<1>8. Types'
  BY <1>1, <1>2, <1>3, <1>6, <1>7 DEF Types
<1>9. AheadIs'
  <2>1. Len(ahead') <= frames' /\ frames' - Len(ahead') = frames
    BY <1>6, <1>7
  <2>2. Numbered(ahead, frames - Len(ahead))'
    BY <1>2, <1>6, <1>7, <2>1 DEF Numbered
  <2> QED BY <2>1, <2>2 DEF AheadIs
<1>10. Len(ahead) = 0 /\ frames - Len(ahead) = frames
  BY <1>1, <1>7
<1>11. CASE Held
  <2>1. Untold' /\ ~live' /\ ~broken' /\ NoContent(buf)' /\ Numbered(buf, 0)'
    BY <1>2, <1>3, <1>6, <1>11 DEF Held, Untold, NoContent, Numbered
  <2>2. Len(buf') = frames' - Len(ahead')
    BY <1>3, <1>7, <1>10, <1>11 DEF Held
  <2>3. StoreRow' => Tally(pending)' /\ Among(buf', pending') /\ Among(ahead', pending')
    BY <1>2, <1>3, <1>6, <1>7, <1>11
  <2>4. Held'
    BY <2>1, <2>2, <2>3 DEF Held, Among
  <2>5. OneAttemptIsStored'
    BY <2>1, UntoldIsStored
  <2> QED BY <1>1, <1>2, <1>3, <1>8, <1>9, <2>4, <2>5 DEF Attempts, NoContent
<1>12. CASE Told
  <2>1. /\ prepared' /\ live' /\ (\E i \in DOMAIN shown' : shown'[i].c)
        /\ \A i, j \in DOMAIN shown' : i < j => shown'[i].n < shown'[j].n
    BY <1>3, <1>12 DEF Told
  <2>2. /\ \A i \in DOMAIN shown' : shown'[i].n <= frames' - Len(ahead') /\ shown'[i].att = att'
        /\ ~broken' => Len(shown') = frames' - Len(ahead') /\ \A i \in DOMAIN shown' : shown'[i].n = i
    BY <1>2, <1>3, <1>7, <1>10, <1>12 DEF Told
  <2>3. /\ StoreRow' => Tally(db)' /\ Among(shown', db') /\ Among(ahead', db')
        /\ ~StoreRow' => db' = <<>>
    BY <1>2, <1>3, <1>6, <1>7, <1>12
  <2>4. Told'
    BY <1>7, <2>1, <2>2, <2>3 DEF Told, Among
  <2>5. OneAttemptIsStored'
    BY <1>1, <1>3, <1>8, <2>4, ToldIsStored
  <2> QED BY <1>1, <1>2, <1>3, <1>8, <1>9, <2>4, <2>5 DEF Attempts, NoContent
<1> QED BY <1>1, <1>11, <1>12

\* The pipeline makes frames of a chunk or closes.
LEMMA TranslateKeeps ==
    ASSUME Inv, NEW cs \in Chunks, Translate(cs) \/ Close(cs)
    PROVE  Types' /\ Attempts'
<1>1. phase' \in {"open", "ended"}
  BY DEF Translate, Close, Asked, stream, S!Deliver, S!End
<1> QED BY <1>1, MoreKeeps DEF Translate, Close

\* An append fails: what was logged of the chunk is skipped for the client.
LEMMA TranslateFailsKeeps ==
    ASSUME Inv, NEW cs \in Beginnings, TranslateFails(cs)
    PROVE  Types' /\ Attempts'
<1>1. /\ Types /\ Attempts /\ pc = "stream" /\ phase = "open" /\ ahead = <<>> /\ Told /\ StoreRow
  BY DEF Inv, Attempts, TranslateFails, Asked, Held
<1>2. /\ frames' = frames + Len(cs) /\ LogEvents(New(cs)) /\ broken' = TRUE /\ faults' = faults + 1
      /\ UNCHANGED handlerRest /\ buf' = buf /\ live' = live /\ shown' = shown /\ prepared' = prepared
      /\ phase' = phase /\ pc' = pc /\ ahead' = ahead
  BY DEF TranslateFails, pipelineRest, stream
<1>3. /\ req' = req /\ client' = client /\ ready' = ready /\ effort' = effort /\ rs' = rs /\ kept' = kept /\ att' = att
      /\ StoreRow' = StoreRow
  BY <1>2, HandlerRestIs
<1>4. cs \in Seq(BOOLEAN)
  BY ChunkIs
<1>5. PICK f : f = New(cs)
  OBVIOUS
<1>6. /\ frames' \in Nat /\ db' \in Seq(Frame) /\ pending' \in Seq(Frame) /\ Len(cs) \in Nat
      /\ Tally(db)' /\ Sound(db') /\ Among(shown, db')
  BY <1>1, <1>2, <1>3, <1>4, <1>5, LogGrows
<1>7. frames \in Nat /\ faults' \in Nat /\ broken' \in BOOLEAN /\ Len(ahead) = 0 /\ frames <= frames'
  BY <1>1, <1>2, <1>6 DEF Types
<1>8. Types'
  BY <1>1, <1>2, <1>3, <1>6, <1>7 DEF Types
<1>9. AheadIs' /\ Among(ahead', db')
  BY <1>1, <1>2, <1>6, <1>7 DEF AheadIs, Numbered, Among
<1>10. \A i \in DOMAIN shown' : shown'[i].n <= frames' - Len(ahead') /\ shown'[i].att = att'
  <2>1. \A i \in DOMAIN shown : shown[i].n \in Nat /\ shown[i].n <= frames /\ shown[i].att = att
    <3>1. \A i \in DOMAIN shown : shown[i] \in Frame
      BY <1>1 DEF Types
    <3> QED BY <1>1, <1>7, <3>1 DEF Told, Frame
  <2> QED BY <1>2, <1>3, <1>6, <1>7, <2>1
<1>11. Told'
  BY <1>1, <1>2, <1>3, <1>6, <1>9, <1>10 DEF Told, Among
<1>12. OneAttemptIsStored'
  BY <1>1, <1>2, <1>8, <1>11, ToldIsStored
<1> QED BY <1>1, <1>2, <1>3, <1>8, <1>9, <1>11, <1>12 DEF Attempts, NoContent

\* The frame that is taken, and the ones left.
LEMMA Taken ==
    ASSUME Types, AheadIs, NEW c \in BOOLEAN, Yielded(c), NEW h, NEW t, h = Head(ahead), t = Tail(ahead)
    PROVE  /\ h \in Frame /\ h.c = c /\ h.att = att /\ h.n = frames - Len(t) /\ h.n \in Nat
           /\ t \in Seq(Frame) /\ Len(t) \in Nat /\ Len(t) = Len(ahead) - 1 /\ Len(t) < frames
           /\ Numbered(t, frames - Len(t))
           /\ \A d : Among(ahead, d) => Among(t, d) /\ h.n \in DOMAIN d /\ d[h.n] = h
<1>1. ahead \in Seq(Frame) /\ ahead # <<>> /\ frames \in Nat /\ Len(ahead) \in Nat /\ Len(ahead) > 0 /\ Len(ahead) <= frames
  BY DEF Types, Yielded, AheadIs
<1>2. /\ h = ahead[1] /\ h \in Frame /\ t \in Seq(Frame) /\ Len(t) = Len(ahead) - 1
      /\ \A i \in 1..Len(t) : t[i] = ahead[i + 1]
      /\ DOMAIN ahead = 1..Len(ahead) /\ DOMAIN t = 1..Len(t)
  BY <1>1, HeadTailProperties
<1>3. \A i \in DOMAIN ahead : ahead[i].n = frames - Len(ahead) + i /\ ahead[i].att = att
  BY DEF AheadIs, Numbered
<1>4. h.c = c /\ h.att = att /\ h.n = frames - Len(t)
  <2>1. 1 \in DOMAIN ahead
    BY <1>1, <1>2
  <2>2. h.n = frames - Len(ahead) + 1 /\ h.att = att
    BY <1>2, <1>3, <2>1
  <2>3. h.c = c
    BY DEF Yielded
  <2> QED BY <1>1, <1>2, <2>2, <2>3
<1>5. Numbered(t, frames - Len(t))
  <2>1. SUFFICES ASSUME NEW i \in 1..Len(t) PROVE t[i].n = frames - Len(t) + i /\ t[i].att = att
    BY <1>2 DEF Numbered
  <2>2. t[i] = ahead[i + 1] /\ i + 1 \in DOMAIN ahead /\ i \in Nat
    BY <1>1, <1>2
  <2>3. ahead[i + 1].n = frames - Len(ahead) + (i + 1) /\ ahead[i + 1].att = att
    BY <1>3, <2>2
  <2> QED BY <1>1, <1>2, <2>2, <2>3
<1>6. ASSUME NEW d, Among(ahead, d) PROVE Among(t, d) /\ h.n \in DOMAIN d /\ d[h.n] = h
  <2>1. \A i \in 1..Len(t) : i + 1 \in DOMAIN ahead
    BY <1>1, <1>2
  <2>2. 1 \in DOMAIN ahead
    BY <1>1, <1>2
  <2> QED BY <1>2, <1>6, <2>1, <2>2 DEF Among
<1>7. h.n \in Nat /\ Len(t) \in Nat /\ Len(t) < frames
  BY <1>1, <1>2, <1>4
<1> QED BY <1>2, <1>4, <1>5, <1>6, <1>7

\* A frame without content is held back.
LEMMA BufferKeeps ==
    ASSUME Inv, Buffer
    PROVE  Types' /\ Attempts'
<1>1. Types /\ Attempts /\ ~prepared /\ Yielded(FALSE) /\ pc = "stream" /\ AheadIs /\ Held /\ phase \in {"open", "ended"}
  BY DEF Inv, Attempts, Buffer, Yielded, Told
<1>2. PICK h, t : h = Head(ahead) /\ t = Tail(ahead)
  OBVIOUS
<1>3. /\ buf' = Append(buf, h) /\ ahead' = t /\ UNCHANGED handlerRest
      /\ phase' = phase /\ pc' = pc /\ frames' = frames /\ pending' = pending /\ live' = live /\ broken' = broken
      /\ db' = db /\ shown' = shown /\ prepared' = prepared /\ faults' = faults
  BY <1>2 DEF Buffer, stream
<1>4. /\ req' = req /\ ready' = ready /\ effort' = effort /\ rs' = rs /\ kept' = kept /\ att' = att
      /\ StoreRow' = StoreRow
  BY <1>3, HandlerRestIs
<1>5. /\ h \in Frame /\ ~h.c /\ h.att = att /\ h.n = frames - Len(t) /\ h.n \in Nat
      /\ t \in Seq(Frame) /\ Len(t) \in Nat /\ Len(t) = Len(ahead) - 1 /\ Len(t) < frames
      /\ Numbered(t, frames - Len(t))
      /\ \A d : Among(ahead, d) => Among(t, d) /\ h.n \in DOMAIN d /\ d[h.n] = h
  BY <1>1, <1>2, Taken
<1>6. PICK b : b = Append(buf, h)
  OBVIOUS
<1>7. /\ buf \in Seq(Frame) /\ frames \in Nat /\ Len(ahead) \in Nat /\ Len(buf) = frames - Len(ahead)
  BY <1>1 DEF Types, Held
<1>8. /\ b \in Seq(Frame) /\ Len(b) = Len(buf) + 1 /\ (\A i \in 1..Len(buf) : b[i] = buf[i]) /\ b[Len(buf) + 1] = h
      /\ DOMAIN b = 1..(Len(buf) + 1) /\ DOMAIN buf = 1..Len(buf) /\ Len(buf) \in Nat /\ b # <<>>
  <2>1. h \in Frame /\ buf \in Seq(Frame)
    BY <1>5, <1>7, Zenon
  <2> QED BY <1>6, <2>1, Appended, SMTT(30)
<1>9. Len(b) = frames - Len(t) /\ h.n = Len(buf) + 1
  BY <1>5, <1>7, <1>8
<1>10. ASSUME NEW i \in DOMAIN b PROVE b[i].n = 0 + i /\ b[i].att = att /\ ~b[i].c
  <2>1. CASE i = Len(buf) + 1
    BY <1>5, <1>8, <1>9, <2>1
  <2>2. CASE i \in DOMAIN buf
    BY <1>1, <1>8, <2>2 DEF Held, Numbered, NoContent
  <2> QED BY <1>8, <2>1, <2>2
<1>11. StoreRow => Tally(pending)' /\ Among(b, pending) /\ Among(t, pending)
  <2>1. SUFFICES ASSUME StoreRow PROVE Tally(pending)' /\ Among(b, pending) /\ Among(t, pending)
    OBVIOUS
  <2>2. Tally(pending) /\ Among(buf, pending) /\ Among(ahead, pending)
    BY <1>1, <2>1 DEF Held
  <2>3. Among(t, pending) /\ h.n \in DOMAIN pending /\ pending[h.n] = h
    BY <1>5, <2>2
  <2>4. Among(b, pending)
    BY <1>8, <2>2, <2>3 DEF Among
  <2> QED BY <1>3, <1>4, <2>2, <2>3, <2>4 DEF Tally, Numbered
<1>12. Untold' /\ ~live' /\ ~broken'
  BY <1>1, <1>3 DEF Held, Untold
<1>13. buf' = b
  BY <1>3, <1>6
<1>14. Held' /\ AheadIs'
  <2>1. Numbered(buf, 0)' /\ NoContent(buf)' /\ Len(buf') = frames' - Len(ahead')
    BY <1>3, <1>4, <1>9, <1>10, <1>13 DEF Numbered, NoContent
  <2>2. StoreRow' => Tally(pending)' /\ Among(buf', pending') /\ Among(ahead', pending')
    BY <1>3, <1>4, <1>11, <1>13
  <2>3. AheadIs'
    BY <1>3, <1>4, <1>5, <1>7 DEF AheadIs, Numbered
  <2> QED BY <1>12, <2>1, <2>2, <2>3 DEF Held, Among
<1>15. Types'
  BY <1>1, <1>3, <1>4, <1>5, <1>8, <1>13 DEF Types
<1>16. OneAttemptIsStored'
  BY <1>12, UntoldIsStored
<1> QED BY <1>1, <1>3, <1>4, <1>14, <1>15, <1>16 DEF Attempts, NoContent

\* What commit writes: everything that was held.
LEMMA CommitLogIs ==
    ASSUME Types, Held, CommitLog
    PROVE  /\ StoreRow => db' = pending /\ Tally(pending) /\ Sound(pending)
           /\ ~StoreRow => db' = <<>>
           /\ pending' = <<>> /\ live' = TRUE /\ db' \in Seq(Frame)
<1>1. db = <<>> /\ pending \in Seq(Frame) /\ <<>> \o pending = pending
  BY ConcatEmptySeq DEF Held, Untold, Types
<1>2. CASE StoreRow
  BY <1>1, <1>2, TallyIsSound DEF CommitLog, Held
<1>3. CASE ~StoreRow
  BY <1>1, <1>3, EmptyIsSound DEF CommitLog
<1> QED BY <1>2, <1>3 DEF CommitLog

\* The first content frame commits: what was held goes to the database and to the client.
LEMMA CommitKeeps ==
    ASSUME Inv, Commit
    PROVE  Types' /\ Attempts'
<1>1. Types /\ Attempts /\ ~prepared /\ Yielded(TRUE) /\ pc = "stream" /\ AheadIs /\ Held /\ phase \in {"open", "ended"}
  BY DEF Inv, Attempts, Commit, Yielded, Told
<1>2. PICK h, t : h = Head(ahead) /\ t = Tail(ahead)
  OBVIOUS
<1>3. /\ CommitLog /\ prepared' = TRUE /\ shown' = Append(buf, h) /\ buf' = <<>> /\ ahead' = t /\ UNCHANGED handlerRest
      /\ phase' = phase /\ pc' = pc /\ frames' = frames /\ broken' = broken /\ faults' = faults
  BY <1>2 DEF Commit, stream
<1>4. /\ req' = req /\ ready' = ready /\ effort' = effort /\ rs' = rs /\ kept' = kept /\ att' = att
      /\ StoreRow' = StoreRow
  BY <1>3, HandlerRestIs
<1>5. /\ h \in Frame /\ h.c /\ h.att = att /\ h.n = frames - Len(t) /\ h.n \in Nat
      /\ t \in Seq(Frame) /\ Len(t) \in Nat /\ Len(t) = Len(ahead) - 1 /\ Len(t) < frames
      /\ Numbered(t, frames - Len(t))
      /\ \A d : Among(ahead, d) => Among(t, d) /\ h.n \in DOMAIN d /\ d[h.n] = h
  BY <1>1, <1>2, Taken
<1>6. PICK b : b = Append(buf, h)
  OBVIOUS
<1>7. /\ buf \in Seq(Frame) /\ frames \in Nat /\ Len(ahead) \in Nat /\ Len(buf) = frames - Len(ahead)
  BY <1>1 DEF Types, Held
<1>8. /\ b \in Seq(Frame) /\ Len(b) = Len(buf) + 1 /\ (\A i \in 1..Len(buf) : b[i] = buf[i]) /\ b[Len(buf) + 1] = h
      /\ DOMAIN b = 1..(Len(buf) + 1) /\ DOMAIN buf = 1..Len(buf) /\ Len(buf) \in Nat /\ b # <<>>
  <2>1. h \in Frame /\ buf \in Seq(Frame)
    BY <1>5, <1>7, Zenon
  <2> QED BY <1>6, <2>1, Appended, SMTT(30)
<1>9. Len(b) = frames - Len(t) /\ h.n = Len(buf) + 1
  BY <1>5, <1>7, <1>8
<1>10. ASSUME NEW i \in DOMAIN b PROVE b[i].n = i /\ b[i].att = att
  <2>1. CASE i = Len(buf) + 1
    BY <1>5, <1>8, <1>9, <2>1
  <2>2. CASE i \in DOMAIN buf
    <3>1. buf[i].n = 0 + i /\ buf[i].att = att /\ b[i] = buf[i]
      BY <1>1, <1>8, <2>2 DEF Held, Numbered
    <3> QED BY <1>8, <3>1
  <2> QED BY <1>8, <2>1, <2>2
<1>11. /\ StoreRow => db' = pending /\ Tally(pending)
       /\ ~StoreRow => db' = <<>>
       /\ pending' = <<>> /\ live' = TRUE /\ db' \in Seq(Frame)
  BY <1>1, <1>3, CommitLogIs
<1>12. StoreRow => Tally(db)' /\ Among(b, db') /\ Among(t, db')
  <2>1. SUFFICES ASSUME StoreRow PROVE Tally(db)' /\ Among(b, db') /\ Among(t, db')
    OBVIOUS
  <2>2. Tally(pending) /\ Among(buf, pending) /\ Among(ahead, pending) /\ db' = pending
    BY <1>1, <1>11, <2>1 DEF Held
  <2>3. Among(t, pending) /\ h.n \in DOMAIN pending /\ pending[h.n] = h
    BY <1>5, <2>2
  <2>4. Among(b, pending)
    BY <1>8, <2>2, <2>3 DEF Among
  <2> QED BY <1>3, <1>4, <2>2, <2>3, <2>4 DEF Tally, Numbered
<1>13. shown' = b
  BY <1>3, <1>6
<1>14. Types'
  BY <1>1, <1>3, <1>4, <1>5, <1>8, <1>11, <1>13, EmptyIsSound DEF Types
<1>15. AheadIs'
  BY <1>3, <1>4, <1>5, <1>7 DEF AheadIs, Numbered
<1>16. Told'
  <2>1. \E i \in DOMAIN b : b[i].c
    <3>1. Len(buf) + 1 \in DOMAIN b
      BY <1>8
    <3>2. b[Len(buf) + 1].c
      BY <1>5, <1>8, Zenon
    <3> QED BY <3>1, <3>2
  <2>2. /\ \A i, j \in DOMAIN b : i < j => b[i].n < b[j].n
        /\ \A i \in DOMAIN b : b[i].n <= frames - Len(t) /\ b[i].att = att
    BY <1>5, <1>7, <1>8, <1>9, <1>10
  <2>3. ahead' = <<>> => ShownToTheEnd'
    <3>1. SUFFICES ASSUME ahead' = <<>> PROVE ShownToTheEnd'
      OBVIOUS
    <3>2. Len(t) = 0 /\ b[Len(b)] = h
      BY <1>3, <1>8, <3>1
    <3>3. h.n = frames - Len(t) /\ frames \in Nat
      BY <1>5, <1>7
    <3>4. h.n = frames
      BY <3>2, <3>3
    <3>5. b # <<>> /\ b[Len(b)].n = frames
      BY <1>8, <3>2, <3>4
    <3> QED BY <1>3, <1>13, <3>5 DEF ShownToTheEnd
  <2>4. prepared' /\ live' /\ (\E i \in DOMAIN shown' : shown'[i].c)
    BY <1>3, <1>11, <1>13, <2>1
  <2>5. /\ \A i, j \in DOMAIN shown' : i < j => shown'[i].n < shown'[j].n
        /\ \A i \in DOMAIN shown' : shown'[i].n <= frames' - Len(ahead') /\ shown'[i].att = att'
        /\ Len(shown') = frames' - Len(ahead') /\ \A i \in DOMAIN shown' : shown'[i].n = i
    BY <1>3, <1>4, <1>9, <1>10, <1>13, <2>2
  <2>6. (StoreRow' => Tally(db)' /\ Among(shown', db') /\ Among(ahead', db')) /\ (~StoreRow' => db' = <<>>)
    BY <1>3, <1>4, <1>11, <1>12, <1>13
  <2> QED BY <2>3, <2>4, <2>5, <2>6 DEF Told, Among
<1>17. OneAttemptIsStored'
  BY <1>1, <1>3, <1>14, <1>16, ToldIsStored
<1> QED BY <1>1, <1>3, <1>4, <1>14, <1>15, <1>16, <1>17 DEF Attempts, NoContent

\* Where the generator stands when the transport is closed.
LEMMA LeaveIs ==
    ASSUME Leave, phase \in {"open", "ended"}
    PROVE  /\ pc' = "left" /\ ahead' = <<>> /\ phase' \in {"gone", "ended"}
           /\ phase' = "ended" => phase = "ended"
  BY DEF Leave, S!Drop, stream

\* The commit when the client has left.
LEMMA CommitToNobodyKeeps ==
    ASSUME Inv, CommitToNobody
    PROVE  Types' /\ Attempts'
<1>1. /\ Types /\ Attempts /\ ~prepared /\ client = "gone" /\ Yielded(TRUE) /\ pc = "stream" /\ AheadIs /\ Held
      /\ phase \in {"open", "ended"}
  BY DEF Inv, Attempts, CommitToNobody, Yielded, Told
<1>2. PICK h, t : h = Head(ahead) /\ t = Tail(ahead)
  OBVIOUS
<1>3. /\ CommitLog /\ buf' = Append(buf, h) /\ Leave /\ UNCHANGED handlerRest
      /\ frames' = frames /\ broken' = broken /\ shown' = shown /\ prepared' = prepared /\ faults' = faults
  BY <1>2 DEF CommitToNobody
<1>4. /\ req' = req /\ client' = client /\ ready' = ready /\ effort' = effort /\ rs' = rs /\ kept' = kept /\ att' = att
      /\ StoreRow' = StoreRow
  BY <1>3, HandlerRestIs
<1>5. pc' = "left" /\ ahead' = <<>> /\ phase' \in {"gone", "ended"}
  BY <1>1, <1>3, LeaveIs
<1>6. h \in Frame
  BY <1>1, <1>2, Taken
<1>7. /\ StoreRow => db' = pending /\ Sound(pending)
      /\ ~StoreRow => db' = <<>>
      /\ pending' = <<>> /\ live' = TRUE /\ db' \in Seq(Frame)
  BY <1>1, <1>3, CommitLogIs
<1>8. Sound(db') /\ shown' = <<>> /\ ~prepared'
  BY <1>1, <1>3, <1>7, EmptyIsSound DEF Held, Untold
<1>9. Types'
  <2>1. buf' \in Seq(Frame)
    BY <1>1, <1>3, <1>6 DEF Types
  <2> QED BY <1>1, <1>3, <1>4, <1>5, <1>7, <2>1, EmptyIsSound DEF Types
<1>10. OneAttemptIsStored'
  BY <1>5, <1>8, StoredIs DEF Among
<1>11. ~ShownToTheEnd'
  BY <1>8 DEF ShownToTheEnd
<1> QED BY <1>1, <1>4, <1>5, <1>9, <1>10, <1>11 DEF Attempts, NoContent

\* A statement of the commit fails: a beginning of one attempt is stored.
LEMMA CommitFailsKeeps ==
    ASSUME Inv, NEW i \in 0..MaxFrames, CommitFails(i)
    PROVE  Types' /\ Attempts'
<1>1. Types /\ Attempts /\ ~prepared /\ pc = "stream" /\ Held /\ StoreRow
  BY DEF Inv, Attempts, CommitFails, Yielded, Told
<1>2. /\ i < Len(pending) /\ faults' = faults + 1 /\ live' = TRUE
      /\ db' = db \o SubSeq(pending, 1, i) /\ pending' = <<>> /\ ahead' = <<>> /\ pc' = "done" /\ reply' = "crash"
      /\ UNCHANGED handlerRest /\ frames' = frames /\ buf' = buf /\ broken' = broken /\ shown' = shown
      /\ prepared' = prepared
  BY DEF CommitFails, Finish
<1>3. /\ req' = req /\ ready' = ready /\ effort' = effort /\ rs' = rs /\ kept' = kept /\ att' = att
  BY <1>2, HandlerRestIs
<1>4. pending \in Seq(Frame) /\ Sound(pending)
  BY <1>1, TallyIsSound DEF Held, Types
<1>5. i \in 0..Len(pending)
  BY <1>2, <1>4, CreateAssumption
<1>6. PICK u : u = SubSeq(pending, 1, i)
  OBVIOUS
<1>7. u \in Seq(Frame) /\ Sound(u)
  BY <1>4, <1>5, <1>6, SoundBeginning
<1>8. db' = u /\ shown' = <<>> /\ ~prepared'
  BY <1>1, <1>2, <1>6, <1>7, ConcatEmptySeq DEF Held, Untold
<1>9. Types'
  <2>1. frames' \in Nat /\ faults' \in Nat
    BY <1>1, <1>2 DEF Types
  <2>2. db' \in Seq(Frame) /\ pending' \in Seq(Frame) /\ ahead' \in Seq(Frame) /\ live' \in BOOLEAN
    BY <1>2, <1>7, <1>8, EmptyIsSound
  <2> QED BY <1>1, <1>2, <1>3, <2>1, <2>2 DEF Types
<1>10. OneAttemptIsStored'
  <2>1. PICK d, h : d = db' /\ h = shown'
    OBVIOUS
  <2>2. Sound(d) /\ DOMAIN h = {} /\ Among(h, d)
    BY <1>7, <1>8, <2>1 DEF Among
  <2> QED BY <1>2, <1>8, <2>1, <2>2, StoredIs
<1> QED BY <1>1, <1>2, <1>3, <1>9, <1>10 DEF Attempts, NoContent

\* After the commit a frame that is yielded goes to the client.
LEMMA WriteKeeps ==
    ASSUME Inv, Write
    PROVE  Types' /\ Attempts'
<1>1. /\ Types /\ Attempts /\ prepared /\ pc = "stream" /\ AheadIs /\ Told /\ phase \in {"open", "ended"}
  BY DEF Inv, Attempts, Write, Yielded, Held, Untold
<1>2. PICK c \in BOOLEAN : Yielded(c)
  BY DEF Write
<1>3. PICK h, t : h = Head(ahead) /\ t = Tail(ahead)
  OBVIOUS
<1>4. /\ shown' = Append(shown, h) /\ ahead' = t /\ UNCHANGED handlerRest
      /\ phase' = phase /\ pc' = pc /\ frames' = frames /\ buf' = buf /\ pending' = pending /\ live' = live
      /\ broken' = broken /\ db' = db /\ prepared' = prepared /\ faults' = faults
  BY <1>3 DEF Write, stream
<1>5. /\ req' = req /\ ready' = ready /\ effort' = effort /\ rs' = rs /\ kept' = kept /\ att' = att
      /\ StoreRow' = StoreRow
  BY <1>4, HandlerRestIs
<1>6. /\ h \in Frame /\ h.att = att /\ h.n = frames - Len(t) /\ h.n \in Nat
      /\ t \in Seq(Frame) /\ Len(t) \in Nat /\ Len(t) = Len(ahead) - 1 /\ Len(t) < frames
      /\ Numbered(t, frames - Len(t))
      /\ \A d : Among(ahead, d) => Among(t, d) /\ h.n \in DOMAIN d /\ d[h.n] = h
  BY <1>1, <1>2, <1>3, Taken
<1>7. PICK b : b = Append(shown, h)
  OBVIOUS
<1>8. shown \in Seq(Frame) /\ frames \in Nat /\ Len(ahead) \in Nat
  BY <1>1 DEF Types
<1>9. /\ b \in Seq(Frame) /\ Len(b) = Len(shown) + 1 /\ (\A i \in 1..Len(shown) : b[i] = shown[i])
      /\ b[Len(shown) + 1] = h
      /\ DOMAIN b = 1..(Len(shown) + 1) /\ DOMAIN shown = 1..Len(shown) /\ Len(shown) \in Nat /\ b # <<>>
  BY <1>6, <1>7, <1>8, Appended
<1>10. shown' = b
  BY <1>4, <1>7
<1>11. \A i \in DOMAIN shown : shown[i].n \in Nat /\ shown[i].n < h.n /\ shown[i].n <= frames - Len(t) /\ shown[i].att = att
  <2>1. \A i \in DOMAIN shown : shown[i] \in Frame
    BY <1>8
  <2>2. \A i \in DOMAIN shown : shown[i].n <= frames - Len(ahead) /\ shown[i].att = att
    BY <1>1 DEF Told
  <2> QED BY <1>6, <1>8, <2>1, <2>2 DEF Frame
<1>12. ASSUME NEW i \in DOMAIN b, NEW j \in DOMAIN b, i < j PROVE b[i].n < b[j].n
  <2>1. i \in DOMAIN shown /\ b[i] = shown[i]
    BY <1>9, <1>12
  <2>2. CASE j = Len(shown) + 1
    BY <1>9, <1>11, <2>1, <2>2
  <2>3. CASE j \in DOMAIN shown
    BY <1>1, <1>9, <1>12, <2>1, <2>3 DEF Told
  <2> QED BY <1>9, <2>2, <2>3
<1>13. \A i \in DOMAIN b : b[i].n <= frames - Len(t) /\ b[i].att = att
  BY <1>6, <1>8, <1>9, <1>11
<1>14. ~broken => Len(b) = frames - Len(t) /\ \A i \in DOMAIN b : b[i].n = i
  <2>1. SUFFICES ASSUME ~broken PROVE Len(b) = frames - Len(t) /\ \A i \in DOMAIN b : b[i].n = i
    OBVIOUS
  <2>2. Len(shown) = frames - Len(ahead) /\ \A i \in DOMAIN shown : shown[i].n = i
    BY <1>1, <2>1 DEF Told
  <2>3. Len(b) = frames - Len(t) /\ h.n = Len(shown) + 1
    BY <1>6, <1>8, <1>9, <2>2
  <2>4. ASSUME NEW i \in DOMAIN b PROVE b[i].n = i
    <3>1. CASE i \in DOMAIN shown
      BY <1>9, <2>2, <3>1
    <3>2. CASE i = Len(shown) + 1
      BY <1>9, <2>3, <3>2
    <3> QED BY <1>9, <3>1, <3>2
  <2> QED BY <2>3, <2>4
<1>15. \E i \in DOMAIN b : b[i].c
  <2>1. PICK i \in DOMAIN shown : shown[i].c
    BY <1>1 DEF Told
  <2>2. i \in DOMAIN b /\ b[i] = shown[i]
    BY <1>9
  <2> QED BY <2>1, <2>2
<1>16. t = <<>> => ShownToTheEnd'
  <2>1. SUFFICES ASSUME t = <<>> PROVE ShownToTheEnd'
    OBVIOUS
  <2>2. Len(t) = 0 /\ b[Len(b)] = h
    BY <1>9, <2>1
  <2>3. h.n = frames - Len(t) /\ frames \in Nat
    BY <1>6, <1>8
  <2>4. h.n = frames
    BY <2>2, <2>3
  <2>5. b # <<>> /\ b[Len(b)].n = frames
    BY <1>9, <2>2, <2>4
  <2> QED BY <1>4, <1>10, <2>5 DEF ShownToTheEnd
<1>17. (StoreRow => Tally(db)' /\ Among(b, db) /\ Among(t, db)) /\ (~StoreRow => db = <<>>)
  <2>1. SUFFICES ASSUME StoreRow PROVE Tally(db)' /\ Among(b, db) /\ Among(t, db)
    BY <1>1 DEF Told
  <2>2. Tally(db) /\ Among(shown, db) /\ Among(ahead, db)
    BY <1>1, <2>1 DEF Told
  <2>3. Among(t, db) /\ h.n \in DOMAIN db /\ db[h.n] = h
    BY <1>6, <2>2
  <2>4. Among(b, db)
    BY <1>9, <2>2, <2>3 DEF Among
  <2> QED BY <1>4, <1>5, <2>2, <2>3, <2>4 DEF Tally, Numbered
<1>18. Types'
  BY <1>1, <1>4, <1>5, <1>6, <1>9, <1>10 DEF Types
<1>19. AheadIs'
  BY <1>4, <1>5, <1>6, <1>8 DEF AheadIs, Numbered
<1>20. Told'
  <2>1. /\ prepared' /\ live' /\ (\E i \in DOMAIN shown' : shown'[i].c)
        /\ \A i, j \in DOMAIN shown' : i < j => shown'[i].n < shown'[j].n
    BY <1>1, <1>4, <1>10, <1>12, <1>15 DEF Told
  <2>2. /\ \A i \in DOMAIN shown' : shown'[i].n <= frames' - Len(ahead') /\ shown'[i].att = att'
        /\ ~broken' => Len(shown') = frames' - Len(ahead') /\ \A i \in DOMAIN shown' : shown'[i].n = i
        /\ ahead' = <<>> => ShownToTheEnd'
    BY <1>4, <1>5, <1>10, <1>13, <1>14, <1>16
  <2>3. (StoreRow' => Tally(db)' /\ Among(shown', db') /\ Among(ahead', db')) /\ (~StoreRow' => db' = <<>>)
    BY <1>4, <1>5, <1>10, <1>17
  <2> QED BY <2>1, <2>2, <2>3 DEF Told, Among
<1>21. OneAttemptIsStored'
  BY <1>1, <1>4, <1>18, <1>20, ToldIsStored
<1> QED BY <1>1, <1>4, <1>5, <1>18, <1>19, <1>20, <1>21 DEF Attempts, NoContent

\* A write when the client has left.
LEMMA WriteToNobodyKeeps ==
    ASSUME Inv, WriteToNobody
    PROVE  Types' /\ Attempts'
<1>1. /\ Types /\ Attempts /\ prepared /\ client = "gone" /\ pc = "stream" /\ AheadIs /\ Told /\ Leave
      /\ phase \in {"open", "ended"} /\ (ahead # <<>> \/ phase = "open")
  BY DEF Inv, Attempts, WriteToNobody, Held, Untold
<1>2. /\ UNCHANGED handlerRest /\ frames' = frames /\ buf' = buf /\ pending' = pending /\ live' = live
      /\ broken' = broken /\ db' = db /\ shown' = shown /\ prepared' = prepared /\ faults' = faults
  BY DEF WriteToNobody
<1>3. /\ req' = req /\ client' = client /\ ready' = ready /\ effort' = effort /\ rs' = rs /\ kept' = kept /\ att' = att
      /\ StoreRow' = StoreRow
  BY <1>2, HandlerRestIs
<1>4. /\ pc' = "left" /\ ahead' = <<>> /\ phase' \in {"gone", "ended"} /\ (phase' = "ended" => phase = "ended")
  BY <1>1, LeaveIs
<1>5. Types'
  BY <1>1, <1>2, <1>3, <1>4, EmptyIsSound DEF Types
<1>6. OneAttemptIsStored'
  BY <1>1, <1>2, <1>3, <1>4, StoredKept DEF Attempts
<1>7. phase' = "ended" => ~ShownToTheEnd'
  <2>1. SUFFICES ASSUME phase' = "ended", shown # <<>> PROVE shown[Len(shown)].n # frames
    BY <1>2 DEF ShownToTheEnd
  <2>2. ahead # <<>> /\ ahead \in Seq(Frame) /\ shown \in Seq(Frame) /\ frames \in Nat
    BY <1>1, <1>4, <2>1 DEF Types
  <2>3. Len(ahead) \in Nat /\ Len(ahead) > 0 /\ Len(shown) \in DOMAIN shown /\ shown[Len(shown)] \in Frame
    BY <2>1, <2>2
  <2>4. shown[Len(shown)].n <= frames - Len(ahead) /\ shown[Len(shown)].n \in Nat
    BY <1>1, <2>3 DEF Told, Frame
  <2> QED BY <2>2, <2>3, <2>4
<1> QED BY <1>1, <1>2, <1>3, <1>4, <1>5, <1>6, <1>7 DEF Attempts, NoContent

\* An append of the closing frames fails.
LEMMA StreamRaisesKeeps ==
    ASSUME Inv, NEW cs \in Beginnings, StreamRaises(cs)
    PROVE  Types' /\ Attempts'
<1>1. /\ Types /\ Attempts /\ pc = "stream" /\ ahead = <<>> /\ Told /\ StoreRow
  BY DEF Inv, Attempts, StreamRaises, Asked, Held
<1>2. /\ frames' = frames + Len(cs) /\ LogEvents(New(cs)) /\ faults' = faults + 1 /\ pc' = "done" /\ reply' = "crash"
      /\ UNCHANGED handlerRest /\ buf' = buf /\ live' = live /\ shown' = shown /\ prepared' = prepared
      /\ ahead' = ahead /\ broken' = broken
  BY DEF StreamRaises, pipelineRest, Finish
<1>3. /\ req' = req /\ client' = client /\ ready' = ready /\ effort' = effort /\ rs' = rs /\ kept' = kept /\ att' = att
      /\ StoreRow' = StoreRow
  BY <1>2, HandlerRestIs
<1>4. cs \in Seq(BOOLEAN)
  BY ChunkIs
<1>5. PICK f : f = New(cs)
  OBVIOUS
<1>6. /\ frames' \in Nat /\ db' \in Seq(Frame) /\ pending' \in Seq(Frame) /\ Sound(db') /\ Among(shown, db')
  BY <1>1, <1>2, <1>3, <1>4, <1>5, LogGrows
<1>7. Types'
  <2>1. faults' \in Nat
    BY <1>1, <1>2 DEF Types
  <2> QED BY <1>1, <1>2, <1>3, <1>6, <2>1 DEF Types
<1>8. OneAttemptIsStored'
  <2>1. PICK d, h : d = db' /\ h = shown'
    OBVIOUS
  <2>2. Sound(d) /\ Among(h, d)
    BY <1>2, <1>6, <2>1
  <2>3. /\ \A i, j \in DOMAIN h : i < j => h[i].n < h[j].n /\ h[i].att = h[j].att
        /\ ~broken' => \A i \in DOMAIN h : h[i].n = i
        /\ \E i \in DOMAIN h : h[i].c
    BY <1>1, <1>2, <2>1 DEF Told
  <2> QED BY <1>2, <2>1, <2>2, <2>3, StoredIs
<1> QED BY <1>1, <1>2, <1>3, <1>7, <1>8 DEF Attempts, NoContent

\* A create that ends without another frame.
LEMMA EndKeeps ==
    ASSUME Inv, req' = req, ready' = ready, effort' = effort, rs' = rs, att' = att, frames' = frames, buf' = buf,
           live' = live, ahead' = ahead, broken' = broken, db' = db, shown' = shown, prepared' = prepared, kept' = kept,
           faults' \in Nat, pending' \in Seq(Frame), pc' = "done", OneAttemptIsStored'
    PROVE  Types' /\ Attempts'
<1>1. Types /\ Attempts
  BY DEF Inv
<1>2. Types'
  BY <1>1 DEF Types
<1> QED BY <1>1, <1>2 DEF Attempts, NoContent

\* The terminal UPDATE writes the row unless it fails.
LEMMA PersistIs ==
    ASSUME Types, NEW st, NEW ok \in BOOLEAN, Persist(st, ok)
    PROVE  /\ faults' \in Nat /\ rs' = rs
           /\ StoreRow /\ faults' = 0 => row' = st
  BY DEF Persist, Types

\* A stream that ended for a client that is still there: everything that is
\* stored was shown.
LEMMA AllIsShown ==
    ASSUME Types, Told, ahead = <<>>, StoreRow, ~broken
    PROVE  shown = db
<1>1. shown \in Seq(Frame) /\ db \in Seq(Frame) /\ frames \in Nat /\ Len(ahead) = 0
  BY DEF Types
<1>2. Len(shown) = frames /\ Len(db) = frames /\ Among(shown, db) /\ \A i \in DOMAIN shown : shown[i].n = i
  BY <1>1 DEF Told, Tally
<1>3. \A i \in 1..Len(shown) : shown[i] = db[i]
  BY <1>1, <1>2 DEF Among
<1> QED BY <1>1, <1>2, <1>3, SeqEqual

\* The ends of a create leave events and frames as they are.
LEMMA StreamEnds ==
    ASSUME Inv, NEW ok \in BOOLEAN, AfterGone(ok) \/ AfterCommitted(ok) \/ StreamExhausted(ok)
    PROVE  Types' /\ Attempts' /\ pc' = "done"
<1>1. Types /\ Attempts /\ faults \in Nat /\ <<>> \in Seq(Frame) /\ pending \in Seq(Frame)
  BY EmptyIsSound DEF Inv, Types
<1>2. CASE AfterGone(ok)
  <2>1. faults' \in Nat /\ rs' = rs
    BY <1>1, <1>2, PersistIs DEF AfterGone
  <2>2. /\ req' = req /\ ready' = ready /\ effort' = effort /\ att' = att /\ frames' = frames /\ buf' = buf
        /\ live' = live /\ ahead' = ahead /\ broken' = broken /\ db' = db /\ shown' = shown /\ prepared' = prepared
        /\ kept' = kept /\ pending' \in Seq(Frame) /\ pc' = "done" /\ client' = client /\ pc = "left"
    BY <1>1, <1>2 DEF AfterGone, EndRest, Finish
  <2>3. client' = "gone" /\ StoreRow' = StoreRow
    BY <1>1, <2>1, <2>2 DEF Attempts, StoreRow
  <2>4. OneAttemptIsStored'
    BY <1>1, <2>2, <2>3, StoredKept DEF Attempts
  <2> QED BY <2>1, <2>2, <2>4, EndKeeps
<1>3. CASE AfterCommitted(ok)
  <2>1. faults' \in Nat /\ rs' = rs
    BY <1>1, <1>3, PersistIs DEF AfterCommitted
  <2>2. /\ req' = req /\ ready' = ready /\ effort' = effort /\ att' = att /\ frames' = frames /\ buf' = buf
        /\ live' = live /\ ahead' = ahead /\ broken' = broken /\ db' = db /\ shown' = shown /\ prepared' = prepared
        /\ kept' = kept /\ pending' \in Seq(Frame) /\ pc' = "done" /\ ahead = <<>> /\ pc = "stream" /\ prepared
    BY <1>1, <1>3 DEF AfterCommitted, EndRest, Finish, Ended
  <2>3. Told /\ StoreRow' = StoreRow
    BY <1>1, <2>1, <2>2 DEF Attempts, Held, Untold, StoreRow
  <2>4. StoreRow /\ ~broken => shown = db
    BY <1>1, <2>2, <2>3, AllIsShown
  <2>5. OneAttemptIsStored'
    BY <1>1, <2>2, <2>3, <2>4 DEF Attempts, OneAttemptIsStored
  <2> QED BY <2>1, <2>2, <2>5, EndKeeps
<1>4. CASE StreamExhausted(ok)
  <2>1. ~\E i \in DOMAIN kept : kept[i].c
    BY <1>1 DEF Attempts, NoContent
  <2>2. /\ Persist("failed", ok) /\ db' = db /\ shown' = shown /\ prepared' = prepared /\ pc' = "done" /\ reply' = "error"
    BY <1>4, <2>1 DEF StreamExhausted, Finish
  <2>3. faults' \in Nat /\ rs' = rs
    BY <1>1, <2>2, PersistIs
  <2>4. /\ req' = req /\ ready' = ready /\ effort' = effort /\ att' = att /\ frames' = frames /\ buf' = buf
        /\ live' = live /\ ahead' = ahead /\ broken' = broken /\ kept' = kept /\ pending' \in Seq(Frame)
    BY <1>1, <1>4 DEF StreamExhausted
  <2>5. OneAttemptIsStored'
    <3>1. StoreRow' = StoreRow
      BY <2>3, <2>4 DEF StoreRow
    <3> QED BY <1>1, <2>2, <2>4, <3>1, StoredKept DEF Attempts
  <2> QED BY <2>2, <2>3, <2>4, <2>5, EndKeeps
<1> QED BY <1>2, <1>3, <1>4

\* An attempt without content hands nothing on to the next.
LEMMA AfterEmptyKeeps ==
    ASSUME Inv, AfterEmpty
    PROVE  Types' /\ Attempts'
<1>1. Types /\ Attempts /\ <<>> \in Seq(Frame)
  BY EmptyIsSound DEF Inv
<1>2. /\ pc = "stream" /\ ~prepared /\ pc' = "pick"
      /\ req' = req /\ ready' = ready /\ effort' = effort /\ rs' = rs /\ att' = att /\ frames' = frames /\ buf' = buf
      /\ live' = live /\ ahead' = ahead /\ broken' = broken /\ db' = db /\ shown' = shown /\ prepared' = prepared
      /\ faults' = faults /\ kept' \in {kept, buf} /\ pending' \in {pending, <<>>}
  BY DEF AfterEmpty, record, Ended
<1>3. Untold /\ NoContent(buf) /\ NoContent(kept)
  BY <1>1, <1>2 DEF Attempts, Held, Told
<1>4. Types'
  <2>1. kept' \in Seq(Frame) /\ pending' \in Seq(Frame)
    BY <1>1, <1>2 DEF Types
  <2> QED BY <1>1, <1>2, <2>1 DEF Types
<1>5. NoContent(kept)' /\ Untold'
  BY <1>2, <1>3 DEF NoContent, Untold
<1>6. OneAttemptIsStored'
  BY <1>5, UntoldIsStored
<1>7. Attempts'
  BY <1>2, <1>5, <1>6 DEF Attempts
<1> QED BY <1>4, <1>7

\* That the client leaves changes nothing that is stored or was sent.
LEMMA ClientLeavesKeeps ==
    ASSUME Inv, ClientLeaves \/ UNCHANGED vars
    PROVE  Types' /\ Attempts'
<1>1. Types /\ Attempts
  BY DEF Inv
<1>2. /\ UNCHANGED <<req, ready, loop, record, attempt, reply, faults>>
      /\ client = "gone" => client' = "gone"
      /\ client' = client \/ pc # "done"
  BY DEF ClientLeaves, vars
<1>3. /\ pc' = pc /\ effort' = effort /\ rs' = rs /\ att' = att /\ frames' = frames /\ buf' = buf
      /\ pending' = pending /\ live' = live /\ db' = db /\ shown' = shown /\ prepared' = prepared /\ kept' = kept
      /\ ahead' = ahead /\ broken' = broken /\ reply' = reply
      /\ phase' = phase /\ req' = req /\ ready' = ready /\ faults' = faults
  BY <1>2 DEF loop, record, attempt, stream
<1>4. Types'
  BY <1>1, <1>3 DEF Types
<1>5. OneAttemptIsStored'
  BY <1>1, <1>2, <1>3 DEF Attempts, OneAttemptIsStored, StoreRow
<1>6. /\ Held' = Held /\ Told' = Told /\ Untold' = Untold /\ AheadIs' = AheadIs /\ NoContent(kept)' = NoContent(kept)
      /\ ShownToTheEnd' = ShownToTheEnd
  BY <1>3 DEF Held, Told, Untold, Tally, Numbered, Among, AheadIs, NoContent, StoreRow, ShownToTheEnd
<1>7. Attempts'
  BY <1>1, <1>2, <1>3, <1>5, <1>6 DEF Attempts
<1> QED BY <1>4, <1>7

\* The steps of an attempt keep its part of the invariant.
LEMMA AttemptingKeeps ==
    ASSUME Inv, Attempting
    PROVE  Types' /\ Attempts'
<1>1. CASE \E i \in 0..MaxFrames : CommitFails(i)
  BY <1>1, CommitFailsKeeps
<1>2. CASE \E cs \in Chunks : Translate(cs) \/ Close(cs)
  BY <1>2, TranslateKeeps
<1>3. CASE \E cs \in Beginnings : TranslateFails(cs) \/ StreamRaises(cs)
  BY <1>3, TranslateFailsKeeps, StreamRaisesKeeps
<1>4. CASE \E ok \in BOOLEAN : AfterGone(ok) \/ AfterCommitted(ok) \/ StreamExhausted(ok)
  BY <1>4, StreamEnds
<1>5. CASE Open \/ Buffer \/ Commit \/ CommitToNobody \/ Write \/ WriteToNobody \/ AfterEmpty
  BY <1>5, OpenKeeps, BufferKeeps, CommitKeeps, CommitToNobodyKeeps, WriteKeeps, WriteToNobodyKeeps, AfterEmptyKeeps
<1> QED BY <1>1, <1>2, <1>3, <1>4, <1>5 DEF Attempting

(***************************************************************************)
(* The row of a create that is over                                         *)
(***************************************************************************)
\* The dispatch loop ends a streamed create only by refusing it, or when the
\* client left before a connection.
LEMMA LoopTellsTheStory ==
    ASSUME Inv, PhaseAOrLoop
    PROVE  RowTellsTheStory'
<1>1. req' = req /\ client' = client /\ pc \in Waiting /\ prepared' = prepared
  BY LoopLeavesAttempt DEF attempt
<1>2. ~prepared
  BY <1>1 DEF Inv, Attempts, Untold, Waiting
<1>3. Refused' = Refused
  BY <1>1 DEF Refused
<1>4. SUFFICES ASSUME pc' = "done", req.mode = "stream", ~Refused
               PROVE  reply' = "error" /\ client = "gone"
  BY <1>1, <1>2, <1>3 DEF RowTellsTheStory
<1>5. ~PhaseA
  BY <1>4 DEF PhaseA, Refuse, Enqueue, PrepareSync
<1>6. ~NonStream
  BY <1>4 DEF NonStream, LocalError, NoConnection, EnterFallback, ReplyError, HttpError, Answer,
              RetrySameKey, TryFallback, ReplyBody
<1>7. ~\E k \in Selectable : Select(k)
  BY <1>4 DEF Select
<1>8. ~SelectNone
  BY <1>4 DEF SelectNone
<1>9. ~StreamStrip /\ ~\E k \in Keys : KeyCools(k)
  BY <1>4 DEF StreamStrip, KeyCools, loop
<1>10. ~(\E window \in BOOLEAN : StreamLocalError(window)) /\ ~(\E e \in HttpErrors : StreamHttpError(e))
  BY <1>4 DEF StreamLocalError, StreamHttpError, NextKey
<1>11. StreamNoConnection
  BY <1>5, <1>6, <1>7, <1>8, <1>9, <1>10 DEF PhaseAOrLoop
<1> QED BY <1>4, <1>11 DEF StreamNoConnection, NextKey, Finish

\* A stream that ends leaves the row that belongs to its end.
LEMMA AttemptingTellsTheStory ==
    ASSUME Inv, Attempting
    PROVE  RowTellsTheStory'
<1>1. Types /\ Attempts
  BY DEF Inv
<1>2. CASE Open \/ Buffer \/ Commit \/ CommitToNobody \/ Write \/ WriteToNobody \/ AfterEmpty
           \/ \E cs \in Chunks : Translate(cs) \/ Close(cs)
  <2>1. pc' # "done"
    BY <1>2 DEF Open, Commit, CommitToNobody, WriteToNobody, AfterEmpty, Buffer, Write, Translate, Close, Asked,
                Yielded, Leave
  <2> QED BY <2>1 DEF RowTellsTheStory
<1>3. CASE (\E cs \in Beginnings : TranslateFails(cs) \/ StreamRaises(cs)) \/ \E i \in 0..MaxFrames : CommitFails(i)
  <2>1. faults' = faults + 1 /\ faults \in Nat
    BY <1>1, <1>3 DEF TranslateFails, StreamRaises, CommitFails, Types
  <2>2. faults' # 0
    BY <2>1
  <2> QED BY <2>2 DEF RowTellsTheStory
<1>4. ASSUME NEW ok \in BOOLEAN, AfterGone(ok) PROVE RowTellsTheStory'
  <2>1. phase' = phase /\ client' = client /\ req' = req /\ reply' = "stream" /\ pc = "left"
        /\ Persist("incomplete", ok) /\ shown' = shown /\ frames' = frames
    BY <1>4 DEF AfterGone, EndRest, stream, Finish
  <2>2. client = "gone" /\ phase \in {"ended", "gone"} /\ (phase = "ended" => ~ShownToTheEnd')
    BY <1>1, <2>1 DEF Attempts, ShownToTheEnd
  <2>3. rs' = rs /\ (StoreRow /\ faults' = 0 => row' = "incomplete")
    BY <1>1, <2>1, PersistIs
  <2>4. StoreRow' = StoreRow
    BY <2>1, <2>3 DEF StoreRow
  <2> QED BY <2>1, <2>2, <2>3, <2>4 DEF RowTellsTheStory
<1>5. ASSUME NEW ok \in BOOLEAN, AfterCommitted(ok) PROVE RowTellsTheStory'
  <2>1. /\ phase' = "ended" /\ status' = status /\ req' = req /\ reply' = "stream" /\ Persist(status, ok)
        /\ shown' = shown /\ frames' = frames /\ pc = "stream" /\ phase = "ended" /\ ahead = <<>> /\ prepared
    BY <1>5 DEF AfterCommitted, EndRest, stream, Finish, Ended
  <2>4. ShownToTheEnd'
    BY <1>1, <2>1 DEF Attempts, Held, Untold, Told, ShownToTheEnd
  <2>2. rs' = rs /\ (StoreRow /\ faults' = 0 => row' = status)
    BY <1>1, <2>1, PersistIs
  <2>3. StoreRow' = StoreRow
    BY <2>1, <2>2 DEF StoreRow
  <2> QED BY <2>1, <2>2, <2>3, <2>4 DEF RowTellsTheStory
<1>6. ASSUME NEW ok \in BOOLEAN, StreamExhausted(ok) PROVE RowTellsTheStory'
  <2>1. ~\E i \in DOMAIN kept : kept[i].c
    BY <1>1 DEF Attempts, NoContent
  <2>2. Persist("failed", ok) /\ prepared' = prepared /\ reply' = "error" /\ req' = req /\ pc = "decide"
    BY <1>6, <2>1 DEF StreamExhausted, Finish
  <2>3. ~prepared
    BY <1>1, <2>2 DEF Attempts, Untold
  <2>4. rs' = rs /\ (StoreRow /\ faults' = 0 => row' = "failed")
    BY <1>1, <2>2, PersistIs
  <2>5. StoreRow' = StoreRow
    BY <2>2, <2>4 DEF StoreRow
  <2> QED BY <2>2, <2>3, <2>4, <2>5 DEF RowTellsTheStory
<1> QED BY <1>2, <1>3, <1>4, <1>5, <1>6 DEF Attempting

\* That the client leaves does not touch the row.
LEMMA ClientLeavesTellsTheStory ==
    ASSUME Inv, ClientLeaves \/ UNCHANGED vars
    PROVE  RowTellsTheStory'
<1>1. CASE ClientLeaves
  <2>1. pc' # "done"
    BY <1>1 DEF ClientLeaves, loop
  <2> QED BY <2>1 DEF RowTellsTheStory
<1>2. CASE UNCHANGED vars
  <2>1. /\ pc' = pc /\ req' = req /\ rs' = rs /\ faults' = faults /\ reply' = reply /\ phase' = phase /\ row' = row
        /\ status' = status /\ client' = client /\ prepared' = prepared /\ shown' = shown /\ frames' = frames
    BY <1>2 DEF vars, loop, record, attempt, stream
  <2> QED BY <2>1 DEF Inv, RowTellsTheStory, StoreRow, Refused, ShownToTheEnd
<1> QED BY <1>1, <1>2

(***************************************************************************)
(* The calls                                                                *)
(***************************************************************************)
\* A step after which no key is being called.
LEMMA BudgetRests ==
    ASSUME Budget, req' = req, calls' = calls, tried \subseteq tried', tried' \subseteq AnyKey, effort' = effort,
           pc' # "call", ~Calling'
    PROVE  Budget'
<1>1. \A k \in AnyKey \ tried' : calls'[k] = 0
  BY DEF Budget
<1> QED BY <1>1 DEF Budget

\* Nothing that the budget looks at changes.
LEMMA BudgetKept ==
    ASSUME Budget, req' = req, calls' = calls, tried' = tried, effort' = effort, pc' = pc, cur' = cur, retried' = retried
    PROVE  Budget'
  BY DEF Budget, Calling, Strips, Chats

\* One call is counted for one key.
LEMMA CalledIs ==
    ASSUME calls \in [AnyKey -> Nat], cur \in AnyKey, Called
    PROVE  /\ calls' \in [AnyKey -> Nat] /\ calls'[cur] = calls[cur] + 1
           /\ \A k \in AnyKey : k # cur => calls'[k] = calls[k]
  BY DEF Called

\* A key is chosen that was not tried.
LEMMA SelectionKeepsBudget ==
    ASSUME Inv, NEW k \in AnyKey \ tried, cur' = k, retried' = {}, tried' \in {tried, tried \cup {k}},
           calls' = calls, effort' = effort, req' = req, req.mode = "nonstream" => tried' = tried \cup {k},
           req.mode = "stream" => tried' = tried
    PROVE  Budget'
<1>1. Budget /\ effort \in BOOLEAN /\ calls[k] = 0 /\ calls \in [AnyKey -> Nat]
  BY DEF Inv, Types, Budget
<1>2. tried' \subseteq AnyKey /\ (\A j \in AnyKey \ tried' : calls'[j] = 0)
  BY <1>1 DEF Budget
<1>3. CASE req.mode = "nonstream"
  <2>1. cur' \in tried' /\ calls'[cur'] = 0 /\ Chats' = 0 /\ "string" \notin retried'
    BY <1>1, <1>3 DEF Chats
  <2>2. Strips' = 0 \/ Strips' = 1
    BY DEF Strips
  <2>3. calls'[cur'] + Strips' <= Chats' + 1
    BY <2>1, <2>2
  <2>4. calls'[cur'] + Strips' <= Chats' + (IF "string" \in retried' THEN 3 ELSE 1)
    BY <2>1, <2>3
  <2> QED BY <1>1, <1>2, <1>3, <2>1, <2>4 DEF Budget
<1>4. CASE req.mode = "stream"
  BY <1>1, <1>2, <1>4 DEF Budget
<1>5. CASE req.mode \notin {"nonstream", "stream"}
  BY <1>1, <1>2, <1>5 DEF Budget
<1> QED BY <1>3, <1>4, <1>5

\* The first call of a key, or its call without reasoning_effort.
LEMMA StreamCallKeepsBudget ==
    ASSUME Inv, req.mode = "stream", pc = "call", Called, tried' = tried \cup {cur}, req' = req,
           effort' => effort, pc' = "call" => effort /\ ~effort' /\ cur' = cur
    PROVE  Budget'
<1>1. /\ Budget /\ effort \in BOOLEAN /\ cur \in AnyKey /\ calls \in [AnyKey -> Nat] /\ tried \subseteq AnyKey
      /\ \A k \in AnyKey \ tried : calls[k] = 0
      /\ \A k \in AnyKey : calls[k] <= (IF effort THEN 1 ELSE 2)
      /\ \A j, k \in AnyKey : calls[j] = 2 /\ calls[k] = 2 => j = k
      /\ cur \notin tried \/ (~effort /\ \A k \in AnyKey : calls[k] <= 1)
  BY DEF Inv, Types, Budget
<1>2. /\ calls' \in [AnyKey -> Nat] /\ calls'[cur] = calls[cur] + 1
      /\ \A k \in AnyKey : k # cur => calls'[k] = calls[k]
  BY <1>1, CalledIs
<1>3. tried' \subseteq AnyKey /\ \A k \in AnyKey \ tried' : calls'[k] = 0
  BY <1>1, <1>2
<1>4. CASE cur \notin tried
  <2>1. calls'[cur] = 1
    BY <1>1, <1>2, <1>4
  <2>2. \A k \in AnyKey : calls'[k] <= (IF effort THEN 1 ELSE 2)
    BY <1>1, <1>2, <2>1
  <2>3. \A j, k \in AnyKey : calls'[j] = 2 /\ calls'[k] = 2 => j = k
    BY <1>1, <1>2, <2>1
  <2>4. effort => \A k \in AnyKey : calls'[k] <= 1
    BY <2>2
  <2>5. \A k \in AnyKey : calls'[k] <= (IF effort' THEN 1 ELSE 2)
    BY <1>1, <1>2, <2>2
  <2> QED BY <1>1, <1>2, <1>3, <2>3, <2>4, <2>5 DEF Budget
<1>5. CASE cur \in tried
  <2>1. ~effort /\ \A k \in AnyKey : calls[k] <= 1
    BY <1>1, <1>5
  <2>2. \A k \in AnyKey : calls'[k] <= 2
    BY <1>1, <1>2, <2>1
  <2>3. \A j \in AnyKey : calls'[j] = 2 => j = cur
    BY <1>2, <2>1
  <2> QED BY <1>1, <1>2, <1>3, <2>1, <2>2, <2>3 DEF Budget
<1> QED BY <1>4, <1>5

\* The last call of a key that is not streamed.
LEMMA ResultKeepsBudget ==
    ASSUME Inv, req.mode = "nonstream", InGroup, cur # NoKey, NEW r, ResultIs(r), UNCHANGED calls \/ Called
    PROVE  Budget'
<1>1. /\ Budget /\ Calling /\ effort \in BOOLEAN
  BY DEF Inv, Types, InGroup, Calling
<1>2. /\ calls \in [AnyKey -> Nat] /\ cur \in tried /\ tried \subseteq AnyKey
      /\ calls[cur] + Strips <= Chats + (IF "string" \in retried THEN 3 ELSE 1)
  BY <1>1 DEF Budget
<1>3. req' = req /\ tried' = tried /\ effort' = effort /\ pc' # "call" /\ ~Calling'
  BY DEF ResultIs, Calling
<1>4. CASE UNCHANGED calls
  BY <1>1, <1>2, <1>3, <1>4, BudgetRests
<1>5. CASE Called
  <2>1. /\ calls' \in [AnyKey -> Nat] /\ calls'[cur] = calls[cur] + 1
        /\ \A k \in AnyKey : k # cur => calls'[k] = calls[k]
    BY <1>2, <1>5, CalledIs
  <2>2. Strips \in {0, 1} /\ Chats \in {0, 1} /\ calls[cur] \in Nat
    BY <1>2 DEF Strips, Chats
  <2>3. calls'[cur] <= 5
    BY <1>2, <2>1, <2>2
  <2>4. \A k \in AnyKey : calls'[k] <= 5
    BY <1>1, <2>1, <2>3 DEF Budget
  <2>5. \A k \in AnyKey \ tried' : calls'[k] = 0
    BY <1>1, <1>2, <1>3, <2>1 DEF Budget
  <2> QED BY <1>2, <1>3, <2>1, <2>4, <2>5 DEF Budget
<1> QED BY <1>4, <1>5

\* A retry of the same key takes up one of the calls that were left to it.
LEMMA RetryKeepsBudget ==
    ASSUME Inv, NEW why, RetrySameKey(why)
    PROVE  Budget'
<1>1. /\ req.mode = "nonstream" /\ cur # NoKey /\ Called
      /\ req' = req /\ pc' = pc /\ cur' = cur /\ tried' = tried
      /\ \/ InGroup /\ StripRetry
         \/ InGroup /\ "chat" \notin retried /\ retried' = retried \cup {"chat"} /\ effort' = effort
         \/ pc = "call" /\ "string" \notin retried /\ retried' = {"string"} /\ effort' = effort
  BY DEF RetrySameKey
<1>2. Budget /\ Calling /\ effort \in BOOLEAN
  BY <1>1 DEF Inv, Types, InGroup, Calling
<1>3. /\ calls \in [AnyKey -> Nat] /\ cur \in tried /\ tried \subseteq AnyKey
      /\ calls[cur] + Strips <= Chats + (IF "string" \in retried THEN 3 ELSE 1)
  BY <1>1, <1>2 DEF Budget
<1>4. /\ calls' \in [AnyKey -> Nat] /\ calls'[cur] = calls[cur] + 1
      /\ \A k \in AnyKey : k # cur => calls'[k] = calls[k]
  BY <1>1, <1>3, CalledIs
<1>5. Strips \in {0, 1} /\ Chats \in {0, 1} /\ calls[cur] \in Nat
  BY <1>3 DEF Strips, Chats
<1>6. calls'[cur] + Strips' <= Chats' + (IF "string" \in retried' THEN 3 ELSE 1)
  <2>1. CASE StripRetry
    <3>1. Strips = 1 /\ Strips' = 0 /\ Chats' = Chats /\ ("string" \in retried' <=> "string" \in retried)
      BY <2>1 DEF StripRetry, Strips, Chats
    <3> QED BY <1>3, <1>4, <1>5, <3>1
  <2>2. CASE "chat" \notin retried /\ retried' = retried \cup {"chat"} /\ effort' = effort
    <3>1. Strips' = Strips /\ Chats = 0 /\ Chats' = 1 /\ ("string" \in retried' <=> "string" \in retried)
      BY <2>2 DEF Strips, Chats
    <3> QED BY <1>3, <1>4, <1>5, <3>1
  <2>3. CASE "string" \notin retried /\ retried' = {"string"} /\ effort' = effort
    <3>1. Strips' = Strips /\ Chats' = 0 /\ "string" \in retried'
      BY <2>3 DEF Strips, Chats
    <3> QED BY <1>3, <1>4, <1>5, <2>3, <3>1
  <2> QED BY <1>1, <2>1, <2>2, <2>3
<1>7. calls'[cur] <= 5
  BY <1>3, <1>4, <1>5
<1>8. \A k \in AnyKey : calls'[k] <= 5
  BY <1>1, <1>2, <1>4, <1>7 DEF Budget
<1>9. \A k \in AnyKey \ tried' : calls'[k] = 0
  BY <1>1, <1>2, <1>3, <1>4 DEF Budget
<1> QED BY <1>1, <1>3, <1>4, <1>6, <1>8, <1>9 DEF Budget

\* A call without a stream uses up the retry it was made for.
LEMMA NonStreamKeepsBudget ==
    ASSUME Inv, NonStream
    PROVE  Budget'
<1>1. Budget
  BY DEF Inv
<1>2. tried \subseteq AnyKey
  BY <1>1 DEF Budget
<1>3. CASE LocalError \/ NoConnection \/ (\E e \in HttpErrors : HttpError(e)) \/ (\E b \in Bodies : Answer(b))
  BY <1>3, ResultKeepsBudget DEF LocalError, NoConnection, HttpError, Answer
<1>4. CASE \E why \in {"strip", "chat", "string"} : RetrySameKey(why)
  BY <1>4, RetryKeepsBudget
<1>5. ASSUME NEW k \in Fallback, TryFallback(k) PROVE Budget'
  <2>1. /\ k \in AnyKey \ tried /\ cur' = k /\ retried' = {} /\ tried' = tried \cup {k} /\ req.mode = "nonstream"
        /\ calls' = calls /\ effort' = effort /\ req' = req
    BY <1>5 DEF TryFallback, AnyKey
  <2> QED BY <2>1, SelectionKeepsBudget
<1>6. CASE EnterFallback \/ ReplyError
  <2>1. /\ req' = req /\ calls' = calls /\ tried' = tried /\ effort' = effort /\ pc' # "call" /\ ~Calling'
    BY <1>6 DEF EnterFallback, ReplyError, Finish, Calling
  <2> QED BY <1>1, <1>2, <2>1, BudgetRests
<1>7. ASSUME NEW ok \in BOOLEAN, ReplyBody(ok) PROVE Budget'
  <2>1. /\ req' = req /\ calls' = calls /\ tried' = tried /\ effort' = effort /\ pc' # "call" /\ ~Calling'
    BY <1>7 DEF ReplyBody, Finish, Calling
  <2> QED BY <1>1, <1>2, <2>1, BudgetRests
<1> QED BY <1>3, <1>4, <1>5, <1>6, <1>7, NonStream DEF NonStream

\* The dispatch loop calls a key only while its budget lasts.
LEMMA LoopKeepsBudget ==
    ASSUME Inv, PhaseAOrLoop
    PROVE  Budget'
<1>1. Budget /\ ready \subseteq Keys /\ effort \in BOOLEAN
  BY DEF Inv, Types
<1>2. tried \subseteq AnyKey
  BY <1>1 DEF Budget
<1>3. CASE PhaseA \/ SelectNone
  <2>1. /\ req' = req /\ calls' = calls /\ tried' = tried /\ effort' = effort /\ pc' # "call" /\ ~Calling'
    BY <1>3 DEF PhaseA, Refuse, Enqueue, PrepareSync, SelectNone, Finish, Calling
  <2> QED BY <1>1, <1>2, <2>1, BudgetRests
<1>4. ASSUME NEW k \in Selectable, Select(k) PROVE Budget'
  <2>1. k \in AnyKey \ tried
    BY <1>1, CreateAssumption DEF Selectable, AnyKey
  <2>2. /\ cur' = k /\ retried' = {} /\ calls' = calls /\ effort' = effort /\ req' = req
        /\ tried' = IF req.mode = "nonstream" THEN tried \cup {k} ELSE tried
    BY <1>4 DEF Select
  <2> QED BY <2>1, <2>2, SelectionKeepsBudget
<1>5. CASE NonStream
  BY <1>5, NonStreamKeepsBudget
<1>6. CASE StreamNoConnection \/ \E e \in HttpErrors : StreamHttpError(e)
  <2>1. /\ req.mode = "stream" /\ pc = "call" /\ Called /\ tried' = tried \cup {cur} /\ req' = req
        /\ pc' # "call" /\ (effort' => effort)
    BY <1>6 DEF StreamNoConnection, StreamHttpError, NextKey, Finish
  <2> QED BY <2>1, StreamCallKeepsBudget
<1>7. CASE StreamStrip
  <2>1. /\ req.mode = "stream" /\ pc = "call" /\ Called /\ tried' = tried \cup {cur} /\ req' = req
        /\ effort /\ ~effort' /\ pc' = "call" /\ cur' = cur
    BY <1>7 DEF StreamStrip, StripRetry
  <2> QED BY <2>1, StreamCallKeepsBudget
<1>8. ASSUME NEW window \in BOOLEAN, StreamLocalError(window) PROVE Budget'
  <2>1. /\ req.mode = "stream" /\ pc = "call" /\ req' = req /\ calls' = calls /\ effort' = effort
        /\ tried \subseteq tried' /\ tried' \subseteq tried \cup {cur} /\ pc' # "call" /\ ~Calling'
    BY <1>8 DEF StreamLocalError, NextKey, Calling
  <2>2. cur \in AnyKey
    BY <1>1, <2>1 DEF Budget
  <2> QED BY <1>1, <1>2, <2>1, <2>2, BudgetRests
<1>9. CASE \E k \in Keys : KeyCools(k)
  <2>1. /\ req' = req /\ calls' = calls /\ tried' = tried /\ effort' = effort /\ pc' = pc /\ cur' = cur
        /\ retried' = retried
    BY <1>9 DEF KeyCools, loop
  <2> QED BY <1>1, <2>1, BudgetKept
<1> QED BY <1>3, <1>4, <1>5, <1>6, <1>7, <1>8, <1>9 DEF PhaseAOrLoop

\* Reading a stream calls nobody.
LEMMA AttemptingKeepsBudget ==
    ASSUME Inv, Attempting
    PROVE  Budget'
<1>1. Budget
  BY DEF Inv
<1>2. tried \subseteq AnyKey
  BY <1>1 DEF Budget
<1>3. CASE Open
  <2>1. /\ req.mode = "stream" /\ pc = "call" /\ Called /\ tried' = tried \cup {cur} /\ req' = req
        /\ pc' # "call" /\ (effort' => effort)
    BY <1>3 DEF Open
  <2> QED BY <2>1, StreamCallKeepsBudget
<1>4. CASE ~Open
  <2>1. req' = req /\ calls' = calls /\ tried' = tried /\ effort' = effort
    <3>1. CASE Buffer \/ Commit \/ CommitToNobody \/ Write \/ WriteToNobody \/ \E i \in 0..MaxFrames : CommitFails(i)
      BY <3>1, HandlerRestIs DEF Buffer, Commit, CommitToNobody, Write, WriteToNobody, CommitFails
    <3>2. CASE \/ \E cs \in Chunks : Translate(cs) \/ Close(cs)
               \/ \E cs \in Beginnings : TranslateFails(cs) \/ StreamRaises(cs)
      BY <3>2, HandlerRestIs DEF Translate, Close, TranslateFails, StreamRaises, pipelineRest
    <3>4. CASE AfterEmpty
      BY <3>4 DEF AfterEmpty
    <3>3. CASE \E ok \in BOOLEAN : AfterGone(ok) \/ AfterCommitted(ok) \/ StreamExhausted(ok)
      BY <3>3 DEF AfterGone, AfterCommitted, StreamExhausted, EndRest
    <3> QED BY <1>4, <3>1, <3>2, <3>3, <3>4 DEF Attempting
  <2>2. pc' \in {"stream", "left", "pick", "done"}
    <3>1. CASE \/ Buffer \/ Commit \/ CommitToNobody \/ Write \/ WriteToNobody \/ AfterEmpty
               \/ \E i \in 0..MaxFrames : CommitFails(i)
      BY <3>1 DEF Buffer, Commit, CommitToNobody, Write, WriteToNobody, AfterEmpty, CommitFails, Finish, Yielded, Leave
    <3>2. CASE \/ \E cs \in Chunks : Translate(cs) \/ Close(cs)
               \/ \E cs \in Beginnings : TranslateFails(cs) \/ StreamRaises(cs)
      BY <3>2 DEF Translate, Close, TranslateFails, StreamRaises, Asked, Finish
    <3>3. CASE \E ok \in BOOLEAN : AfterGone(ok) \/ AfterCommitted(ok) \/ StreamExhausted(ok)
      BY <3>3, StreamEnds DEF AfterGone, AfterCommitted, StreamExhausted, Finish
    <3> QED BY <1>4, <3>1, <3>2, <3>3 DEF Attempting
  <2>3. pc' # "call" /\ ~Calling'
    BY <2>2 DEF Calling
  <2> QED BY <1>1, <1>2, <2>1, <2>3, BudgetRests
<1> QED BY <1>3, <1>4

(***************************************************************************)
(* The theorems                                                             *)
(***************************************************************************)
\* A create that has just arrived satisfies the invariant.
LEMMA InitHolds == Init => Inv
<1> SUFFICES ASSUME Init PROVE Inv
  OBVIOUS
<1>1. Types
  <2>1. req \in Requests /\ effort = req.effort
    BY DEF Init
  <2>2. effort \in BOOLEAN
    BY <2>1, CreateAssumption
  <2>3. db \in Seq(Frame) /\ buf \in Seq(Frame) /\ pending \in Seq(Frame) /\ shown \in Seq(Frame)
        /\ kept \in Seq(Frame) /\ ahead \in Seq(Frame)
    BY EmptyIsSound DEF Init
  <2> QED BY <2>1, <2>2, <2>3 DEF Init, Types
<1>2. Untold /\ NoContent(kept) /\ OneAttemptIsStored
  BY DEF Init, Untold, NoContent, OneAttemptIsStored
<1>3. Attempts
  BY <1>2 DEF Init, Attempts
<1>4. RowTellsTheStory
  BY DEF Init, RowTellsTheStory
<1>5. Budget
  <2>1. calls \in [AnyKey -> Nat] /\ (\A k \in AnyKey : calls[k] = 0) /\ tried = {} /\ pc = "start"
    BY DEF Init
  <2> QED BY <2>1 DEF Budget, Calling
<1> QED BY <1>1, <1>3, <1>4, <1>5 DEF Inv

\* Every step keeps the invariant.
LEMMA NextKeepsInv == Inv /\ [Next]_vars => Inv'
<1> SUFFICES ASSUME Inv, [Next]_vars PROVE Inv'
  OBVIOUS
<1>1. CASE PhaseAOrLoop
  BY <1>1, LoopKeepsAttempts, LoopTellsTheStory, LoopKeepsBudget DEF Inv
<1>2. CASE Attempting
  BY <1>2, AttemptingKeeps, AttemptingTellsTheStory, AttemptingKeepsBudget DEF Inv
<1>3. CASE ClientLeaves \/ UNCHANGED vars
  <2>1. /\ req' = req /\ calls' = calls /\ tried' = tried /\ effort' = effort /\ pc' = pc /\ cur' = cur
        /\ retried' = retried
    BY <1>3 DEF ClientLeaves, vars, loop
  <2>2. Budget'
    BY <2>1, BudgetKept DEF Inv
  <2> QED BY <1>3, <2>2, ClientLeavesKeeps, ClientLeavesTellsTheStory DEF Inv
<1> QED BY <1>1, <1>2, <1>3, NextSplits

\* The inductive invariant holds in every reachable state.
LEMMA InvAlways == Spec => []Inv
  BY InitHolds, NextKeepsInv, PTL DEF Spec

\* The deferred event log of a streamed create: however many keys are tried and
\* wherever a statement fails or the client leaves, the events in the database
\* are one attempt's, numbered without a gap; the client was shown nothing that is
\* not among them, and all of them when it stayed and no append failed.
THEOREM OneAttemptIsStoredAlways == Spec => []OneAttemptIsStored
<1>1. Inv => OneAttemptIsStored
  BY DEF Inv, Attempts
<1> QED BY <1>1, InvAlways, PTL

\* The status that the create path leaves in the responses table is the one the
\* stream ended with on the wire.
THEOREM RowTellsTheStoryAlways == Spec => []RowTellsTheStory
<1>1. Inv => RowTellsTheStory
  BY DEF Inv
<1> QED BY <1>1, InvAlways, PTL

\* A candidate key is called at most once for a streamed create, except one that
\* is asked again without reasoning_effort; five times bounds the retries of a
\* key that is not streamed.
THEOREM CallBudgetAlways == Spec => []CallBudget
<1>1. Inv => CallBudget
  <2> SUFFICES ASSUME Inv PROVE CallBudget
    OBVIOUS
  <2>1. /\ calls \in [AnyKey -> Nat] /\ \A k \in AnyKey \ tried : calls[k] = 0
    BY DEF Inv, Budget
  <2>2. req.mode = "nonstream" => \A k \in AnyKey : calls[k] <= 5
    BY DEF Inv, Budget
  <2>3. CASE req.mode = "stream"
    <3>1. /\ \A k \in AnyKey : calls[k] <= 2
          /\ \A j, k \in AnyKey : calls[j] = 2 /\ calls[k] = 2 => j = k
      BY <2>1, <2>3 DEF Inv, Budget
    <3>2. \A k \in AnyKey : calls[k] <= (IF k \in tried THEN 2 ELSE 0)
      BY <2>1, <3>1
    <3> QED BY <2>3, <3>1, <3>2 DEF CallBudget
  <2>4. CASE req.mode # "stream"
    BY <2>2, <2>4 DEF CallBudget
  <2> QED BY <2>3, <2>4
<1> QED BY <1>1, InvAlways, PTL
===============================================================================
