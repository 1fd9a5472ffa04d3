------------------------------ MODULE SseParser ------------------------------
(***************************************************************************)
(* SSEParser: the bytes of an event stream cut into frames, whatever the   *)
(* chunks they arrive in.                                                  *)
(*                                                                         *)
(* Bytes are LF, CR, d (one byte of a data line) and the three bytes of a  *)
(* BOM; a line with BOM bytes in it is a field the parser ignores.  A data *)
(* line counts by its length, a frame is the sequence of its data lines.   *)
(***************************************************************************)
EXTENDS Integers, Sequences

CONSTANTS
    MaxInput,       \* bound: bytes of the stream after the BOM
    MaxEventBytes   \* max_event_bytes

VARIABLES
    input,      \* the whole stream
    read,       \* bytes fed so far
    buf,        \* _buf
    block,      \* the block being collected: [parts, raw, skip]
    bom,        \* _bom_done
    frames,     \* the frames so far
    flushed     \* flush has been called

ssevars == <<input, read, buf, block, bom, frames, flushed>>

BOM == <<"b1", "b2", "b3">>
Empty == [parts |-> <<>>, raw |-> 0, skip |-> FALSE]

StringsOver(bytes, n) == UNION {[1..k -> bytes] : k \in 0..n}

Init ==
    /\ \E k \in 0..3, s \in StringsOver({"lf", "cr", "d"}, MaxInput) : input = SubSeq(BOM, 1, k) \o s
    /\ read = 0 /\ buf = <<>> /\ block = Empty /\ bom = FALSE /\ frames = <<>> /\ flushed = FALSE

AtRest ==
    input = <<>> /\ read = 0 /\ buf = <<>> /\ block = Empty /\ bom = FALSE /\ frames = <<>> /\ flushed = TRUE

---------------------------------------------------------------------------
(* Lines *)

IsData(line) == \A i \in DOMAIN line : line[i] = "d"

\* _parse_field: only data lines leave something behind.
ParseField(st, line) ==
    IF IsData(line) THEN [st EXCEPT !.block.parts = Append(@, Len(line))] ELSE st

\* _dispatch: a block without data lines is no frame.
Dispatch(st) ==
    [block |-> Empty, out |-> IF st.block.parts = <<>> THEN st.out ELSE Append(st.out, st.block.parts)]

\* _consume_line: an oversized block is dropped up to the next empty line.
ConsumeLine(st, line, raw) ==
    IF st.block.skip THEN IF line = <<>> THEN [st EXCEPT !.block = Empty] ELSE st
    ELSE IF line = <<>> THEN Dispatch(st)
    ELSE IF st.block.raw + raw > MaxEventBytes THEN [st EXCEPT !.block = [Empty EXCEPT !.skip = TRUE]]
    ELSE ParseField([st EXCEPT !.block.raw = @ + raw], line)

\* Mutant: a CR that ends the buffer is a line end of its own.
LineEndEager(b, pos, final) ==
    LET ends == {i \in pos..Len(b) : b[i] \in {"lf", "cr"}}
        end  == CHOOSE i \in ends : \A j \in ends : i <= j
        wide == b[end] = "cr" /\ end < Len(b) /\ b[end + 1] = "lf"
    IN  IF ends = {} THEN {} ELSE {[end |-> end, nxt |-> IF wide THEN end + 2 ELSE end + 1]}

\* Where the line that begins at pos ends and the next one begins, if that is
\* known: a CR at the end of the buffer may be half of a CRLF.
LineEnd(b, pos, final) ==
    LET ends == {i \in pos..Len(b) : b[i] \in {"lf", "cr"}}
        end  == CHOOSE i \in ends : \A j \in ends : i <= j
        wide == b[end] = "cr" /\ end < Len(b) /\ b[end + 1] = "lf"
    IN  IF ends = {} \/ (b[end] = "cr" /\ end = Len(b) /\ ~final) THEN {}
        ELSE {[end |-> end, nxt |-> IF wide THEN end + 2 ELSE end + 1]}

RECURSIVE Drain(_, _, _, _)

\* _drain: the lines of b from pos on, then what is left of b.
Drain(b, pos, st, final) ==
    LET le == LineEnd(b, pos, final) IN
    IF le # {}
    THEN LET e == CHOOSE x \in le : TRUE
         IN  Drain(b, e.nxt, ConsumeLine(st, SubSeq(b, pos, e.end - 1), e.nxt - pos), final)
    ELSE LET tail == SubSeq(b, pos, Len(b))
         IN  IF final /\ tail # <<>> THEN [st |-> ConsumeLine(st, tail, Len(tail)), left |-> <<>>]
             ELSE [st |-> st, left |-> tail]

\* The valve on a line that never ends.
Valve(d) ==
    IF Len(d.left) <= MaxEventBytes THEN d
    ELSE [st |-> [d.st EXCEPT !.block = [Empty EXCEPT !.skip = TRUE]], left |-> <<>>]

\* _strip_bom: undecided as long as the bytes may still grow into a BOM.
BomUndecided(b, final) == ~bom /\ ~final /\ Len(b) < 3 /\ b = SubSeq(BOM, 1, Len(b))
WithoutBom(b) == IF ~bom /\ Len(b) >= 3 /\ SubSeq(b, 1, 3) = BOM THEN SubSeq(b, 4, Len(b)) ELSE b

---------------------------------------------------------------------------

Took(b, final) ==
    IF BomUndecided(b, final) THEN [st |-> [block |-> block, out |-> <<>>], left |-> b]
    ELSE Valve(Drain(WithoutBom(b), 1, [block |-> block, out |-> <<>>], final))

\* feed: the next n bytes.
Feed(n) ==
    /\ ~flushed /\ n <= Len(input) - read
    /\ LET b == buf \o SubSeq(input, read + 1, read + n)
           d == Took(b, FALSE)
       IN  /\ buf' = d.left /\ block' = d.st.block /\ frames' = frames \o d.st.out
           /\ bom' = (bom \/ ~BomUndecided(b, FALSE))
    /\ read' = read + n
    /\ UNCHANGED <<input, flushed>>

\* flush: the last line without its end, and the last block without its empty line.
Flush ==
    /\ ~flushed /\ read = Len(input)
    /\ LET d == Took(buf, TRUE)
           r == IF d.st.block.skip THEN d.st ELSE Dispatch(d.st)
       IN  frames' = frames \o r.out
    /\ block' = Empty /\ buf' = <<>> /\ bom' = TRUE /\ flushed' = TRUE
    /\ UNCHANGED <<input, read>>

Next == Flush \/ \E n \in 1..(MaxInput + 3) : Feed(n)

Spec == Init /\ [][Next]_ssevars

---------------------------------------------------------------------------
(* Properties *)

Body == IF Len(input) >= 3 /\ SubSeq(input, 1, 3) = BOM THEN SubSeq(input, 4, Len(input)) ELSE input

EndLine(s) ==
    IF s.line # <<>> THEN [s EXCEPT !.line = <<>>, !.parts = IF IsData(s.line) THEN Append(@, Len(s.line)) ELSE @]
    ELSE [s EXCEPT !.frames = IF s.parts = <<>> THEN @ ELSE Append(@, s.parts), !.parts = <<>>, !.size = 0]

\* The grammar of an event stream, byte by byte: after i bytes of s.
Grammar(s) ==
    LET G[i \in 0..Len(s)] ==
          IF i = 0 THEN [line |-> <<>>, parts |-> <<>>, frames |-> <<>>, size |-> 0, largest |-> 0]
          ELSE LET half == s[i] = "lf" /\ i > 1 /\ s[i - 1] = "cr"
                   g == [G[i - 1] EXCEPT !.size = @ + 1]
                   h == [g EXCEPT !.largest = IF g.size > @ THEN g.size ELSE @]
               IN  IF half THEN h ELSE IF s[i] \in {"lf", "cr"} THEN EndLine(h) ELSE [h EXCEPT !.line = Append(@, s[i])]
        last == EndLine(EndLine(G[Len(s)]))
    IN  [frames |-> last.frames, largest |-> G[Len(s)].largest]

\* However the bytes were cut into chunks (inside a CRLF, a BOM, a line, or at the
\* very end), the frames of a stream whose blocks all fit are those of the grammar;
\* and whatever the upstream sends, _buf and the block hold no more than one event may.
ChunksDoNotMatter ==
    /\ flushed /\ Grammar(Body).largest <= MaxEventBytes => frames = Grammar(Body).frames
    /\ Len(buf) <= MaxEventBytes /\ block.raw <= MaxEventBytes
=============================================================================
