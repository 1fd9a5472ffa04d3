---------------------------- MODULE ResponseStream ----------------------------
(***************************************************************************)
(* What the handler of streamed v3 creates relies on when it consumes the   *)
(* frames of one attempt: content appears while the stream is open and does *)
(* not go away, and the stream ends once: with a terminal event, with an    *)
(* exception, or because the handler closed it.  A terminal event without a *)
(* terminal_reason is a completion.                                         *)
(***************************************************************************)
VARIABLES phase, content, status, reason

streamVars == <<phase, content, status, reason>>

Init == phase = "open" /\ content = FALSE /\ status = "none" /\ reason = FALSE

Deliver ==
    /\ phase = "open" /\ ~content
    /\ content' = TRUE
    /\ UNCHANGED <<phase, status, reason>>

End ==
    /\ phase = "open"
    /\ phase' = "ended"
    /\ status' \in {"completed", "incomplete", "failed"}
    /\ reason' \in BOOLEAN
    /\ ~reason' => status' = "completed"
    /\ UNCHANGED content

Raise == phase = "open" /\ phase' = "raised" /\ UNCHANGED <<content, status, reason>>

Drop == phase = "open" /\ phase' = "gone" /\ UNCHANGED <<content, status, reason>>

Next == Deliver \/ End \/ Raise \/ Drop

Spec == Init /\ [][Next]_streamVars
===============================================================================
