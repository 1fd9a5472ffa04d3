------------------------------ MODULE MCV3Create ------------------------------
(* Small instances of V3Create for TLC. *)
EXTENDS V3Create

Request(mode, store) == [mode |-> mode, store |-> store, chain |-> "ok", capable |-> TRUE, worker |-> TRUE,
                         effort |-> TRUE, native |-> TRUE]

\* Every path, with and without storing, and what phase A refuses.
SomeRequests ==
    {Request(mode, store) : mode \in {"nonstream", "stream", "background"}, store \in BOOLEAN}
    \cup {[Request("stream", TRUE) EXCEPT !.chain = "broken"], [Request("nonstream", TRUE) EXCEPT !.capable = FALSE],
          [Request("background", TRUE) EXCEPT !.worker = FALSE]}
===============================================================================
