--------------------------- MODULE MCConcurrencyGate ---------------------------
(* Small instances of ConcurrencyGate for TLC.                               *)
EXTENDS ConcurrencyGate

CONSTANTS r1, r2, r3, r4, g, m

TwoPools == {g, m}
FourReqs == {r1, r2, r3, r4}

\* Two requests of a limited model and two others, under the global limit.
LayeredChain == [r \in Reqs |-> IF r \in {r1, r2} THEN <<g, m>> ELSE <<g>>]

TwoSlots == [p \in Pools |-> IF p = g THEN 2 ELSE 1]
================================================================================
