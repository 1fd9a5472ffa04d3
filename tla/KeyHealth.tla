------------------------------ MODULE KeyHealth ------------------------------
(***************************************************************************)
(* The health of one upstream key: what a failure or a success makes of it *)
(* (the mark_ functions of proxy/retry.py) and when it may be used.        *)
(*                                                                         *)
(* cool is what is left of the cooldown, in ticks; counters and the label  *)
(* of the last failure, which only the admin pages show, are left out.     *)
(***************************************************************************)
EXTENDS Integers

CONSTANTS
    Backoff,         \* BACKOFF_STEPS: ticks of cooldown of each backoff level
    BalanceTicks,    \* BALANCE_COOLDOWN_SECONDS
    RetryAfters      \* Retry-After values an upstream may send, 0 for none

\* BACKOFF_MAX_LEVEL and SINGLE_KEY_BACKOFF_MAX_LEVEL
MaxLevel       == 3
SingleMaxLevel == 1

ASSUME HealthAssumption ==
    /\ Backoff \in [0..MaxLevel -> Nat \ {0}]
    /\ BalanceTicks \in Nat
    /\ RetryAfters \subseteq Nat /\ 0 \in RetryAfters

Health == [status : {"healthy", "rate_limited", "invalid", "error"}, cool : Nat, level : 0..MaxLevel]

Fresh == [status |-> "healthy", cool |-> 0, level |-> 0]

Available(h) == h.status # "invalid" /\ h.cool = 0

Lower(a, b) == IF a < b THEN a ELSE b

MarkAuthFailure(h) == [h EXCEPT !.status = "invalid", !.cool = 0]

MarkBalanceDepleted(h) == [h EXCEPT !.status = "error", !.cool = BalanceTicks]

MarkBanned(h) == [status |-> "error", cool |-> Backoff[MaxLevel], level |-> MaxLevel]

\* A Retry-After is honoured up to the longest step and leaves the level alone.
MarkRateLimited(h, retryAfter) ==
    LET up == Lower(h.level + 1, MaxLevel)
    IN  IF retryAfter > 0
        THEN [h EXCEPT !.status = "rate_limited", !.cool = Lower(retryAfter, Backoff[MaxLevel])]
        ELSE [status |-> "rate_limited", cool |-> Backoff[up], level |-> up]

\* mark_server_error, mark_network_failure and mark_empty_response.
MarkTransient(h, single) ==
    LET up == Lower(h.level + 1, IF single THEN SingleMaxLevel ELSE MaxLevel)
    IN  [status |-> "error", cool |-> Backoff[up], level |-> up]

\* A success lowers the level by one and ends the cooldown.
MarkSuccess(h) == [status |-> "healthy", cool |-> 0, level |-> IF h.level > 0 THEN h.level - 1 ELSE 0]

\* classify_failure_labelled: what a retryable error status may make of a key.
Classified(h, single) ==
    {MarkAuthFailure(h), MarkBalanceDepleted(h), MarkBanned(h), MarkTransient(h, single)}
    \cup {MarkRateLimited(h, t) : t \in RetryAfters}

\* learn_rate_limits after a success: a 200 may carry a Retry-After as well.
Served(h) == {[MarkSuccess(h) EXCEPT !.cool = Lower(t, Backoff[MaxLevel])] : t \in RetryAfters}
==============================================================================
