------------------------------- MODULE MCKeys -------------------------------
(***************************************************************************)
(* The keys a request is admitted with and served by: the capability       *)
(* router that picks an upstream key, the pool of these keys and the       *)
(* access tokens.  They share nothing but the database: a behaviour        *)
(* exercises one of them while the others are at rest.                     *)
(***************************************************************************)
EXTENDS CapabilityRouter
CONSTANTS r1, l1, l2, Backoff, BalanceTicks, RetryAfters, PoolKeys, Requests, Reloaders,
          MaxCalls, MaxReloads, MaxEdits, MaxFaults, Processes, Tasks, Quota, Costs, MaxTokens
VARIABLES listed, saved, heap, gen, baseline, loads, round, flight, used,
          config, cache, tokens, issued, task, faults

Pool == INSTANCE KeyPool WITH Keys <- PoolKeys
Tok == INSTANCE AccessTokens

\* Keys are rows numbered from one, and cooldowns are counted in ticks.
ASSUME PoolAssumption ==
    /\ PoolKeys \subseteq Nat \ {0}
    /\ {MaxCalls, MaxReloads, MaxEdits, MaxFaults} \subseteq Nat
    /\ Backoff \in [0..Pool!MaxLevel -> Nat \ {0}] /\ BalanceTicks \in Nat
    /\ RetryAfters \subseteq Nat /\ 0 \in RetryAfters

\* A key that was not provisioned is the salt of no process; usage is a number.
ASSUME TokenAssumption == Tok!NoKey \notin Processes /\ Costs \subseteq Nat

MCBackoff == [i \in 0..3 |-> 1]
MCRetryAfters == {0}
MCKeySet == {1}
MCRequests == {r1}
MCReloaders == {l1, l2}

poolvars == <<listed, saved, heap, gen, baseline, loads, round, flight, used>>
tokvars == <<config, cache, tokens, issued, task, faults>>

MCInit ==
    \/ Pool!Init /\ Tok!AtRest /\ AtRest
    \/ Pool!AtRest /\ Tok!Init /\ AtRest
    \/ Pool!AtRest /\ Tok!AtRest /\ Init

MCNext ==
    \/ Pool!Next /\ UNCHANGED <<tokvars, routevars>>
    \/ Tok!Next /\ UNCHANGED <<poolvars, routevars>>
    \/ forced # "unused" /\ Next /\ UNCHANGED <<poolvars, tokvars>>

MCSpec == MCInit /\ [][MCNext]_<<poolvars, tokvars, routevars>>
MCFairSpec == MCSpec /\ Pool!Fairness

\* No token is refused because two processes provisioned the HMAC key at the same
\* time, and none is served that was revoked when it was looked up.
TokensHold == Tok!IssuedTokensVerify /\ Tok!RevokedStaysOut

\* No reload and no snapshot round puts a key of the pool back into service that a
\* failure took out of it.
OutStaysOut == Pool!OutStaysOut

\* What reload_keys says and the code does not keep to (see KeyPool).
InvalidStaysInvalid == Pool!InvalidStaysInvalid

\* Once requests and edits end, key_health agrees with the pool for good.
SnapshotCatchesUp == Pool!SnapshotCatchesUp
=============================================================================
