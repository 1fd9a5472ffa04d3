--------------------------- MODULE CapabilityRouter ---------------------------
(***************************************************************************)
(* CapabilityRouter: which key serves a request that needs hosted          *)
(* capabilities, in which mode, or which error it gets.  Keys go down and  *)
(* come back between the requests.                                         *)
(***************************************************************************)
EXTENDS Integers, Sequences, FiniteSets, SequencesExt, FiniteSetsExt

CONSTANTS
    Keys,        \* candidates of the model, 1..n in the scheduler's order
    Emulated,    \* capabilities with a local executor
    Forwarded,   \* capabilities the upstream executes, passed on as they are
    Hosted       \* capabilities somebody has to declare

Caps == Emulated \cup Forwarded \cup Hosted

VARIABLES
    declares,    \* per key: the declared capabilities
    native,      \* per key: its mode is NATIVE
    protocol,    \* per key: upstream_protocol
    up,          \* keys that are available
    forced,      \* the forced mode of the configuration, or "none"
    decision     \* the last request and what it got: [need, result]

routevars == <<declares, native, protocol, up, forced, decision>>

Unasked == [need |-> {}, result |-> [error |-> "unasked"]]

Init ==
    /\ declares \in [Keys -> SUBSET Caps]
    /\ native \in [Keys -> BOOLEAN]
    /\ protocol = [k \in Keys |-> IF k % 2 = 1 THEN "openai" ELSE "anthropic"]
    /\ up \in SUBSET Keys
    /\ forced \in {"none", "NATIVE", "TRANSLATE"}
    /\ decision = Unasked

AtRest ==
    /\ declares = [k \in Keys |-> {}] /\ native = [k \in Keys |-> FALSE]
    /\ protocol = [k \in Keys |-> "openai"] /\ up = {} /\ forced = "unused" /\ decision = Unasked

---------------------------------------------------------------------------
(* The parts of route *)

First(keys) == Min(keys)

\* _translate_path.
TranslatePath(k) == IF protocol[k] = "anthropic" THEN "messages" ELSE "chat_completions"

\* _unmet.
Unmet(need, k) == need \ declares[k]

\* Mutant: a key that speaks Responses will do.
NativeFitAnyway(need) == {k \in up : native[k]}

\* _pick_native: the keys it chooses the first of.
NativeFit(need) == {k \in up : native[k] /\ need \subseteq declares[k]}

\* Mutant: the first available key, whatever it declares.
BestIsFirst(need) == First(up)

\* min over the available keys: the fewest unmet, the first of them.
Best(need) ==
    First({k \in up : \A j \in up : Cardinality(Unmet(need, k)) <= Cardinality(Unmet(need, j))})

Granted(mode, k, path, granted, gaps) ==
    [mode |-> mode, key |-> k, path |-> path, granted |-> granted, gaps |-> gaps, error |-> "none"]

\* What a request needs and nobody has: neither the relay nor any candidate, up or down.
Undeclared(need) == {c \in need \ (Emulated \cup Forwarded) : \A k \in Keys : c \notin declares[k]}

\* _failure: 400 when nobody declares a capability, 503 otherwise.  Without candidates
\* it looks at every key of the registry; the relay builds the registry from the
\* candidates, so it finds none there either.
Failure(need) ==
    IF Undeclared(need) # {}
        THEN [error |-> "unsupported_tool_capability", gaps |-> Undeclared(need)]
        ELSE [error |-> "capability_route_unavailable", gaps |-> need]

\* _forced_native: never another path; what nobody carries is a gap.
ForcedNative(need) ==
    LET effective == need \ Forwarded
        fit == NativeFit(effective)
        k == First(IF fit # {} THEN fit ELSE up)
    IN  IF up = {} THEN Failure(need)
        ELSE Granted("NATIVE", k, "responses",
                     need \cap (declares[k] \cup Emulated \cup Forwarded),
                     effective \ (declares[k] \cup Emulated))

\* _forced_translate.
ForcedTranslate(need) ==
    IF up = {} THEN Failure(need)
    ELSE Granted("TRANSLATE", First(up), TranslatePath(First(up)), need \cap (Forwarded \cup Emulated), {})

\* The three levels of an unforced route.
Unforced(need) ==
    LET effective == need \ Forwarded
    IN  IF NativeFit(effective) # {}
        THEN Granted("NATIVE", First(NativeFit(effective)), "responses", need, {})
        ELSE IF up = {} THEN Failure(need)
        ELSE IF effective = {} THEN Granted("TRANSLATE", First(up), TranslatePath(First(up)), need, {})
        ELSE IF Unmet(effective, Best(effective)) \subseteq Emulated
        THEN Granted("EMULATE", Best(effective), TranslatePath(Best(effective)), need, {})
        ELSE Failure(need)

---------------------------------------------------------------------------

\* route.
Route(need) ==
    /\ decision' = [need |-> need,
                    result |-> CASE forced = "NATIVE" -> ForcedNative(need)
                                 [] forced = "TRANSLATE" -> ForcedTranslate(need)
                                 [] OTHER -> Unforced(need)]
    /\ UNCHANGED <<declares, native, protocol, up, forced>>

\* A key cools down or comes back.
Toggle(k) ==
    /\ up' = IF k \in up THEN up \ {k} ELSE up \cup {k}
    /\ decision' = Unasked
    /\ UNCHANGED <<declares, native, protocol, forced>>

Next == (\E need \in SUBSET Caps : Route(need)) \/ \E k \in Keys : Toggle(k)

Spec == Init /\ [][Next]_routevars

---------------------------------------------------------------------------
(* Properties *)

Carried(k) == declares[k] \cup Emulated \cup Forwarded

Asked == decision # Unasked
Result == decision.result

\* An answer never promises more than somebody can do: what it grants is carried by
\* the key, here or upstream, and the key is available.  A native route goes to
\* /v1/responses.  Unforced, all that was asked is granted; the forced mode NATIVE
\* names the rest as gaps; the forced mode TRANSLATE grants what the relay emulates or
\* passes on, and drops the rest without a word.  400 is for what nobody has; 503 is
\* never the answer while an available key declares all that is needed, and in a
\* forced mode only when no key is available (route, _failure).
NoFakeCapability ==
    Asked =>
       IF Result.error = "none"
       THEN /\ Result.key \in up
            /\ Result.granted \subseteq Carried(Result.key)
            /\ Result.mode = "NATIVE" <=> Result.path = "responses"
            /\ Result.mode = "NATIVE" /\ forced = "none" => native[Result.key]
            /\ decision.need \ Result.granted
                 = IF forced = "TRANSLATE" THEN decision.need \ (Emulated \cup Forwarded) ELSE Result.gaps
            /\ forced # "NATIVE" => Result.gaps = {}
       ELSE /\ Result.error = "unsupported_tool_capability" <=> Undeclared(decision.need) # {}
            /\ Result.error = "capability_route_unavailable" =>
                  /\ \A k \in up : ~(decision.need \subseteq declares[k] \cup Forwarded)
                  /\ forced # "none" => up = {}

\* 503: "every route declaring the required capability is currently unavailable", so
\* that no available key, with what the relay emulates, could serve the request.  The
\* code does not keep to it: it looks at one of the keys that lack the least.
UnavailableIsUnavailable ==
    Result.error = "capability_route_unavailable" => \A k \in up : ~(decision.need \subseteq Carried(k))

\* A request that needs what nobody carries is not translated, since that would be
\* "faked success": it gets an error.  The code does not keep to it when the
\* configuration forces translation.
TranslationLosesNothing ==
    Result.error = "none" /\ Result.mode = "TRANSLATE" => decision.need \subseteq Result.granted \cup Result.gaps
=============================================================================
