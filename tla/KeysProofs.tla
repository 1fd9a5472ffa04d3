------------------------------ MODULE KeysProofs ------------------------------
(***************************************************************************)
(* NoFakeCapability of the router, for every set of candidates and every   *)
(* division of the capabilities into emulated, forwarded and hosted ones;  *)
(* TokensHold, for any processes, tokens, calls and requests; OutStaysOut, *)
(* for any keys, requests, reloads, edits and failing statements.          *)
(*                                                                         *)
(* The candidates of the router are numbered in the scheduler's order and  *)
(* the capabilities are finitely many, as in the code's enumeration.       *)
(***************************************************************************)
EXTENDS MCKeys, FiniteSetTheorems, WellFoundedInduction, TLAPS

\* A set of numbers that is not empty has a smallest one.
LEMMA SmallestNat ==
    ASSUME NEW T \in SUBSET Nat, T # {}
    PROVE  \E x \in T : \A y \in T : x <= y
<1> DEFINE R == {ss \in Nat \X Nat : ss[1] < ss[2]}
<1>1. IsWellFoundedOn(R, Nat)
  BY NatLessThanWellFounded DEF OpToRel
<1> HIDE DEF R
<1>2. PICK x \in T : \A y \in T : ~ (<<y, x>> \in R)
  BY <1>1, WFMin, Zenon
<1>3. ASSUME NEW y \in T PROVE x <= y
  <2>1. x \in Nat /\ y \in Nat OBVIOUS
  <2>2. <<y, x>> \notin R BY <1>2
  <2>3. <<y, x>> \in Nat \X Nat BY <2>1
  <2>4. ~(<<y, x>>[1] < <<y, x>>[2]) BY <2>2, <2>3 DEF R
  <2>5. <<y, x>>[1] = y /\ <<y, x>>[2] = x OBVIOUS
  <2> QED BY <2>1, <2>4, <2>5
<1> QED BY <1>3

\* available[0], or the first key that fits: one of the set it is taken from.
LEMMA FirstIsOne ==
    ASSUME NEW S \in SUBSET Nat, S # {}
    PROVE  First(S) \in S
<1>1. \E x \in S : \A y \in S : x <= y
  BY SmallestNat
<1> QED BY <1>1 DEF First, Min

\* min(available, key=...): an available key, and when one of them declares everything
\* so does the one it takes.
LEMMA BestIsUp ==
    ASSUME Keys \in SUBSET Nat, IsFiniteSet(Caps), up \in SUBSET Keys, up # {},
           NEW need \in SUBSET Caps
    PROVE  /\ Best(need) \in up
           /\ (\E j \in up : Unmet(need, j) = {}) => Unmet(need, Best(need)) = {}
<1> DEFINE size(k) == Cardinality(Unmet(need, k))
           sizes == {size(k) : k \in up}
           few == {k \in up : \A j \in up : size(k) <= size(j)}
<1>1. \A k \in up : size(k) \in Nat /\ (size(k) = 0 <=> Unmet(need, k) = {})
  <2> TAKE k \in up
  <2>1. Unmet(need, k) \in SUBSET Caps
    BY DEF Unmet
  <2>2. IsFiniteSet(Unmet(need, k))
    BY <2>1, FS_Subset
  <2> QED BY <2>2, FS_CardinalityType, FS_EmptySet
<1> HIDE DEF size
<1>2. sizes \in SUBSET Nat /\ sizes # {}
  BY <1>1
<1>3. PICK s \in sizes : \A t \in sizes : s <= t
  BY <1>2, SmallestNat
<1>4. PICK k \in up : s = size(k)
  BY <1>3
<1>5. \A j \in up : size(j) \in sizes
  OBVIOUS
<1>6. k \in few
  BY <1>3, <1>4, <1>5
<1>7. few \in SUBSET Nat /\ few # {}
  BY <1>6
<1>8. First(few) \in few
  BY <1>7, FirstIsOne
<1>9. Best(need) = First(few)
  BY DEF Best, size
<1>10. Best(need) \in up /\ \A j \in up : size(Best(need)) <= size(j)
  BY <1>8, <1>9
<1>11. ASSUME NEW j \in up, Unmet(need, j) = {} PROVE Unmet(need, Best(need)) = {}
  <2>1. size(j) = 0
    BY <1>1, <1>11
  <2>2. size(Best(need)) \in Nat /\ size(Best(need)) <= size(j)
    BY <1>1, <1>10
  <2>3. size(Best(need)) = 0
    <3> HIDE DEF size
    <3> QED BY <2>1, <2>2
  <2> QED BY <1>1, <1>10, <2>3
<1> QED BY <1>10, <1>11

-----------------------------------------------------------------------------

\* What NoFakeCapability says of one answer r to a request that needs `need`.
Honest(need, r) ==
    IF r.error = "none"
    THEN /\ r.key \in up
         /\ r.granted \subseteq Carried(r.key)
         /\ r.mode = "NATIVE" <=> r.path = "responses"
         /\ r.mode = "NATIVE" /\ forced = "none" => native[r.key]
         /\ need \ r.granted = IF forced = "TRANSLATE" THEN need \ (Emulated \cup Forwarded) ELSE r.gaps
         /\ forced # "NATIVE" => r.gaps = {}
    ELSE /\ r.error = "unsupported_tool_capability" <=> Undeclared(need) # {}
         /\ r.error = "capability_route_unavailable" =>
               /\ \A k \in up : ~(need \subseteq declares[k] \cup Forwarded)
               /\ forced # "none" => up = {}

\* What the three routes rely on.
Candidates ==
    /\ Keys \in SUBSET Nat /\ IsFiniteSet(Caps)
    /\ up \in SUBSET Keys /\ forced \in {"none", "NATIVE", "TRANSLATE"}
    /\ declares \in [Keys -> SUBSET Caps]

\* An answer with a key is honest when the key is up, carries what is granted, and
\* the rest is named.
LEMMA GrantedHonest ==
    ASSUME NEW need, NEW mode, NEW k \in up, NEW path, NEW granted, NEW gaps,
           granted \subseteq Carried(k),
           mode = "NATIVE" <=> path = "responses",
           mode = "NATIVE" /\ forced = "none" => native[k],
           need \ granted = IF forced = "TRANSLATE" THEN need \ (Emulated \cup Forwarded) ELSE gaps,
           forced # "NATIVE" => gaps = {}
    PROVE  Honest(need, Granted(mode, k, path, granted, gaps))
  BY DEF Honest, Granted

\* 400 for what nobody has, 503 when no available key declares all that is needed.
LEMMA FailureHonest ==
    ASSUME NEW need, \A k \in up : ~(need \subseteq declares[k] \cup Forwarded), forced # "none" => up = {}
    PROVE  Honest(need, Failure(need))
  BY DEF Failure, Honest

\* TranslatePath never names the path of a native route.
LEMMA TranslatePathIsNot ==
    ASSUME NEW k PROVE TranslatePath(k) # "responses"
  BY DEF TranslatePath

\* When a key is up, available[0] is one.
LEMMA UpHasFirst ==
    ASSUME Candidates, up # {} PROVE First(up) \in up
<1>1. up \in SUBSET Nat
  BY DEF Candidates
<1> QED BY <1>1, FirstIsOne

\* A native key, when one fits, is up, speaks Responses and declares what is needed.
LEMMA NativeFits ==
    ASSUME Candidates, NEW need, NativeFit(need) # {}
    PROVE  /\ First(NativeFit(need)) \in up
           /\ native[First(NativeFit(need))]
           /\ need \subseteq declares[First(NativeFit(need))]
<1>1. NativeFit(need) \in SUBSET Nat
  BY DEF Candidates, NativeFit
<1>2. First(NativeFit(need)) \in NativeFit(need)
  BY <1>1, FirstIsOne
<1> QED BY <1>2 DEF NativeFit

\* The forced mode NATIVE promises what a native key declares and names the rest.
LEMMA ForcedNativeHonest ==
    ASSUME Candidates, NEW need \in SUBSET Caps, forced = "NATIVE"
    PROVE  Honest(need, ForcedNative(need))
<1> DEFINE effective == need \ Forwarded
           fit == NativeFit(effective)
           k == First(IF fit # {} THEN fit ELSE up)
           granted == need \cap (declares[k] \cup Emulated \cup Forwarded)
           gaps == effective \ (declares[k] \cup Emulated)
<1>1. CASE up = {}
  BY <1>1, FailureHonest DEF ForcedNative
<1>2. CASE up # {}
  <2>1. k \in up
    BY <1>2, UpHasFirst, NativeFits
  <2>2. granted \subseteq Carried(k)
    BY DEF Carried
  <2>3. need \ granted = gaps
    OBVIOUS
  <2>4. Honest(need, Granted("NATIVE", k, "responses", granted, gaps))
    <3> HIDE DEF k, granted, gaps
    <3> QED BY <2>1, <2>2, <2>3, GrantedHonest
  <2> QED BY <1>2, <2>4 DEF ForcedNative
<1> QED BY <1>1, <1>2

\* The forced mode TRANSLATE grants what the relay and the key carry.
LEMMA ForcedTranslateHonest ==
    ASSUME Candidates, NEW need \in SUBSET Caps, forced = "TRANSLATE"
    PROVE  Honest(need, ForcedTranslate(need))
<1>1. CASE up = {}
  BY <1>1, FailureHonest DEF ForcedTranslate
<1>2. CASE up # {}
  <2> DEFINE k == First(up)
             granted == need \cap (Forwarded \cup Emulated)
  <2>1. k \in up /\ granted \subseteq Carried(k) /\ need \ granted = need \ (Emulated \cup Forwarded)
    BY <1>2, UpHasFirst DEF Carried
  <2>2. TranslatePath(k) # "responses"
    BY TranslatePathIsNot
  <2>3. Honest(need, Granted("TRANSLATE", k, TranslatePath(k), granted, {}))
    <3> HIDE DEF k, granted
    <3> QED BY <2>1, <2>2, GrantedHonest
  <2> QED BY <1>2, <2>3 DEF ForcedTranslate
<1> QED BY <1>1, <1>2

\* The three levels: a key that declares everything; no key needed for more than a
\* translation; a key whose gaps the relay fills itself.
LEMMA UnforcedHonest ==
    ASSUME Candidates, NEW need \in SUBSET Caps, forced = "none"
    PROVE  Honest(need, Unforced(need))
<1> DEFINE effective == need \ Forwarded
           fit == NativeFit(effective)
<1>1. CASE fit # {}
  <2> DEFINE k == First(fit)
  <2>1. k \in up /\ native[k] /\ need \subseteq Carried(k)
    BY <1>1, NativeFits DEF Carried
  <2>2. Honest(need, Granted("NATIVE", k, "responses", need, {}))
    <3> HIDE DEF k
    <3> QED BY <2>1, GrantedHonest
  <2> QED BY <1>1, <2>2 DEF Unforced
<1>2. CASE fit = {} /\ up = {}
  BY <1>2, FailureHonest DEF Unforced
<1>3. CASE fit = {} /\ up # {} /\ effective = {}
  <2> DEFINE k == First(up)
  <2>1. k \in up /\ need \subseteq Carried(k)
    BY <1>3, UpHasFirst DEF Carried
  <2>2. TranslatePath(k) # "responses"
    BY TranslatePathIsNot
  <2>3. Honest(need, Granted("TRANSLATE", k, TranslatePath(k), need, {}))
    <3> HIDE DEF k
    <3> QED BY <2>1, <2>2, GrantedHonest
  <2> QED BY <1>3, <2>3 DEF Unforced
<1>4. CASE fit = {} /\ up # {} /\ effective # {}
  <2> DEFINE k == Best(effective)
  <2>1. k \in up /\ ((\E j \in up : Unmet(effective, j) = {}) => Unmet(effective, k) = {})
    BY <1>4, BestIsUp DEF Candidates
  <2>2. CASE Unmet(effective, k) \subseteq Emulated
    <3>1. need \subseteq Carried(k)
      BY <2>2 DEF Carried, Unmet
    <3>2. TranslatePath(k) # "responses"
      BY TranslatePathIsNot
    <3>3. Honest(need, Granted("EMULATE", k, TranslatePath(k), need, {}))
      <4> HIDE DEF k
      <4> QED BY <2>1, <3>1, <3>2, GrantedHonest
    <3> QED BY <1>4, <2>2, <3>3 DEF Unforced
  <2>3. CASE ~(Unmet(effective, k) \subseteq Emulated)
    <3>1. \A j \in up : Unmet(effective, j) # {}
      BY <2>1, <2>3
    <3>2. \A j \in up : ~(need \subseteq declares[j] \cup Forwarded)
      BY <3>1 DEF Unmet
    <3> QED BY <1>4, <2>3, <3>2, FailureHonest DEF Unforced
  <2> QED BY <2>2, <2>3
<1> QED BY <1>1, <1>2, <1>3, <1>4

-----------------------------------------------------------------------------

\* The inductive invariant: the pool keeps its shape, and the last answer is honest
\* for the keys that are up, which a toggle forgets.
RouteInv == Candidates /\ NoFakeCapability

\* CapabilityRouter.route never promises what no key, executor or upstream does, and
\* refuses only what nobody has or what no available key declares in full, for any
\* candidates, declarations and forced mode, whichever keys are up.
THEOREM NoFakeCapabilityAlways ==
    ASSUME Keys \in SUBSET Nat, IsFiniteSet(Caps)
    PROVE  Spec => []NoFakeCapability
<1>1. Init => RouteInv
  BY DEF Init, RouteInv, Candidates, NoFakeCapability, Asked
<1>2. RouteInv /\ [Next]_routevars => RouteInv'
  <2> SUFFICES ASSUME RouteInv, [Next]_routevars PROVE RouteInv'
    OBVIOUS
  <2>1. ASSUME NEW need \in SUBSET Caps, Route(need) PROVE RouteInv'
    <3> DEFINE r == CASE forced = "NATIVE" -> ForcedNative(need)
                      [] forced = "TRANSLATE" -> ForcedTranslate(need)
                      [] OTHER -> Unforced(need)
    <3>1. Candidates
      BY DEF RouteInv
    <3>2. Honest(need, r)
      <4>1. CASE forced = "NATIVE"
        BY <3>1, <4>1, ForcedNativeHonest
      <4>2. CASE forced = "TRANSLATE"
        BY <3>1, <4>2, ForcedTranslateHonest
      <4>3. CASE forced # "NATIVE" /\ forced # "TRANSLATE"
        BY <3>1, <4>3, UnforcedHonest DEF Candidates
      <4> QED BY <4>1, <4>2, <4>3
    <3>3. decision' = [need |-> need, result |-> r]
      BY <2>1 DEF Route
    <3> HIDE DEF r
    <3>4. decision'.need = need /\ decision'.result = r
      BY <3>3
    <3>5. UNCHANGED <<declares, native, protocol, up, forced>>
      BY <2>1 DEF Route
    <3>6. NoFakeCapability'
      BY <3>2, <3>4, <3>5 DEF NoFakeCapability, Result, Honest, Carried, Undeclared
    <3> QED BY <3>1, <3>5, <3>6 DEF RouteInv, Candidates
  <2>2. ASSUME NEW k \in Keys, Toggle(k) PROVE RouteInv'
    BY <2>2 DEF Toggle, RouteInv, Candidates, NoFakeCapability, Asked
  <2>3. CASE UNCHANGED routevars
    BY <2>3 DEF routevars, RouteInv, Candidates, NoFakeCapability, Asked, Result, Carried, Undeclared
  <2> QED BY <2>1, <2>2, <2>3 DEF Next
<1>3. RouteInv => NoFakeCapability
  BY DEF RouteInv
<1> QED BY <1>1, <1>2, <1>3, PTL DEF Spec

---------------------------------------------------------------------------
(* Access tokens *)

TokenRec == [hash : Processes \cup {Tok!NoKey}, enabled : BOOLEAN, revoked : BOOLEAN, used : Nat, of : Nat]

TokenPcs == {"new", "resolve", "write", "reread", "insert", "revoke", "check", "serve", "refused", "unknown", "done"}

TaskRec ==
    [pc : TokenPcs, proc : Processes \cup {Tok!NoKey}, token : Nat, copy : TokenRec,
     then : {"insert", "check", "none"}]

TokensTyped ==
    /\ config \in Processes \cup {Tok!NoKey} /\ cache \in [Processes -> Processes \cup {Tok!NoKey}]
    /\ tokens \in [1..MaxTokens -> TokenRec] /\ task \in [Tasks -> TaskRec] /\ faults \in Nat

\* resolve_hmac_key is on its way, and where it leads.
Resolving(x) == x.pc \in {"resolve", "write", "reread"}

Following(x) ==
    /\ Resolving(x) => x.then # "none" /\ x.proc \in Processes
    /\ x.pc = "insert" => x.proc \in Processes
    /\ x.pc = "check" => x.proc \in Processes /\ x.then = "check"
    /\ x.pc = "serve" => ~x.copy.revoked

\* Before the first failure: a row, a memo and the hash of a token that anybody
\* looked up are the same key, and a task past the resolution has it in its memo.
SameKey(x) ==
    /\ x.pc # "unknown"
    /\ x.pc = "reread" => config # Tok!NoKey
    /\ x.pc \in {"insert", "check"} => cache[x.proc] # Tok!NoKey
    /\ (Resolving(x) \/ x.pc = "check") /\ x.then = "check" => config # Tok!NoKey /\ x.copy.hash = config

OneKey ==
    /\ \A p \in Processes : cache[p] \in {Tok!NoKey, config}
    /\ \A i \in 1..MaxTokens : tokens[i] = Tok!NoToken \/ (tokens[i].hash = config /\ config # Tok!NoKey)
    /\ \A t \in Tasks : SameKey(task[t])

TokensInv == TokensTyped /\ (\A t \in Tasks : Following(task[t])) /\ (faults = 0 => OneKey)

\* One task moved, the key was not replaced and no memo was dropped.
TokenStep(t, x) ==
    /\ task' = [task EXCEPT ![t] = x] /\ Following(x)
    /\ config' \in Processes \cup {Tok!NoKey} /\ cache' \in [Processes -> Processes \cup {Tok!NoKey}]
    /\ tokens' \in [1..MaxTokens -> TokenRec] /\ faults' \in Nat
    /\ faults' = 0 =>
          /\ faults = 0
          /\ config # Tok!NoKey => config' = config
          /\ \A p \in Processes : cache[p] # Tok!NoKey => cache'[p] # Tok!NoKey
          /\ \A p \in Processes : cache'[p] \in {Tok!NoKey, config'}
          /\ \A i \in 1..MaxTokens : tokens'[i] = Tok!NoToken \/ (tokens'[i].hash = config' /\ config' # Tok!NoKey)
          /\ SameKey(x)'

\* Such a step keeps the invariant.
LEMMA TokenStepKeeps ==
    ASSUME TokensInv, NEW t \in Tasks, NEW x \in TaskRec, TokenStep(t, x)
    PROVE  TokensInv'
<1> USE DEF TokensInv, TokenStep
<1>1. task \in [Tasks -> TaskRec] BY DEF TokensTyped
<1>2. task' \in [Tasks -> TaskRec] /\ task'[t] = x /\ \A u \in Tasks : u # t => task'[u] = task[u] BY <1>1
<1>3. TokensTyped' BY <1>2 DEF TokensTyped
<1>4. \A u \in Tasks : Following(task'[u]) BY <1>2
<1>5. ASSUME faults' = 0 PROVE OneKey'
  <2>1. OneKey BY <1>5
  <2>2. ASSUME NEW u \in Tasks PROVE SameKey(task[u])'
    <3>1. CASE u = t BY <1>2, <1>5, <3>1 DEF SameKey, Resolving
    <3>2. CASE u # t
      <4>1. SameKey(task[u]) /\ task'[u] = task[u] BY <1>2, <2>1, <3>2 DEF OneKey
      <4>2. task[u].pc \in {"insert", "check"} => task[u].proc \in Processes BY DEF Following
      <4> QED BY <1>5, <4>1, <4>2 DEF SameKey, Resolving
    <3> QED BY <3>1, <3>2
  <2> QED BY <1>5, <2>2 DEF OneKey
<1>6. \A u \in Tasks : Following(task[u])' BY <1>4 DEF Following, Resolving
<1> QED BY <1>3, <1>5, <1>6

\* A task that goes on keeps everything but its place.
LEMMA TokenGoto ==
    ASSUME TokensInv, NEW t \in Tasks, NEW pc \in TokenPcs, Tok!Goto(t, pc)
    PROVE  \E x \in TaskRec : /\ task' = [task EXCEPT ![t] = x] /\ x.pc = pc
                              /\ x.proc = task[t].proc /\ x.then = task[t].then /\ x.copy = task[t].copy
<1> DEFINE x == [task[t] EXCEPT !.pc = pc]
<1>1. task[t] \in TaskRec BY DEF TokensInv, TokensTyped
<1>2. /\ x \in TaskRec /\ x.pc = pc
      /\ x.proc = task[t].proc /\ x.then = task[t].then /\ x.copy = task[t].copy
  BY <1>1 DEF TaskRec
<1>3. task' = [task EXCEPT ![t] = x] BY <1>1 DEF Tok!Goto, TokensInv, TokensTyped, TaskRec
<1> QED BY <1>2, <1>3

\* A step that changes only the task, and what has to hold where it goes.
LEMMA TokenQuiet ==
    ASSUME TokensInv, NEW t \in Tasks, NEW x \in TaskRec,
           task' = [task EXCEPT ![t] = x], Following(x), faults = 0 => SameKey(x),
           config' = config, cache' = cache, tokens' = tokens, faults' = faults
    PROVE  TokensInv'
<1>1. faults = 0 => SameKey(x)' BY DEF SameKey
<1>2. TokenStep(t, x) BY <1>1 DEF TokenStep, TokensInv, TokensTyped, OneKey
<1> QED BY <1>2, TokenStepKeeps

\* resolve_hmac_key with the key in the memo.
LEMMA CachedKeeps ==
    ASSUME TokensInv, NEW t \in Tasks, Tok!Cached(t) PROVE TokensInv'
<1>1. /\ task[t].pc = "resolve" /\ task[t] \in TaskRec /\ Following(task[t])
      /\ faults = 0 => SameKey(task[t])
  BY DEF Tok!Cached, Tok!At, TokensInv, TokensTyped, OneKey
<1>2. cache[task[t].proc] # Tok!NoKey /\ task[t].then \in {"insert", "check"}
  BY <1>1 DEF Tok!Cached, Following, Resolving, TaskRec
<1>3. task[t].then \in TokenPcs BY <1>2 DEF TokenPcs
<1>4. PICK x \in TaskRec : /\ task' = [task EXCEPT ![t] = x] /\ x.pc = task[t].then
                           /\ x.proc = task[t].proc /\ x.then = task[t].then /\ x.copy = task[t].copy
  BY <1>3, TokenGoto DEF Tok!Cached
<1>5. Following(x) BY <1>1, <1>2, <1>4 DEF Following, Resolving
<1>6. faults = 0 => SameKey(x) BY <1>1, <1>2, <1>4 DEF SameKey, Resolving
<1> QED BY <1>4, <1>5, <1>6, TokenQuiet DEF Tok!Cached

\* The key goes into the memo; before the first failure it is that of the row.
LEMMA MemoiseKeeps ==
    ASSUME TokensInv, NEW t \in Tasks, NEW key \in Processes, Tok!Memoise(t, key), Resolving(task[t]),
           config' = config, tokens' = tokens, faults' \in Nat,
           faults' = 0 => faults = 0 /\ key = config
    PROVE  TokensInv'
<1>1. task[t] \in TaskRec /\ Following(task[t]) /\ (faults = 0 => SameKey(task[t]))
  BY DEF TokensInv, TokensTyped, OneKey
<1>2. task[t].then \in {"insert", "check"} /\ task[t].proc \in Processes
  BY <1>1 DEF Following, TaskRec
<1>3. task[t].then \in TokenPcs BY <1>2 DEF TokenPcs
<1>4. PICK x \in TaskRec : /\ task' = [task EXCEPT ![t] = x] /\ x.pc = task[t].then
                           /\ x.proc = task[t].proc /\ x.then = task[t].then /\ x.copy = task[t].copy
  BY <1>3, TokenGoto DEF Tok!Memoise
<1>5. Following(x) BY <1>1, <1>2, <1>4 DEF Following, Resolving
<1>6. /\ cache' \in [Processes -> Processes \cup {Tok!NoKey}] /\ cache'[x.proc] = key
      /\ \A p \in Processes : p # x.proc => cache'[p] = cache[p]
  BY <1>2, <1>4 DEF Tok!Memoise, TokensInv, TokensTyped
<1>7. key # Tok!NoKey BY TokenAssumption
<1>8. faults' = 0 => SameKey(x)' BY <1>1, <1>2, <1>4, <1>6, <1>7 DEF SameKey, Resolving
<1>9. TokenStep(t, x) BY <1>4, <1>5, <1>6, <1>7, <1>8 DEF TokenStep, TokensInv, TokensTyped, OneKey
<1> QED BY <1>4, <1>9, TokenStepKeeps

\* resolve_hmac_key without: read, write if there is no row, and read again.
LEMMA ResolveKeeps ==
    ASSUME TokensInv, NEW t \in Tasks, Tok!ReadConfig(t) \/ Tok!WriteConfig(t) \/ Tok!Reread(t)
    PROVE  TokensInv'
<1>1. /\ task[t] \in TaskRec /\ Following(task[t]) /\ (faults = 0 => SameKey(task[t]))
      /\ config \in Processes \cup {Tok!NoKey} /\ faults \in Nat
  BY DEF TokensInv, TokensTyped, OneKey
<1>2. Resolving(task[t]) BY DEF Resolving, Tok!ReadConfig, Tok!WriteConfig, Tok!Reread, Tok!At
<1>3. task[t].then \in {"insert", "check"} /\ task[t].proc \in Processes BY <1>1, <1>2 DEF Following, TaskRec
<1>4. "write" \in TokenPcs /\ "reread" \in TokenPcs BY DEF TokenPcs
<1>5. CASE Tok!ReadConfig(t)
  <2>0. config' = config /\ tokens' = tokens BY <1>5 DEF Tok!ReadConfig
  <2>1. CASE config # Tok!NoKey /\ Tok!Memoise(t, config) /\ faults' = faults
    BY <1>1, <1>2, <2>0, <2>1, MemoiseKeeps
  <2>2. CASE Tok!Goto(t, "write") /\ cache' = cache /\ faults' \in {faults, faults + 1}
    <3>1. PICK x \in TaskRec : /\ task' = [task EXCEPT ![t] = x] /\ x.pc = "write"
                               /\ x.proc = task[t].proc /\ x.then = task[t].then /\ x.copy = task[t].copy
      BY <1>4, <2>2, TokenGoto
    <3>2. Following(x) BY <1>1, <1>3, <3>1 DEF Following, Resolving
    <3>3. faults = 0 => SameKey(x)' BY <1>1, <1>2, <2>0, <2>2, <3>1 DEF SameKey, Resolving
    <3>4. faults' \in Nat /\ (faults' = 0 => faults = 0) BY <1>1, <2>2
    <3>5. TokenStep(t, x) BY <2>0, <2>2, <3>1, <3>2, <3>3, <3>4 DEF TokenStep, TokensInv, TokensTyped, OneKey
    <3> QED BY <3>5, TokenStepKeeps
  <2> QED BY <1>5, <2>1, <2>2 DEF Tok!ReadConfig
<1>6. CASE Tok!WriteConfig(t)
  <2>0. cache' = cache /\ tokens' = tokens BY <1>6 DEF Tok!WriteConfig
  <2>1. PICK x \in TaskRec : /\ task' = [task EXCEPT ![t] = x] /\ x.pc = "reread"
                             /\ x.proc = task[t].proc /\ x.then = task[t].then /\ x.copy = task[t].copy
    BY <1>4, <1>6, TokenGoto DEF Tok!WriteConfig
  <2>2. Following(x) BY <1>1, <1>3, <2>1 DEF Following, Resolving
  <2>3. /\ config' \in Processes \cup {Tok!NoKey} /\ faults' \in Nat
        /\ config # Tok!NoKey => config' = config
        /\ faults' = 0 => faults = 0 /\ config' # Tok!NoKey
    BY <1>1, <1>3, <1>6, TokenAssumption DEF Tok!WriteConfig
  <2>4. faults' = 0 => SameKey(x)' BY <1>1, <1>2, <2>1, <2>3 DEF SameKey, Resolving
  <2>5. TokenStep(t, x) BY <2>0, <2>1, <2>2, <2>3, <2>4 DEF TokenStep, TokensInv, TokensTyped, OneKey
  <2> QED BY <2>5, TokenStepKeeps
<1>7. CASE Tok!Reread(t)
  <2>0. config' = config /\ tokens' = tokens BY <1>7 DEF Tok!Reread
  <2>1. faults = 0 => config # Tok!NoKey BY <1>1, <1>7 DEF Tok!Reread, Tok!At, SameKey
  <2>2. PICK key \in Processes : /\ Tok!Memoise(t, key) /\ faults' \in Nat
                                 /\ faults' = 0 => faults = 0 /\ key = config
    BY <1>1, <1>3, <1>7, <2>1 DEF Tok!Reread
  <2> QED BY <1>2, <2>0, <2>2, MemoiseKeeps
<1> QED BY <1>5, <1>6, <1>7

\* An UPDATE that leaves the hash alone.
LEMMA SetTokenIs ==
    ASSUME TokensInv, NEW i, NEW rec, Tok!SetToken(i, rec),
           i \in 1..MaxTokens => rec \in TokenRec /\ rec.hash = tokens[i].hash
    PROVE  /\ tokens' \in [1..MaxTokens -> TokenRec]
           /\ faults = 0 => \A j \in 1..MaxTokens :
                 tokens'[j] = Tok!NoToken \/ (tokens'[j].hash = config /\ config # Tok!NoKey)
<1>1. tokens \in [1..MaxTokens -> TokenRec] BY DEF TokensInv, TokensTyped
<1>2. faults = 0 => \A j \in 1..MaxTokens :
         tokens[j] = Tok!NoToken \/ (tokens[j].hash = config /\ config # Tok!NoKey)
  BY DEF TokensInv, OneKey
<1>3. CASE tokens' = tokens BY <1>1, <1>2, <1>3
<1>4. CASE tokens[i] # Tok!NoToken /\ tokens' = [tokens EXCEPT ![i] = rec]
  <2>1. tokens' \in [1..MaxTokens -> TokenRec] BY <1>1, <1>4
  <2>2. \A j \in 1..MaxTokens : tokens'[j] = IF j = i THEN rec ELSE tokens[j] BY <1>1, <1>4
  <2> QED BY <1>2, <1>4, <2>1, <2>2
<1> QED BY <1>3, <1>4 DEF Tok!SetToken

\* A task ends, whatever becomes of the rows.
LEMMA TokenEnds ==
    ASSUME TokensInv, NEW t \in Tasks, NEW pc \in {"done", "revoke"}, Tok!Goto(t, pc),
           config' = config, cache' = cache, faults' \in Nat, faults' = 0 => faults = 0,
           tokens' \in [1..MaxTokens -> TokenRec],
           faults = 0 => \A j \in 1..MaxTokens :
              tokens'[j] = Tok!NoToken \/ (tokens'[j].hash = config /\ config # Tok!NoKey)
    PROVE  TokensInv'
<1>1. pc \in TokenPcs BY DEF TokenPcs
<1>2. PICK x \in TaskRec : task' = [task EXCEPT ![t] = x] /\ x.pc = pc BY <1>1, TokenGoto
<1>3. Following(x) BY <1>2 DEF Following, Resolving
<1>4. SameKey(x)' BY <1>2 DEF SameKey, Resolving
<1>5. TokenStep(t, x) BY <1>2, <1>3, <1>4 DEF TokenStep, TokensInv, TokensTyped, OneKey
<1> QED BY <1>5, TokenStepKeeps

\* The statements on a row of access_tokens.
LEMMA TokenRowKeeps ==
    ASSUME TokensInv, NEW t \in Tasks,
           \/ Tok!Insert(t) \/ Tok!Revoke(t) \/ Tok!Deduct(t)
           \/ \E i \in 1..MaxTokens : Tok!Update(t, i) \/ Tok!Delete(t, i)
    PROVE  TokensInv'
<1>0. /\ task[t] \in TaskRec /\ Following(task[t]) /\ (faults = 0 => SameKey(task[t]))
      /\ tokens \in [1..MaxTokens -> TokenRec] /\ faults \in Nat
      /\ cache \in [Processes -> Processes \cup {Tok!NoKey}]
  BY DEF TokensInv, TokensTyped, OneKey
<1>1. CASE Tok!Insert(t)
  <2> DEFINE rec == [hash |-> cache[task[t].proc], enabled |-> TRUE, revoked |-> FALSE,
                     used |-> 0, of |-> task[t].token]
  <2>1. task[t].proc \in Processes /\ task[t].pc = "insert" /\ task[t].token \in Nat
    BY <1>0, <1>1 DEF Following, Tok!Insert, Tok!At, TaskRec
  <2>2. rec \in TokenRec BY <1>0, <2>1 DEF TokenRec
  <2>3. faults = 0 => rec.hash = config /\ config # Tok!NoKey
    BY <1>0, <2>1 DEF SameKey, TokensInv, OneKey
  <2> HIDE DEF rec
  <2>4. tokens' = [tokens EXCEPT ![issued + 1] = rec] BY <1>1 DEF Tok!Insert, rec
  <2>5. tokens' \in [1..MaxTokens -> TokenRec] BY <1>0, <2>2, <2>4
  <2>6. \A j \in 1..MaxTokens : tokens'[j] = rec \/ tokens'[j] = tokens[j] BY <1>0, <2>4
  <2>7. faults = 0 => \A j \in 1..MaxTokens :
           tokens'[j] = Tok!NoToken \/ (tokens'[j].hash = config /\ config # Tok!NoKey)
    BY <2>3, <2>6 DEF TokensInv, OneKey
  <2>8. \E pc \in {"done", "revoke"} : Tok!Goto(t, pc) BY <1>1 DEF Tok!Insert
  <2>9. config' = config /\ cache' = cache /\ faults' = faults BY <1>1 DEF Tok!Insert
  <2> QED BY <1>0, <2>5, <2>7, <2>8, <2>9, TokenEnds
<1>2. ASSUME NEW i, NEW rec, Tok!SetToken(i, rec),
             i \in 1..MaxTokens => rec \in TokenRec /\ rec.hash = tokens[i].hash,
             Tok!Goto(t, "done"), config' = config, cache' = cache, faults' = faults
      PROVE  TokensInv'
  <2>1. /\ tokens' \in [1..MaxTokens -> TokenRec]
        /\ faults = 0 => \A j \in 1..MaxTokens :
              tokens'[j] = Tok!NoToken \/ (tokens'[j].hash = config /\ config # Tok!NoKey)
    BY <1>2, SetTokenIs
  <2> QED BY <1>0, <1>2, <2>1, TokenEnds
<1>3. CASE Tok!Revoke(t)
  <2> DEFINE i == task[t].token
             rec == [tokens[i] EXCEPT !.enabled = FALSE, !.revoked = TRUE]
  <2>1. i \in 1..MaxTokens => rec \in TokenRec /\ rec.hash = tokens[i].hash BY <1>0 DEF TokenRec
  <2>2. Tok!SetToken(i, rec) BY <1>3 DEF Tok!Revoke
  <2>3. Tok!Goto(t, "done") /\ config' = config /\ cache' = cache /\ faults' = faults
    BY <1>3 DEF Tok!Revoke, Tok!Ends
  <2> HIDE DEF i, rec
  <2> QED BY <1>2, <2>1, <2>2, <2>3
<1>4. ASSUME NEW i \in 1..MaxTokens, Tok!Update(t, i) PROVE TokensInv'
  <2> DEFINE rec == [tokens[i] EXCEPT !.enabled = ~@]
  <2>1. rec \in TokenRec /\ rec.hash = tokens[i].hash BY <1>0 DEF TokenRec
  <2>2. Tok!SetToken(i, rec) BY <1>4 DEF Tok!Update
  <2>3. Tok!Goto(t, "done") /\ config' = config /\ cache' = cache /\ faults' = faults
    BY <1>4 DEF Tok!Update, Tok!Ends
  <2> HIDE DEF rec
  <2> QED BY <1>2, <2>1, <2>2, <2>3
<1>5. ASSUME NEW i \in 1..MaxTokens, Tok!Delete(t, i) PROVE TokensInv'
  <2>1. Tok!NoToken \in TokenRec BY DEF Tok!NoToken, TokenRec
  <2>2. tokens' = [tokens EXCEPT ![i] = Tok!NoToken] BY <1>5 DEF Tok!Delete
  <2>3. tokens' \in [1..MaxTokens -> TokenRec] BY <1>0, <2>1, <2>2
  <2>4. \A j \in 1..MaxTokens : tokens'[j] = Tok!NoToken \/ tokens'[j] = tokens[j] BY <1>0, <2>2
  <2>5. Tok!Goto(t, "done") /\ config' = config /\ cache' = cache /\ faults' = faults
    BY <1>5 DEF Tok!Delete, Tok!Ends
  <2>6. faults = 0 => \A j \in 1..MaxTokens :
           tokens'[j] = Tok!NoToken \/ (tokens'[j].hash = config /\ config # Tok!NoKey)
    BY <2>4 DEF TokensInv, OneKey
  <2> QED BY <1>0, <2>3, <2>5, <2>6, TokenEnds
<1>6. CASE Tok!Deduct(t)
  <2>0. Tok!Goto(t, "done") /\ config' = config /\ cache' = cache BY <1>6 DEF Tok!Deduct, Tok!Ends
  <2>1. CASE tokens' = tokens /\ faults' = faults + 1
    <3>1. faults = 0 => \A j \in 1..MaxTokens :
             tokens'[j] = Tok!NoToken \/ (tokens'[j].hash = config /\ config # Tok!NoKey)
      BY <2>1 DEF TokensInv, OneKey
    <3>2. faults' \in Nat /\ faults' # 0 BY <1>0, <2>1
    <3> QED BY <1>0, <2>0, <2>1, <3>1, <3>2, TokenEnds
  <2>2. ASSUME NEW c \in Costs, faults' = faults,
               Tok!SetToken(task[t].token, [tokens[task[t].token] EXCEPT !.used = @ + c])
        PROVE  TokensInv'
    <3> DEFINE i == task[t].token
               rec == [tokens[i] EXCEPT !.used = @ + c]
    <3>1. ASSUME i \in 1..MaxTokens PROVE rec \in TokenRec /\ rec.hash = tokens[i].hash
      <4>1. tokens[i] \in TokenRec BY <1>0, <3>1
      <4>2. c \in Nat /\ tokens[i].used \in Nat BY <4>1, TokenAssumption DEF TokenRec
      <4>3. tokens[i].used + c \in Nat BY <4>2
      <4>4. rec = [tokens[i] EXCEPT !.used = tokens[i].used + c] OBVIOUS
      <4> QED BY <4>1, <4>3, <4>4 DEF TokenRec
    <3>2. Tok!SetToken(i, rec) BY <2>2
    <3> HIDE DEF i, rec
    <3> QED BY <1>2, <2>0, <2>2, <3>1, <3>2
  <2> QED BY <1>6, <2>1, <2>2 DEF Tok!Deduct
<1> QED BY <1>1, <1>3, <1>4, <1>5, <1>6

\* A call begins.
LEMMA TokenBegins ==
    ASSUME TokensInv, NEW t \in Tasks, NEW p \in Processes,
           \/ Tok!BeginCreate(t, p)
           \/ \E i \in 1..MaxTokens : Tok!BeginRotate(t, p, i) \/ Tok!BeginRevoke(t, p, i) \/ Tok!Lookup(t, p, i)
    PROVE  TokensInv'
<1>0. Tok!NoToken \in TokenRec /\ tokens \in [1..MaxTokens -> TokenRec]
  BY DEF Tok!NoToken, TokenRec, TokensInv, TokensTyped
<1>1. ASSUME NEW i \in Nat, NEW pc \in {"resolve", "revoke"}, NEW then \in {"insert", "none"},
             pc = "resolve" => then = "insert",
             Tok!Begin(t, p, i, pc, then)
      PROVE  TokensInv'
  <2> DEFINE x == [pc |-> pc, proc |-> p, token |-> i, copy |-> Tok!NoToken, then |-> then]
  <2>1. x \in TaskRec BY <1>0 DEF TaskRec, TokenPcs
  <2>2. Following(x) /\ SameKey(x) BY <1>1 DEF Following, SameKey, Resolving
  <2>3. /\ task' = [task EXCEPT ![t] = x]
        /\ config' = config /\ cache' = cache /\ tokens' = tokens /\ faults' = faults
    BY <1>1 DEF Tok!Begin
  <2> HIDE DEF x
  <2> QED BY <2>1, <2>2, <2>3, TokenQuiet
<1>2. ASSUME NEW i \in 1..MaxTokens, Tok!Lookup(t, p, i) PROVE TokensInv'
  <2> DEFINE x == [pc |-> "resolve", proc |-> p, token |-> i, copy |-> tokens[i], then |-> "check"]
  <2>1. x \in TaskRec BY <1>0 DEF TaskRec, TokenPcs
  <2>2. Following(x) BY DEF Following, Resolving
  <2>3. faults = 0 => SameKey(x) BY <1>2 DEF SameKey, Resolving, Tok!Lookup, TokensInv, OneKey
  <2>4. /\ task' = [task EXCEPT ![t] = x]
        /\ config' = config /\ cache' = cache /\ tokens' = tokens /\ faults' = faults
    BY <1>2 DEF Tok!Lookup
  <2>5. PICK y \in TaskRec : y = x BY <2>1
  <2> HIDE DEF x
  <2> QED BY <2>2, <2>3, <2>4, <2>5, TokenQuiet
<1>3. CASE Tok!BeginCreate(t, p) BY <1>1, <1>3 DEF Tok!BeginCreate
<1>4. ASSUME NEW i \in 1..MaxTokens, Tok!BeginRotate(t, p, i) \/ Tok!BeginRevoke(t, p, i) PROVE TokensInv'
  BY <1>1, <1>4 DEF Tok!BeginRotate, Tok!BeginRevoke
<1> QED BY <1>2, <1>3, <1>4

\* The middleware compares the hash and checks the quota of the row it read.
LEMMA TokenCheckKeeps ==
    ASSUME TokensInv, NEW t \in Tasks, Tok!Check(t) PROVE TokensInv'
<1>1. /\ task[t] \in TaskRec /\ Following(task[t]) /\ (faults = 0 => SameKey(task[t]))
      /\ task[t].pc = "check"
  BY DEF TokensInv, TokensTyped, OneKey, Tok!Check, Tok!At
<1>2. PICK pc \in {"serve", "refused", "unknown"} :
         /\ Tok!Goto(t, pc)
         /\ pc = "serve" => ~task[t].copy.revoked
         /\ pc = "unknown" => ~Tok!Matches(t)
  BY DEF Tok!Check, Tok!CheckQuota
<1>3. pc \in TokenPcs BY DEF TokenPcs
<1>4. PICK x \in TaskRec : /\ task' = [task EXCEPT ![t] = x] /\ x.pc = pc
                           /\ x.proc = task[t].proc /\ x.then = task[t].then /\ x.copy = task[t].copy
  BY <1>2, <1>3, TokenGoto
<1>5. Following(x) BY <1>2, <1>4 DEF Following, Resolving
<1>6. faults = 0 => Tok!Matches(t)
  BY <1>1 DEF SameKey, Following, Tok!Matches, TokensInv, OneKey
<1>7. faults = 0 => SameKey(x) BY <1>2, <1>4, <1>6 DEF SameKey, Resolving
<1> QED BY <1>4, <1>5, <1>7, TokenQuiet DEF Tok!Check

\* No token is refused because two processes provisioned the HMAC key at once, and none is
\* served that was revoked when the request looked it up.
THEOREM TokensHoldAlways == Tok!Spec => []TokensHold
<1>1. Tok!Init => TokensInv
  <2> SUFFICES ASSUME Tok!Init PROVE TokensInv OBVIOUS
  <2> USE DEF Tok!Init
  <2>1. Tok!NoToken \in TokenRec BY DEF Tok!NoToken, TokenRec
  <2>2. /\ config \in Processes \cup {Tok!NoKey} /\ cache \in [Processes -> Processes \cup {Tok!NoKey}] /\ faults \in Nat
    OBVIOUS
  <2>3. [Tok!NoToken EXCEPT !.hash = config, !.enabled = TRUE] \in TokenRec BY <2>1, <2>2 DEF TokenRec
  <2>4. [Tok!NoToken EXCEPT !.hash = config, !.enabled = TRUE].hash = config BY DEF Tok!NoToken
  <2>5. tokens \in [1..MaxTokens -> TokenRec] BY <2>1, <2>3
  <2>6. \A i \in 1..MaxTokens : tokens[i] = Tok!NoToken \/ (tokens[i].hash = config /\ config # Tok!NoKey)
    BY <2>4, TokenAssumption
  <2>7. Tok!Unborn \in TaskRec /\ Following(Tok!Unborn) /\ SameKey(Tok!Unborn)
    BY <2>1 DEF Tok!Unborn, TaskRec, TokenPcs, Following, SameKey, Resolving
  <2>8. task \in [Tasks -> TaskRec] /\ \A t \in Tasks : task[t] = Tok!Unborn BY <2>7
  <2>9. \A p \in Processes : cache[p] = Tok!NoKey OBVIOUS
  <2> QED BY <2>2, <2>5, <2>6, <2>7, <2>8, <2>9 DEF TokensInv, TokensTyped, OneKey
<1>2. TokensInv /\ [Tok!Next]_Tok!vars => TokensInv'
  <2> SUFFICES ASSUME TokensInv, [Tok!Next]_Tok!vars PROVE TokensInv' OBVIOUS
  <2>1. CASE UNCHANGED Tok!vars
    BY <2>1 DEF Tok!vars, TokensInv, TokensTyped, Following, OneKey, SameKey, Resolving
  <2> QED BY <2>1, CachedKeeps, ResolveKeeps, TokenRowKeeps, TokenBegins, TokenCheckKeeps DEF Tok!Next
<1>3. TokensInv => TokensHold
  <2> SUFFICES ASSUME TokensInv PROVE TokensHold OBVIOUS
  <2>1. Tok!IssuedTokensVerify BY DEF Tok!IssuedTokensVerify, Tok!At, TokensInv, OneKey, SameKey
  <2>2. Tok!RevokedStaysOut BY DEF Tok!RevokedStaysOut, Tok!At, TokensInv, Following
  <2> QED BY <2>1, <2>2 DEF TokensHold
<1> QED BY <1>1, <1>2, <1>3, PTL DEF Tok!Spec

---------------------------------------------------------------------------
(* The pool of keys *)

HealthRec == Pool!Health \cup {Pool!NoKey}
RowRec == [status : {"healthy", "rate_limited", "invalid", "error"}, cool : Nat] \cup {Pool!NoRow}
LoadRec == [at : {"idle", "rows", "swap"}, health : [PoolKeys -> RowRec], rows : SUBSET PoolKeys]
RoundRec ==
    [at : {"idle", "read", "walk", "save", "off"}, gen : 0..MaxReloads, todo : SUBSET PoolKeys,
     truth : SUBSET [PoolKeys -> RowRec], fp : RowRec]

PoolTyped ==
    /\ listed \subseteq PoolKeys /\ saved \in [PoolKeys -> RowRec]
    /\ heap \in [0..MaxReloads -> [PoolKeys -> HealthRec]] /\ gen \in 0..MaxReloads
    /\ loads \in [Reloaders -> LoadRec] /\ round \in RoundRec
    /\ flight \in [Requests -> [key : Nat, gen : 0..MaxReloads]]
    /\ used \in [calls : Nat, reloads : Nat, edits : Nat, faults : Nat]

\* Reloads that will replace the pool.
Reloading == {l \in Reloaders : loads[l].at # "idle"}

\* Every reload that is under way has a generation left for its objects.
RoomToReload ==
    /\ IsFiniteSet(Reloading)
    /\ gen + Cardinality(Reloading) <= used.reloads
    /\ used.reloads <= MaxReloads

PoolInv == PoolTyped /\ RoomToReload

USE PoolAssumption

\* The fields of an object of the pool.
LEMMA HealthIs ==
    ASSUME NEW h \in HealthRec
    PROVE  /\ h.cool \in Nat /\ h.level \in 0..3
           /\ h = [status |-> h.status, cool |-> h.cool, level |-> h.level]
           /\ h.status \in {"healthy", "rate_limited", "invalid", "error", "none"}
           /\ h.status = "none" => h = Pool!NoKey
  BY DEF HealthRec, Pool!Health, Pool!NoKey, Pool!MaxLevel

\* Every mark_ function makes a health of a health, and of the lack of one.
LEMMA MarksAreHealth ==
    ASSUME NEW h \in HealthRec, NEW single \in BOOLEAN
    PROVE  Pool!Served(h) \subseteq HealthRec /\ Pool!Classified(h, single) \subseteq HealthRec
<1>0. h \in [status : {"healthy", "rate_limited", "invalid", "error", "none"}, cool : Nat, level : 0..3]
  BY DEF HealthRec, Pool!Health, Pool!NoKey, Pool!MaxLevel
<1> USE DEF HealthRec, Pool!Health, Pool!MaxLevel
<1>1. /\ h.cool \in Nat /\ h.level \in 0..3
      /\ h = [status |-> h.status, cool |-> h.cool, level |-> h.level]
  BY HealthIs
<1>2. \A i \in 0..3 : Backoff[i] \in Nat OBVIOUS
<1>3. ASSUME NEW x \in Nat, NEW y \in Nat PROVE Pool!Lower(x, y) \in Nat /\ Pool!Lower(x, y) <= y
  BY DEF Pool!Lower
<1>4. \A t \in RetryAfters : t \in Nat OBVIOUS
<1>5. Pool!MarkAuthFailure(h) \in HealthRec
  <2>1. Pool!MarkAuthFailure(h) \in Pool!Health BY <1>0 DEF Pool!MarkAuthFailure
  <2> QED BY <2>1
<1>6. Pool!MarkBalanceDepleted(h) \in HealthRec
  <2>1. Pool!MarkBalanceDepleted(h) \in Pool!Health BY <1>0 DEF Pool!MarkBalanceDepleted
  <2> QED BY <2>1
<1>7. Pool!MarkBanned(h) \in HealthRec BY <1>2 DEF Pool!MarkBanned
<1>8. Pool!MarkTransient(h, single) \in HealthRec
  <2> DEFINE raised == Pool!Lower(h.level + 1, IF single THEN Pool!SingleMaxLevel ELSE Pool!MaxLevel)
  <2>1. raised \in 0..3 BY <1>1 DEF Pool!Lower, Pool!SingleMaxLevel
  <2>2. Pool!MarkTransient(h, single) = [status |-> "error", cool |-> Backoff[raised], level |-> raised]
    BY DEF Pool!MarkTransient
  <2> HIDE DEF raised
  <2> QED BY <1>2, <2>1, <2>2
<1>9. ASSUME NEW t \in RetryAfters PROVE Pool!MarkRateLimited(h, t) \in HealthRec
  <2> DEFINE raised == Pool!Lower(h.level + 1, Pool!MaxLevel)
  <2>1. raised \in 0..3 BY <1>1 DEF Pool!Lower
  <2>2. CASE t > 0
    <3>1. Pool!Lower(t, Backoff[Pool!MaxLevel]) \in Nat BY <1>2, <1>3, <1>4
    <3>2. Pool!MarkRateLimited(h, t) = [status |-> "rate_limited", cool |-> Pool!Lower(t, Backoff[Pool!MaxLevel]), level |-> h.level]
      BY <1>1, <2>2 DEF Pool!MarkRateLimited
    <3> QED BY <1>1, <3>1, <3>2
  <2>3. CASE ~(t > 0)
    <3>1. Pool!MarkRateLimited(h, t) = [status |-> "rate_limited", cool |-> Backoff[raised], level |-> raised]
      BY <2>3 DEF Pool!MarkRateLimited
    <3> HIDE DEF raised
    <3> QED BY <1>2, <2>1, <3>1
  <2> QED BY <2>2, <2>3
<1>10. ASSUME NEW t \in RetryAfters
       PROVE  [Pool!MarkSuccess(h) EXCEPT !.cool = Pool!Lower(t, Backoff[Pool!MaxLevel])] \in HealthRec
  <2>1. Pool!Lower(t, Backoff[Pool!MaxLevel]) \in Nat BY <1>2, <1>3, <1>4
  <2>2. (IF h.level > 0 THEN h.level - 1 ELSE 0) \in 0..3 BY <1>1
  <2>3. [Pool!MarkSuccess(h) EXCEPT !.cool = Pool!Lower(t, Backoff[Pool!MaxLevel])]
           = [status |-> "healthy", cool |-> Pool!Lower(t, Backoff[Pool!MaxLevel]),
              level |-> IF h.level > 0 THEN h.level - 1 ELSE 0]
    BY DEF Pool!MarkSuccess
  <2> QED BY <2>1, <2>2, <2>3
<1>11. Pool!Served(h) \subseteq HealthRec BY <1>10 DEF Pool!Served
<1> HIDE DEF HealthRec
<1>12. Pool!Classified(h, single) \subseteq HealthRec BY <1>5, <1>6, <1>7, <1>8, <1>9 DEF Pool!Classified
<1> QED BY <1>11, <1>12

\* Normalising an object ends a cooldown that has run out and nothing else.
LEMMA NormalizedIs ==
    ASSUME NEW h \in HealthRec
    PROVE  /\ Pool!Normalized(h) \in HealthRec /\ Pool!Normalized(h).cool = h.cool
           /\ Pool!Normalized(h).status = "invalid" <=> h.status = "invalid"
           /\ Pool!Fingerprint(Pool!Normalized(h)) \in RowRec
<1>1. /\ h.cool \in Nat /\ h.level \in 0..3
      /\ h = [status |-> h.status, cool |-> h.cool, level |-> h.level]
      /\ h.status \in {"healthy", "rate_limited", "invalid", "error", "none"}
      /\ h.status = "none" => h = Pool!NoKey
  BY HealthIs
<1>2. CASE Pool!Normalized(h) = h
  <2>1. h.status # "none" => [status |-> h.status, cool |-> h.cool] \in RowRec BY <1>1 DEF RowRec
  <2>2. h.status = "none" => [status |-> h.status, cool |-> h.cool] \in RowRec
    BY <1>1 DEF RowRec, Pool!NoRow, Pool!NoKey
  <2> QED BY <1>2, <2>1, <2>2 DEF Pool!Fingerprint
<1>3. CASE /\ h.status \in {"error", "rate_limited"}
           /\ Pool!Normalized(h) = [h EXCEPT !.status = "healthy"]
  <2>1. Pool!Normalized(h) = [status |-> "healthy", cool |-> h.cool, level |-> h.level] BY <1>1, <1>3
  <2>2. Pool!Normalized(h) \in HealthRec BY <1>1, <2>1 DEF HealthRec, Pool!Health, Pool!MaxLevel
  <2>3. [status |-> "healthy", cool |-> h.cool] \in RowRec BY <1>1 DEF RowRec
  <2>4. Pool!Fingerprint(Pool!Normalized(h)) \in RowRec BY <2>1, <2>3 DEF Pool!Fingerprint
  <2> QED BY <1>3, <2>1, <2>2, <2>4
<1> QED BY <1>2, <1>3 DEF Pool!Normalized

\* What _load_keys_from_store builds of a row.
LEMMA RestoredIs ==
    ASSUME NEW x \in RowRec PROVE Pool!Restored(x) \in HealthRec
<1>1. CASE x = Pool!NoRow BY <1>1 DEF Pool!Restored, Pool!Fresh, HealthRec, Pool!Health, Pool!MaxLevel
<1>2. CASE x # Pool!NoRow
  <2> DEFINE h == [status |-> x.status, cool |-> x.cool, level |-> 0]
  <2>1. h \in HealthRec BY <1>2 DEF RowRec, HealthRec, Pool!Health, Pool!MaxLevel
  <2>2. Pool!Restored(x) = Pool!Normalized(h) BY <1>2 DEF Pool!Restored
  <2> HIDE DEF h
  <2> QED BY <2>1, <2>2, NormalizedIs
<1> QED BY <1>1, <1>2

\* The pool as it is read from the database.
LEMMA LoadedIs ==
    ASSUME NEW f \in [PoolKeys -> RowRec], NEW rows PROVE Pool!Loaded(f, rows) \in [PoolKeys -> HealthRec]
<1>1. Pool!NoKey \in HealthRec BY DEF HealthRec
<1>2. \A k \in PoolKeys : Pool!Restored(f[k]) \in HealthRec BY RestoredIs
<1> QED BY <1>1, <1>2 DEF Pool!Loaded

\* A tick of the clock.
LEMMA DownIs ==
    /\ \A h \in HealthRec : Pool!Down(h) \in HealthRec
    /\ \A x \in RowRec : Pool!Down(x) \in RowRec
<1>1. ASSUME NEW h \in HealthRec PROVE Pool!Down(h) \in HealthRec
  <2> DEFINE c == IF h.cool > 0 THEN h.cool - 1 ELSE 0
  <2>1. h.cool \in Nat BY HealthIs
  <2>2. c \in Nat /\ (h.cool = 0 => c = 0) BY <2>1
  <2>3. Pool!Down(h) = [h EXCEPT !.cool = c] BY DEF Pool!Down
  <2> HIDE DEF c
  <2>4. CASE h = Pool!NoKey
    <3>1. [h EXCEPT !.cool = c] = h BY <2>2, <2>4 DEF Pool!NoKey
    <3> QED BY <2>3, <3>1
  <2>5. CASE h # Pool!NoKey BY <2>2, <2>3, <2>5 DEF HealthRec, Pool!Health
  <2> QED BY <2>4, <2>5
<1>2. ASSUME NEW x \in RowRec PROVE Pool!Down(x) \in RowRec
  <2> DEFINE c == IF x.cool > 0 THEN x.cool - 1 ELSE 0
  <2>1. x.cool \in Nat BY DEF RowRec, Pool!NoRow
  <2>2. c \in Nat /\ (x.cool = 0 => c = 0) BY <2>1
  <2>3. Pool!Down(x) = [x EXCEPT !.cool = c] BY DEF Pool!Down
  <2> HIDE DEF c
  <2>4. CASE x = Pool!NoRow
    <3>1. [x EXCEPT !.cool = c] = x BY <2>2, <2>4 DEF Pool!NoRow
    <3> QED BY <2>3, <3>1
  <2>5. CASE x # Pool!NoRow BY <2>2, <2>3, <2>5 DEF RowRec
  <2> QED BY <2>4, <2>5
<1> QED BY <1>1, <1>2

\* The counters of the bounds.
LEMMA SpendIs ==
    ASSUME PoolTyped, NEW what \in {"calls", "reloads", "edits", "faults"}, Pool!Spend(what)
    PROVE  /\ used' \in [calls : Nat, reloads : Nat, edits : Nat, faults : Nat]
           /\ used'.reloads = IF what = "reloads" THEN used.reloads + 1 ELSE used.reloads
<1>1. used \in [calls : Nat, reloads : Nat, edits : Nat, faults : Nat] BY DEF PoolTyped
<1>2. CASE what = "calls"
  <2>1. used' = [used EXCEPT !.calls = used.calls + 1] BY <1>2 DEF Pool!Spend
  <2>2. used.calls + 1 \in Nat BY <1>1
  <2> QED BY <1>1, <1>2, <2>1, <2>2
<1>3. CASE what = "reloads"
  <2>1. used' = [used EXCEPT !.reloads = used.reloads + 1] BY <1>3 DEF Pool!Spend
  <2>2. used.reloads + 1 \in Nat BY <1>1
  <2> QED BY <1>1, <1>3, <2>1, <2>2
<1>4. CASE what = "edits"
  <2>1. used' = [used EXCEPT !.edits = used.edits + 1] BY <1>4 DEF Pool!Spend
  <2>2. used.edits + 1 \in Nat BY <1>1
  <2> QED BY <1>1, <1>4, <2>1, <2>2
<1>5. CASE what = "faults"
  <2>1. used' = [used EXCEPT !.faults = used.faults + 1] BY <1>5 DEF Pool!Spend
  <2>2. used.faults + 1 \in Nat BY <1>1
  <2> QED BY <1>1, <1>5, <2>1, <2>2
<1> QED BY <1>2, <1>3, <1>4, <1>5

\* A step that begins and ends no reload.
LEMMA NoReloadKeeps ==
    ASSUME PoolInv, PoolTyped', gen' = gen, Reloading' \subseteq Reloading, used'.reloads = used.reloads
    PROVE  PoolInv'
<1> USE DEF PoolInv, RoomToReload
<1>1. /\ IsFiniteSet(Reloading') /\ Cardinality(Reloading') <= Cardinality(Reloading) BY FS_Subset
<1>2. Cardinality(Reloading') \in Nat /\ Cardinality(Reloading) \in Nat BY <1>1, FS_CardinalityType
<1>3. gen \in Nat /\ used.reloads \in Nat BY DEF PoolTyped
<1>4. gen' + Cardinality(Reloading') <= used'.reloads BY <1>1, <1>2, <1>3
<1> QED BY <1>1, <1>4

\* The steps of requests and of the administrator.
LEMMA RequestsKeepPool ==
    ASSUME PoolInv,
           \/ \E r \in Requests : Pool!Dispatch(r) \/ Pool!Succeeds(r) \/ Pool!Fails(r)
           \/ \E k \in PoolKeys : Pool!EditRow(k) \/ Pool!Reactivate(k)
    PROVE  PoolInv'
<1> USE DEF PoolInv
<1>0. /\ heap \in [0..MaxReloads -> [PoolKeys -> HealthRec]] /\ gen \in 0..MaxReloads
      /\ flight \in [Requests -> [key : Nat, gen : 0..MaxReloads]]
      /\ PoolKeys \subseteq Nat
  BY DEF PoolTyped
<1>1. ASSUME NEW r \in Requests, Pool!Dispatch(r) PROVE PoolInv'
  <2>1. PICK k \in PoolKeys : flight' = [flight EXCEPT ![r] = [key |-> k, gen |-> gen]]
    BY <1>1 DEF Pool!Dispatch
  <2>2. [key |-> k, gen |-> gen] \in [key : Nat, gen : 0..MaxReloads] BY <1>0
  <2>3. flight' \in [Requests -> [key : Nat, gen : 0..MaxReloads]] BY <1>0, <2>1, <2>2
  <2>4. /\ used' \in [calls : Nat, reloads : Nat, edits : Nat, faults : Nat] /\ used'.reloads = used.reloads
    BY <1>1, SpendIs DEF Pool!Dispatch
  <2>5. UNCHANGED <<listed, saved, heap, gen, baseline, loads, round>> BY <1>1 DEF Pool!Dispatch
  <2>6. PoolTyped' BY <2>3, <2>4, <2>5 DEF PoolTyped
  <2>7. Reloading' = Reloading BY <2>5 DEF Reloading
  <2> QED BY <2>4, <2>5, <2>6, <2>7, NoReloadKeeps
<1>2. ASSUME NEW r \in Requests, Pool!Succeeds(r) \/ Pool!Fails(r) PROVE PoolInv'
  <2>0. flight[r].gen \in 0..MaxReloads /\ flight[r] \in [key : Nat, gen : 0..MaxReloads] BY <1>0
  <2>1. PICK outcomes : /\ Pool!Mark(r, outcomes)
                        /\ flight[r].key \in PoolKeys => outcomes \subseteq HealthRec
    <3>1. ASSUME flight[r].key \in PoolKeys PROVE Pool!Object(r) \in HealthRec
      BY <1>0, <2>0, <3>1 DEF Pool!Object
    <3>2. CASE Pool!Succeeds(r) BY <3>1, <3>2, MarksAreHealth DEF Pool!Succeeds
    <3>3. CASE Pool!Fails(r)
      <4> DEFINE single == Pool!Cardinality({k \in PoolKeys : Pool!InPool(k)}) = 1
      <4>1. single \in BOOLEAN OBVIOUS
      <4>2. Pool!Mark(r, Pool!Classified(Pool!Object(r), single)) BY <3>3 DEF Pool!Fails
      <4> HIDE DEF single
      <4>3. flight[r].key \in PoolKeys => Pool!Classified(Pool!Object(r), single) \subseteq HealthRec
        BY <3>1, <4>1, MarksAreHealth
      <4> QED BY <4>2, <4>3
    <3> QED BY <1>2, <3>2, <3>3
  <2>2. PICK h \in outcomes : heap' = [heap EXCEPT ![flight[r].gen][flight[r].key] = h]
    BY <2>1 DEF Pool!Mark
  <2>3. heap' \in [0..MaxReloads -> [PoolKeys -> HealthRec]]
    <3> DEFINE g == flight[r].gen
               k == flight[r].key
               f == [heap[g] EXCEPT ![k] = h]
    <3>1. heap' = [heap EXCEPT ![g] = f] BY <2>2
    <3>2. k \in PoolKeys => h \in HealthRec BY <2>1, <2>2
    <3>3. heap[g] \in [PoolKeys -> HealthRec] BY <1>0, <2>0
    <3>4. f \in [PoolKeys -> HealthRec] BY <3>2, <3>3
    <3> HIDE DEF f
    <3> QED BY <1>0, <3>1, <3>4
  <2>4. Pool!Free \in [key : Nat, gen : 0..MaxReloads] BY DEF Pool!Free
  <2>5. flight' \in [Requests -> [key : Nat, gen : 0..MaxReloads]] BY <1>0, <2>1, <2>4 DEF Pool!Mark
  <2>6. UNCHANGED <<listed, saved, gen, baseline, loads, round, used>> BY <2>1 DEF Pool!Mark
  <2>7. PoolTyped' BY <2>3, <2>5, <2>6 DEF PoolTyped
  <2>8. Reloading' = Reloading BY <2>6 DEF Reloading
  <2> QED BY <2>6, <2>7, <2>8, NoReloadKeeps
<1>3. ASSUME NEW k \in PoolKeys, Pool!EditRow(k) PROVE PoolInv'
  <2>1. listed' \subseteq PoolKeys BY <1>3 DEF Pool!EditRow, Pool!Edited, PoolTyped
  <2>2. UNCHANGED <<saved, heap, gen, baseline, loads, round, flight>> BY <1>3 DEF Pool!EditRow
  <2>3. /\ used' \in [calls : Nat, reloads : Nat, edits : Nat, faults : Nat] /\ used'.reloads = used.reloads
    BY <1>3, SpendIs DEF Pool!EditRow
  <2>4. PoolTyped' BY <2>1, <2>2, <2>3 DEF PoolTyped
  <2>5. Reloading' = Reloading BY <2>2 DEF Reloading
  <2> QED BY <2>2, <2>3, <2>4, <2>5, NoReloadKeeps
<1>4. ASSUME NEW k \in PoolKeys, Pool!Reactivate(k) PROVE PoolInv'
  <2>1. Pool!Fresh \in HealthRec BY DEF Pool!Fresh, HealthRec, Pool!Health, Pool!MaxLevel
  <2>2. heap' \in [0..MaxReloads -> [PoolKeys -> HealthRec]]
    <3> DEFINE f == [heap[gen] EXCEPT ![k] = Pool!Fresh]
    <3>1. heap' = [heap EXCEPT ![gen] = f] BY <1>4 DEF Pool!Reactivate
    <3>2. f \in [PoolKeys -> HealthRec] BY <1>0, <2>1
    <3> HIDE DEF f
    <3> QED BY <1>0, <3>1, <3>2
  <2>3. UNCHANGED <<listed, saved, gen, baseline, loads, round, flight>> BY <1>4 DEF Pool!Reactivate
  <2>4. /\ used' \in [calls : Nat, reloads : Nat, edits : Nat, faults : Nat] /\ used'.reloads = used.reloads
    BY <1>4, SpendIs DEF Pool!Reactivate
  <2>5. PoolTyped' BY <2>2, <2>3, <2>4 DEF PoolTyped
  <2>6. Reloading' = Reloading BY <2>3 DEF Reloading
  <2> QED BY <2>3, <2>4, <2>5, <2>6, NoReloadKeeps
<1> QED BY <1>1, <1>2, <1>3, <1>4

\* The pool a reload puts in place.
LEMMA MergedIs ==
    ASSUME PoolTyped, NEW f \in [PoolKeys -> HealthRec] PROVE Pool!Merged(f) \in [PoolKeys -> HealthRec]
<1>1. Pool!NoKey \in HealthRec /\ Pool!Fresh \in HealthRec
  BY DEF Pool!Fresh, HealthRec, Pool!Health, Pool!MaxLevel
<1>2. \A x, y \in HealthRec : Pool!Keep(x, y) \in HealthRec BY <1>1 DEF Pool!Keep
<1>3. heap \in [0..MaxReloads -> [PoolKeys -> HealthRec]] /\ gen \in 0..MaxReloads BY Zenon DEF PoolTyped
<1>4. heap[gen] \in [PoolKeys -> HealthRec] BY <1>3, Zenon
<1>5. \A k \in PoolKeys : heap[gen][k] \in HealthRec BY <1>4, Zenon
<1> QED BY <1>1, <1>2, <1>5 DEF Pool!Merged

\* A reload that ends leaves one generation more to the others.
LEMMA SwapKeeps ==
    ASSUME PoolInv, NEW l \in Reloaders, Pool!Swap(l)
    PROVE  PoolInv' /\ gen + 1 \in DOMAIN heap
<1> USE DEF PoolInv
<1>0. /\ heap \in [0..MaxReloads -> [PoolKeys -> HealthRec]] /\ gen \in 0..MaxReloads
      /\ loads \in [Reloaders -> LoadRec] /\ loads[l] \in LoadRec
      /\ used.reloads \in Nat /\ MaxReloads \in Nat
  BY DEF PoolTyped
<1>1. loads[l].at = "swap" /\ loads' = [loads EXCEPT ![l] = Pool!Idle] /\ gen' = gen + 1
  BY DEF Pool!Swap
<1>2. Reloading' = Reloading \ {l} /\ l \in Reloading BY <1>0, <1>1 DEF Reloading, Pool!Idle
<1>3. /\ IsFiniteSet(Reloading \ {l}) /\ IsFiniteSet(Reloading)
      /\ Cardinality(Reloading \ {l}) = Cardinality(Reloading) - 1
  BY <1>2, FS_RemoveElement DEF RoomToReload
<1>4. Cardinality(Reloading \ {l}) \in Nat /\ Cardinality(Reloading) \in Nat BY <1>3, FS_CardinalityType
<1>5. gen + 1 \in 0..MaxReloads /\ gen' + Cardinality(Reloading') <= used.reloads
  BY <1>0, <1>1, <1>2, <1>3, <1>4 DEF RoomToReload
<1>6. UNCHANGED <<listed, saved, baseline, round, flight, used>> BY DEF Pool!Swap
<1>7. heap' \in [0..MaxReloads -> [PoolKeys -> HealthRec]]
  <2> DEFINE f == Pool!Loaded(loads[l].health, loads[l].rows)
             m == Pool!Merged(f)
             none == [k \in PoolKeys |-> Pool!NoKey]
  <2>1. loads[l].health \in [PoolKeys -> RowRec] BY <1>0 DEF LoadRec
  <2>2. f \in [PoolKeys -> HealthRec] BY <2>1, LoadedIs
  <2>3. m \in [PoolKeys -> HealthRec] BY <2>2, MergedIs
  <2>4. none \in [PoolKeys -> HealthRec] BY DEF HealthRec
  <2>5. heap' = [g \in 0..MaxReloads |->
                    IF g = gen + 1 THEN m ELSE IF g \in Pool!Reachable THEN heap[g] ELSE none]
    BY <1>0 DEF Pool!Swap
  <2> HIDE DEF m, none
  <2> QED BY <1>0, <2>3, <2>4, <2>5
<1>8. loads' \in [Reloaders -> LoadRec]
  <2>1. Pool!Idle \in LoadRec BY DEF Pool!Idle, LoadRec, RowRec
  <2> QED BY <1>0, <1>1, <2>1
<1>9. PoolTyped' BY <1>1, <1>5, <1>6, <1>7, <1>8 DEF PoolTyped
<1>10. RoomToReload' BY <1>2, <1>3, <1>5, <1>6 DEF RoomToReload
<1> QED BY <1>0, <1>5, <1>9, <1>10

\* The other steps of a reload.
LEMMA ReloadKeeps ==
    ASSUME PoolInv, NEW l \in Reloaders, Pool!BeginReload(l) \/ Pool!ReadRows(l) \/ Pool!ReloadFails(l)
    PROVE  PoolInv'
<1> USE DEF PoolInv
<1>0. /\ loads \in [Reloaders -> LoadRec] /\ loads[l] \in LoadRec
      /\ saved \in [PoolKeys -> RowRec] /\ listed \subseteq PoolKeys
      /\ used.reloads \in Nat /\ MaxReloads \in Nat /\ gen \in 0..MaxReloads
  BY DEF PoolTyped
<1>1. CASE Pool!BeginReload(l)
  <2> DEFINE x == [loads[l] EXCEPT !.at = "rows", !.health = saved]
  <2>1. x \in LoadRec /\ x.at = "rows" BY <1>0 DEF LoadRec
  <2>2. loads' = [loads EXCEPT ![l] = x] BY <1>0, <1>1 DEF Pool!BeginReload, LoadRec
  <2> HIDE DEF x
  <2>3. loads' \in [Reloaders -> LoadRec] BY <1>0, <2>1, <2>2
  <2>4. Reloading' = Reloading \cup {l} /\ l \notin Reloading
    BY <1>0, <1>1, <2>1, <2>2 DEF Reloading, Pool!BeginReload
  <2>5. /\ IsFiniteSet(Reloading') /\ Cardinality(Reloading') = Cardinality(Reloading) + 1
    BY <2>4, FS_AddElement DEF RoomToReload
  <2>6. Cardinality(Reloading) \in Nat BY FS_CardinalityType DEF RoomToReload
  <2>7. /\ used' \in [calls : Nat, reloads : Nat, edits : Nat, faults : Nat]
        /\ used'.reloads = used.reloads + 1 /\ used.reloads < MaxReloads
    BY <1>1, SpendIs DEF Pool!BeginReload
  <2>8. UNCHANGED <<listed, saved, heap, gen, baseline, round, flight>> BY <1>1 DEF Pool!BeginReload
  <2>9. PoolTyped' BY <2>3, <2>7, <2>8 DEF PoolTyped
  <2>10. gen' + Cardinality(Reloading') <= used'.reloads /\ used'.reloads <= MaxReloads
    BY <1>0, <2>5, <2>6, <2>7, <2>8, SMTT(30) DEF RoomToReload
  <2> QED BY <2>5, <2>9, <2>10 DEF RoomToReload
<1>2. CASE Pool!ReadRows(l)
  <2> DEFINE x == [loads[l] EXCEPT !.at = "swap", !.rows = listed]
  <2>1. x \in LoadRec /\ loads[l].at = "rows" BY <1>0, <1>2 DEF LoadRec, Pool!ReadRows
  <2>2. loads' = [loads EXCEPT ![l] = x] BY <1>0, <1>2 DEF Pool!ReadRows, LoadRec
  <2> HIDE DEF x
  <2>3. loads' \in [Reloaders -> LoadRec] BY <1>0, <2>1, <2>2
  <2>4. Reloading' \subseteq Reloading BY <1>0, <2>1, <2>2 DEF Reloading
  <2>5. UNCHANGED <<listed, saved, heap, gen, baseline, round, flight, used>> BY <1>2 DEF Pool!ReadRows
  <2>6. PoolTyped' BY <2>3, <2>5 DEF PoolTyped
  <2> QED BY <2>4, <2>5, <2>6, NoReloadKeeps
<1>3. CASE Pool!ReloadFails(l)
  <2>1. loads' = [loads EXCEPT ![l] = Pool!Idle] BY <1>3 DEF Pool!ReloadFails
  <2>2. Pool!Idle \in LoadRec /\ Pool!Idle.at = "idle" BY DEF Pool!Idle, LoadRec, RowRec
  <2>3. loads' \in [Reloaders -> LoadRec] BY <1>0, <2>1, <2>2
  <2>4. Reloading' \subseteq Reloading BY <1>0, <2>1, <2>2 DEF Reloading
  <2>5. UNCHANGED <<listed, saved, heap, gen, baseline, round, flight>> BY <1>3 DEF Pool!ReloadFails
  <2>6. /\ used' \in [calls : Nat, reloads : Nat, edits : Nat, faults : Nat] /\ used'.reloads = used.reloads
    BY <1>3, SpendIs DEF Pool!ReloadFails
  <2>7. PoolTyped' BY <2>3, <2>5, <2>6 DEF PoolTyped
  <2> QED BY <2>4, <2>5, <2>6, <2>7, NoReloadKeeps
<1> QED BY <1>1, <1>2, <1>3

\* The smallest key of the round is one of it.
LEMMA FirstOfRound ==
    ASSUME NEW ks \in SUBSET PoolKeys, ks # {} PROVE Pool!First(ks) \in ks
<1>1. ks \in SUBSET Nat OBVIOUS
<1>2. \E k \in ks : \A j \in ks : k <= j BY <1>1, SmallestNat
<1> QED BY <1>2 DEF Pool!First

\* Before the round looks at a key it normalises the object it has of it.
LEMMA WalkIs ==
    ASSUME PoolInv, Pool!Walk
    PROVE  \E k \in PoolKeys :
              LET h == Pool!Normalized(heap[round.gen][k])
              IN  /\ round.gen \in 0..MaxReloads /\ heap[round.gen][k] \in HealthRec
                  /\ h \in HealthRec /\ Pool!Fingerprint(h) \in RowRec
                  /\ heap' = [heap EXCEPT ![round.gen][k] = h]
                  /\ \/ round' = [round EXCEPT !.todo = @ \ {k}]
                     \/ round' = [round EXCEPT !.at = "save", !.fp = Pool!Fingerprint(h)]
<1> DEFINE k == Pool!First(round.todo)
           h == Pool!Normalized(heap[round.gen][k])
<1>1. /\ round \in RoundRec /\ heap \in [0..MaxReloads -> [PoolKeys -> HealthRec]]
      /\ round.todo # {} /\ round.todo \in SUBSET PoolKeys /\ round.gen \in 0..MaxReloads
  BY DEF PoolInv, PoolTyped, Pool!Walk, RoundRec
<1>2. k \in PoolKeys BY <1>1, FirstOfRound
<1>3. heap[round.gen][k] \in HealthRec BY <1>1, <1>2
<1>4. h \in HealthRec /\ Pool!Fingerprint(h) \in RowRec BY <1>3, NormalizedIs
<1>5. /\ heap' = [heap EXCEPT ![round.gen][k] = h]
      /\ \/ round' = [round EXCEPT !.todo = @ \ {k}]
         \/ round' = [round EXCEPT !.at = "save", !.fp = Pool!Fingerprint(h)]
  BY DEF Pool!Walk
<1> HIDE DEF k
<1> QED BY <1>1, <1>2, <1>3, <1>4, <1>5

\* The steps of the snapshot round.
LEMMA RoundKeeps ==
    ASSUME PoolInv,
           \/ \E full \in BOOLEAN : Pool!Wake(full)
           \/ Pool!ReadBack \/ Pool!Walk \/ Pool!RoundEnds
           \/ \E done, ok \in BOOLEAN : Pool!Save(done, ok)
    PROVE  PoolInv'
<1> USE DEF PoolInv
<1>0. /\ round \in RoundRec /\ saved \in [PoolKeys -> RowRec] /\ gen \in 0..MaxReloads
      /\ heap \in [0..MaxReloads -> [PoolKeys -> HealthRec]]
      /\ used \in [calls : Nat, reloads : Nat, edits : Nat, faults : Nat]
  BY DEF PoolTyped
<1>1. UNCHANGED <<listed, gen, loads, flight>>
  BY DEF Pool!Wake, Pool!ReadBack, Pool!Walk, Pool!RoundEnds, Pool!Save
<1>2. Reloading' = Reloading BY <1>1 DEF Reloading
<1>3. ASSUME round' \in RoundRec, saved' \in [PoolKeys -> RowRec],
             heap' \in [0..MaxReloads -> [PoolKeys -> HealthRec]],
             used' = used \/ Pool!Spend("faults")
      PROVE  PoolInv'
  <2>1. /\ used' \in [calls : Nat, reloads : Nat, edits : Nat, faults : Nat] /\ used'.reloads = used.reloads
    BY <1>0, <1>3, SpendIs
  <2>2. PoolTyped' BY <1>1, <1>3, <2>1 DEF PoolTyped
  <2> QED BY <1>1, <1>2, <2>1, <2>2, NoReloadKeeps
<1>4. Pool!Asleep \in RoundRec BY DEF Pool!Asleep, RoundRec, RowRec
<1>5. ASSUME NEW full \in BOOLEAN, Pool!Wake(full) PROVE PoolInv'
  <2> DEFINE at == IF Pool!Reconciles(full) THEN "read" ELSE "walk"
             todo == {k \in PoolKeys : Pool!InPool(k)}
  <2>1. at \in {"read", "walk"} /\ todo \in SUBSET PoolKeys OBVIOUS
  <2>2. round' = [Pool!Asleep EXCEPT !.at = at, !.gen = gen, !.todo = todo] BY <1>5 DEF Pool!Wake
  <2> HIDE DEF at, todo
  <2>3. round' \in RoundRec BY <1>0, <1>4, <2>1, <2>2 DEF RoundRec
  <2>4. saved' = saved /\ heap' = heap /\ used' = used BY <1>5 DEF Pool!Wake
  <2> QED BY <1>0, <1>3, <2>3, <2>4
<1>6. CASE Pool!ReadBack
  <2>1. saved' = saved /\ heap' = heap BY <1>6 DEF Pool!ReadBack
  <2>2. CASE round' = [round EXCEPT !.at = "walk", !.truth = {saved}] /\ used' = used
    <3>1. {saved} \in SUBSET [PoolKeys -> RowRec] BY <1>0
    <3>2. round' \in RoundRec BY <1>0, <2>2, <3>1 DEF RoundRec
    <3> QED BY <1>0, <1>3, <2>1, <2>2, <3>2
  <2>3. CASE round' = [round EXCEPT !.at = "walk"] /\ Pool!Spend("faults")
    <3>1. round' \in RoundRec BY <1>0, <2>3 DEF RoundRec
    <3> QED BY <1>0, <1>3, <2>1, <2>3, <3>1
  <2> QED BY <1>6, <2>2, <2>3 DEF Pool!ReadBack
<1>7. CASE Pool!Walk
  <2>1. PICK k \in PoolKeys :
              LET h == Pool!Normalized(heap[round.gen][k])
              IN  /\ round.gen \in 0..MaxReloads /\ heap[round.gen][k] \in HealthRec
                  /\ h \in HealthRec /\ Pool!Fingerprint(h) \in RowRec
                  /\ heap' = [heap EXCEPT ![round.gen][k] = h]
                  /\ \/ round' = [round EXCEPT !.todo = @ \ {k}]
                     \/ round' = [round EXCEPT !.at = "save", !.fp = Pool!Fingerprint(h)]
    BY <1>7, WalkIs
  <2> DEFINE h == Pool!Normalized(heap[round.gen][k])
             f == [heap[round.gen] EXCEPT ![k] = h]
             fp == Pool!Fingerprint(h)
             rest == round.todo \ {k}
  <2>2. /\ round.gen \in 0..MaxReloads /\ h \in HealthRec /\ fp \in RowRec
        /\ heap' = [heap EXCEPT ![round.gen] = f]
        /\ round' = [round EXCEPT !.todo = rest] \/ round' = [round EXCEPT !.at = "save", !.fp = fp]
    BY <2>1
  <2>3. rest \in SUBSET PoolKeys BY <1>0 DEF RoundRec
  <2> HIDE DEF h
  <2>4. f \in [PoolKeys -> HealthRec] BY <1>0, <2>2
  <2> HIDE DEF f, fp, rest
  <2>5. heap' \in [0..MaxReloads -> [PoolKeys -> HealthRec]] BY <1>0, <2>2, <2>4
  <2>6. round' \in RoundRec BY <1>0, <2>2, <2>3 DEF RoundRec
  <2>7. saved' = saved /\ used' = used BY <1>7 DEF Pool!Walk
  <2> QED BY <1>0, <1>3, <2>5, <2>6, <2>7
<1>8. CASE Pool!RoundEnds BY <1>0, <1>3, <1>4, <1>8 DEF Pool!RoundEnds
<1>9. ASSUME NEW done \in BOOLEAN, NEW ok \in BOOLEAN, Pool!Save(done, ok) PROVE PoolInv'
  <2> DEFINE k == Pool!First(round.todo)
             rest == round.todo \ {k}
  <2>1. /\ round' = [round EXCEPT !.at = "walk", !.todo = rest, !.fp = Pool!NoRow]
        /\ saved' = saved \/ saved' = [saved EXCEPT ![k] = round.fp]
        /\ used' = used \/ Pool!Spend("faults")
        /\ heap' = heap
    BY <1>9 DEF Pool!Save
  <2>2. rest \in SUBSET PoolKeys /\ round.fp \in RowRec /\ Pool!NoRow \in RowRec BY <1>0 DEF RoundRec, RowRec
  <2> HIDE DEF k, rest
  <2>3. round' \in RoundRec BY <1>0, <2>1, <2>2 DEF RoundRec
  <2>4. saved' \in [PoolKeys -> RowRec] BY <1>0, <2>1, <2>2
  <2> QED BY <1>0, <1>3, <2>1, <2>3, <2>4
<1> QED BY <1>5, <1>6, <1>7, <1>8, <1>9

\* The clock ticks.
LEMMA TickKeeps ==
    ASSUME PoolInv, Pool!Tick PROVE PoolInv'
<1> USE DEF PoolInv
<1>0. /\ round \in RoundRec /\ saved \in [PoolKeys -> RowRec] /\ loads \in [Reloaders -> LoadRec]
      /\ heap \in [0..MaxReloads -> [PoolKeys -> HealthRec]]
  BY DEF PoolTyped
<1>1. UNCHANGED <<listed, gen, flight, used>> BY DEF Pool!Tick
<1>2. \A f \in [PoolKeys -> RowRec] : Pool!DownAll(f) \in [PoolKeys -> RowRec] BY DownIs DEF Pool!DownAll
<1>3. \A f \in [PoolKeys -> HealthRec] : Pool!DownAll(f) \in [PoolKeys -> HealthRec] BY DownIs DEF Pool!DownAll
<1>4. saved' \in [PoolKeys -> RowRec] BY <1>0, <1>2 DEF Pool!Tick
<1>5. heap' \in [0..MaxReloads -> [PoolKeys -> HealthRec]]
  <2>1. heap' = [g \in 0..MaxReloads |-> Pool!DownAll(heap[g])] BY <1>0 DEF Pool!Tick
  <2> QED BY <1>0, <1>3, <2>1
<1>6. loads' \in [Reloaders -> LoadRec] /\ \A l \in Reloaders : loads'[l].at = loads[l].at
  <2> DEFINE x(l) == [loads[l] EXCEPT !.health = Pool!DownAll(loads[l].health)]
  <2>1. ASSUME NEW l \in Reloaders PROVE x(l) \in LoadRec /\ x(l).at = loads[l].at
    <3>1. loads[l] \in LoadRec BY <1>0
    <3>2. Pool!DownAll(loads[l].health) \in [PoolKeys -> RowRec] BY <1>2, <3>1 DEF LoadRec
    <3> QED BY <3>1, <3>2 DEF LoadRec
  <2>2. loads' = [l \in Reloaders |-> x(l)] BY DEF Pool!Tick
  <2> HIDE DEF x
  <2> QED BY <2>1, <2>2
<1>7. round' \in RoundRec
  <2> DEFINE truth == {Pool!DownAll(t) : t \in round.truth}
             fp == Pool!Down(round.fp)
  <2>1. round.truth \in SUBSET [PoolKeys -> RowRec] /\ round.fp \in RowRec BY <1>0 DEF RoundRec
  <2>2. truth \in SUBSET [PoolKeys -> RowRec] BY <1>2, <2>1
  <2>3. fp \in RowRec BY <2>1, DownIs
  <2>4. round' = [round EXCEPT !.truth = truth, !.fp = fp] BY DEF Pool!Tick
  <2> HIDE DEF truth, fp
  <2> QED BY <1>0, <2>2, <2>3, <2>4 DEF RoundRec
<1>8. PoolTyped' BY <1>1, <1>4, <1>5, <1>6, <1>7 DEF PoolTyped
<1>9. Reloading' = Reloading BY <1>6 DEF Reloading
<1> QED BY <1>1, <1>8, <1>9, NoReloadKeeps

\* The process starts again: no reload is under way, and the generations used are as many as
\* the reloads that began.
LEMMA RestartKeeps ==
    ASSUME PoolInv, Pool!Restart PROVE PoolInv'
<1> USE DEF PoolInv
<1>0. /\ saved \in [PoolKeys -> RowRec] /\ heap \in [0..MaxReloads -> [PoolKeys -> HealthRec]]
      /\ used.reloads \in Nat /\ MaxReloads \in Nat
  BY DEF PoolTyped
<1>1. listed' = listed /\ saved' = saved /\ gen' = used.reloads /\ round' = Pool!Asleep BY DEF Pool!Restart
<1>2. gen' \in 0..MaxReloads BY <1>0, <1>1 DEF RoomToReload
<1>3. heap' \in [0..MaxReloads -> [PoolKeys -> HealthRec]]
  <2> DEFINE none == [k \in PoolKeys |-> Pool!NoKey]
  <2>1. PICK rows : heap' = [g \in 0..MaxReloads |-> IF g = used.reloads THEN Pool!Loaded(saved, rows) ELSE none]
    BY <1>0 DEF Pool!Restart
  <2>2. Pool!Loaded(saved, rows) \in [PoolKeys -> HealthRec] BY <1>0, LoadedIs
  <2>3. none \in [PoolKeys -> HealthRec] BY DEF HealthRec
  <2> HIDE DEF none
  <2> QED BY <2>1, <2>2, <2>3
<1>4. loads' \in [Reloaders -> LoadRec] /\ Reloading' = {}
  <2>1. Pool!Idle \in LoadRec /\ Pool!Idle.at = "idle" BY DEF Pool!Idle, LoadRec, RowRec
  <2>2. loads' = [l \in Reloaders |-> Pool!Idle] BY DEF Pool!Restart
  <2>3. loads' \in [Reloaders -> LoadRec] BY <2>1, <2>2
  <2>4. Reloading' = {} BY <2>1, <2>2 DEF Reloading
  <2> QED BY <2>3, <2>4
<1>5. round' \in RoundRec BY <1>1 DEF Pool!Asleep, RoundRec, RowRec
<1>6. flight' \in [Requests -> [key : Nat, gen : 0..MaxReloads]]
  <2>1. Pool!Free \in [key : Nat, gen : 0..MaxReloads] BY DEF Pool!Free
  <2> QED BY <2>1 DEF Pool!Restart
<1>7. /\ used' \in [calls : Nat, reloads : Nat, edits : Nat, faults : Nat] /\ used'.reloads = used.reloads
  BY SpendIs DEF Pool!Restart
<1>8. PoolTyped' BY <1>0, <1>1, <1>2, <1>3, <1>4, <1>5, <1>6, <1>7 DEF PoolTyped
<1>9. IsFiniteSet(Reloading') /\ Cardinality(Reloading') = 0 BY <1>4, FS_EmptySet
<1>10. RoomToReload' BY <1>0, <1>1, <1>7, <1>9 DEF RoomToReload
<1> QED BY <1>8, <1>10

\* No step breaks the invariant.
LEMMA PoolNext == PoolInv /\ [Pool!Next]_Pool!vars => PoolInv'
<1> SUFFICES ASSUME PoolInv, [Pool!Next]_Pool!vars PROVE PoolInv' OBVIOUS
<1>1. CASE UNCHANGED Pool!vars
  <2>1. UNCHANGED <<listed, saved, heap, gen, loads, round, flight, used>> BY <1>1 DEF Pool!vars
  <2>2. Reloading' = Reloading BY <2>1 DEF Reloading
  <2> QED BY <2>1, <2>2 DEF PoolInv, PoolTyped, RoomToReload
<1>2. CASE \/ Pool!Wake(TRUE) \/ Pool!Wake(FALSE) \/ Pool!ReadBack \/ Pool!Walk
           \/ Pool!Save(TRUE, TRUE) \/ Pool!Save(FALSE, FALSE) \/ Pool!Save(TRUE, FALSE)
           \/ Pool!RoundEnds
  BY <1>2, RoundKeeps
<1> QED BY <1>1, <1>2, RequestsKeepPool, SwapKeeps, ReloadKeeps, TickKeeps, RestartKeeps DEF Pool!Next

\* The pool has the key and does not use it, because of a failure.
OutOfService(k) ==
    Pool!InPool(k) /\ ~Pool!Available(heap[gen][k]) /\ heap[gen][k].status # "healthy"

\* Of all the steps of reloads and of the snapshot round, those that touch the objects of the
\* pool are the swap and the walk: neither makes a key available.
LEMMA NobodyRevives ==
    ASSUME PoolInv, NEW k \in PoolKeys, OutOfService(k), Pool!InPool(k)', Pool!Available(heap[gen][k])',
           [Pool!Next]_Pool!vars
    PROVE  \/ \E r \in Requests : flight[r] = [key |-> k, gen |-> gen] /\ (Pool!Succeeds(r) \/ Pool!Fails(r))
           \/ Pool!Reactivate(k) \/ Pool!Restart
           \/ heap[gen][k].status # "invalid" /\ Pool!Tick
<1>0. /\ heap \in [0..MaxReloads -> [PoolKeys -> HealthRec]] /\ gen \in 0..MaxReloads
      /\ heap[gen][k] \in HealthRec
  <2>1. heap \in [0..MaxReloads -> [PoolKeys -> HealthRec]] /\ gen \in 0..MaxReloads BY DEF PoolInv, PoolTyped
  <2> QED BY <2>1
<1>1. /\ heap[gen][k].cool \in Nat
      /\ heap[gen][k].status = "invalid" \/ heap[gen][k].cool > 0
      /\ heap[gen][k] # Pool!NoKey /\ heap[gen][k].status # "healthy"
  BY <1>0, HealthIs DEF OutOfService, Pool!InPool, Pool!Available
<1>2. ~Pool!Available(heap[gen][k]) BY DEF OutOfService
<1>3. ~(heap' = heap /\ gen' = gen) BY <1>2
<1>4. ASSUME NEW l \in Reloaders, Pool!Swap(l) PROVE FALSE
  <2> DEFINE f == Pool!Loaded(loads[l].health, loads[l].rows)
  <2>1. gen + 1 \in 0..MaxReloads BY <1>0, <1>4, SwapKeeps
  <2>2. gen' = gen + 1 /\ heap'[gen + 1] = Pool!Merged(f) BY <1>0, <1>4, <2>1 DEF Pool!Swap
  <2> HIDE DEF f
  <2>3. heap'[gen'][k] = Pool!NoKey \/ heap'[gen'][k] = Pool!Keep(f[k], heap[gen][k])
    BY <2>2 DEF Pool!Merged
  <2>4. Pool!Keep(f[k], heap[gen][k]) = heap[gen][k] BY <1>1 DEF Pool!Keep
  <2>5. heap'[gen'][k] # Pool!NoKey BY DEF Pool!InPool, Pool!NoKey
  <2> QED BY <1>2, <2>3, <2>4, <2>5
<1>5. ASSUME Pool!Walk PROVE FALSE
  <2>1. PICK j \in PoolKeys :
           LET h == Pool!Normalized(heap[round.gen][j])
           IN  /\ round.gen \in 0..MaxReloads /\ heap[round.gen][j] \in HealthRec
               /\ h \in HealthRec /\ Pool!Fingerprint(h) \in RowRec
               /\ heap' = [heap EXCEPT ![round.gen][j] = h]
               /\ \/ round' = [round EXCEPT !.todo = @ \ {j}]
                  \/ round' = [round EXCEPT !.at = "save", !.fp = Pool!Fingerprint(h)]
    BY <1>5, WalkIs
  <2>2. gen' = gen BY <1>5 DEF Pool!Walk
  <2>3. heap'[gen][k] = heap[gen][k] \/ heap'[gen][k] = Pool!Normalized(heap[gen][k]) BY <1>0, <2>1
  <2>4. ~Pool!Available(Pool!Normalized(heap[gen][k])) BY <1>0, <1>2, NormalizedIs DEF Pool!Available
  <2> QED BY <1>2, <2>2, <2>3, <2>4
<1>6. ASSUME NEW j \in PoolKeys, Pool!Reactivate(j), j # k PROVE FALSE
  <2>1. heap' = [heap EXCEPT ![gen][j] = Pool!Fresh] /\ gen' = gen BY <1>6 DEF Pool!Reactivate
  <2>2. heap'[gen][k] = heap[gen][k] BY <1>0, <1>6, <2>1
  <2> QED BY <1>2, <2>1, <2>2
<1>7. ASSUME \/ UNCHANGED Pool!vars
             \/ \E r \in Requests : Pool!Dispatch(r)
             \/ \E j \in PoolKeys : Pool!EditRow(j)
             \/ \E l \in Reloaders : Pool!BeginReload(l) \/ Pool!ReadRows(l) \/ Pool!ReloadFails(l)
             \/ \E full \in BOOLEAN : Pool!Wake(full)
             \/ Pool!ReadBack \/ Pool!RoundEnds
             \/ \E done, ok \in BOOLEAN : Pool!Save(done, ok)
      PROVE  FALSE
  <2>1. heap' = heap /\ gen' = gen
    BY <1>7 DEF Pool!vars, Pool!Dispatch, Pool!EditRow, Pool!BeginReload, Pool!ReadRows, Pool!ReloadFails,
                Pool!Wake, Pool!ReadBack, Pool!RoundEnds, Pool!Save
  <2> QED BY <1>3, <2>1
<1>8. ASSUME NEW r \in Requests, flight[r] # [key |-> k, gen |-> gen], Pool!Succeeds(r) \/ Pool!Fails(r) PROVE FALSE
  <2>1. flight[r] \in [key : Nat, gen : 0..MaxReloads] BY DEF PoolInv, PoolTyped
  <2>2. flight[r].gen # gen \/ flight[r].key # k BY <1>8, <2>1
  <2>3. gen' = gen /\ \E h : heap' = [heap EXCEPT ![flight[r].gen][flight[r].key] = h]
    BY <1>8 DEF Pool!Succeeds, Pool!Fails, Pool!Mark
  <2>4. heap'[gen][k] = heap[gen][k] BY <1>0, <2>1, <2>2, <2>3
  <2> QED BY <1>2, <2>3, <2>4
<1>9. ASSUME heap[gen][k].status = "invalid", Pool!Tick PROVE FALSE
  <2>1. gen' = gen /\ heap'[gen][k] = Pool!Down(heap[gen][k]) BY <1>0, <1>9 DEF Pool!Tick, Pool!DownAll
  <2>2. Pool!Down(heap[gen][k]).status = "invalid"
    <3>1. heap[gen][k] \in Pool!Health BY <1>0, <1>1 DEF HealthRec
    <3> QED BY <1>9, <3>1 DEF Pool!Down, Pool!Health
  <2> QED BY <2>1, <2>2 DEF Pool!Available
<1> QED BY <1>4, <1>5, <1>6, <1>7, <1>8, <1>9 DEF Pool!Next

\* As long as the pools have it, a key that a failure took out of service comes back by the
\* answer of a request on this object, by the administrator, at a restart or, unless it is
\* invalid, with time: never by a swap, however old what its reload read, or a snapshot round.
THEOREM OutStaysOutAlways == Pool!Spec => OutStaysOut
<1>1. Pool!Init => PoolInv
  <2> SUFFICES ASSUME Pool!Init PROVE PoolInv OBVIOUS
  <2> USE DEF Pool!Init
  <2>1. Pool!Fresh \in HealthRec /\ Pool!NoKey \in HealthRec
    BY DEF Pool!Fresh, HealthRec, Pool!Health, Pool!MaxLevel
  <2>2. heap \in [0..MaxReloads -> [PoolKeys -> HealthRec]] BY <2>1
  <2>3. saved \in [PoolKeys -> RowRec] /\ listed \subseteq PoolKeys BY DEF RowRec
  <2>4. Pool!Idle \in LoadRec /\ Pool!Idle.at = "idle" BY DEF Pool!Idle, LoadRec, RowRec
  <2>5. loads \in [Reloaders -> LoadRec] /\ Reloading = {} BY <2>4 DEF Reloading
  <2>6. round \in RoundRec BY DEF Pool!Asleep, RoundRec, RowRec
  <2>7. flight \in [Requests -> [key : Nat, gen : 0..MaxReloads]] BY DEF Pool!Free
  <2>8. gen = 0 /\ used.reloads = 0 /\ used \in [calls : Nat, reloads : Nat, edits : Nat, faults : Nat] OBVIOUS
  <2>9. IsFiniteSet(Reloading) /\ Cardinality(Reloading) = 0 BY <2>5, FS_EmptySet
  <2>10. PoolTyped BY <2>2, <2>3, <2>5, <2>6, <2>7, <2>8 DEF PoolTyped
  <2>11. RoomToReload BY <2>8, <2>9 DEF RoomToReload
  <2> QED BY <2>10, <2>11 DEF PoolInv
<1>2. PoolInv /\ [Pool!Next]_Pool!vars =>
        [\A k \in PoolKeys :
            /\ Pool!InPool(k) /\ ~Pool!Available(heap[gen][k]) /\ heap[gen][k].status # "healthy"
            /\ Pool!InPool(k)' /\ Pool!Available(heap[gen][k])'
            => \/ \E r \in Requests : flight[r] = [key |-> k, gen |-> gen] /\ (Pool!Succeeds(r) \/ Pool!Fails(r))
               \/ Pool!Reactivate(k) \/ Pool!Restart
               \/ heap[gen][k].status # "invalid" /\ Pool!Tick]_Pool!vars
  <2> SUFFICES ASSUME PoolInv, [Pool!Next]_Pool!vars, NEW k \in PoolKeys,
                      Pool!InPool(k), ~Pool!Available(heap[gen][k]), heap[gen][k].status # "healthy",
                      Pool!InPool(k)', Pool!Available(heap[gen][k])'
               PROVE  \/ \E r \in Requests : flight[r] = [key |-> k, gen |-> gen] /\ (Pool!Succeeds(r) \/ Pool!Fails(r))
                      \/ Pool!Reactivate(k) \/ Pool!Restart
                      \/ heap[gen][k].status # "invalid" /\ Pool!Tick
    BY Zenon
  <2>1. OutOfService(k) BY DEF OutOfService
  <2> QED BY <2>1, NobodyRevives
<1> QED BY <1>1, <1>2, PoolNext, PTL DEF Pool!Spec, OutStaysOut, Pool!OutStaysOut
===============================================================================
