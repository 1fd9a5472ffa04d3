---------------------------- MODULE AccessTokens ----------------------------
(***************************************************************************)
(* Access tokens of the proxy: the HMAC key every process agrees on, the   *)
(* issue, rotation and revocation of tokens, and the quota a request is    *)
(* admitted against and charged to when it ends.                           *)
(*                                                                         *)
(* The processes share the database and may run on different machines, so  *)
(* that their machine-bound salts differ; ZHONGZHUAN_TOKEN_HMAC_KEY is not *)
(* set.  A token is its row; its hash is the key it was made with.         *)
(***************************************************************************)
EXTENDS Integers, FiniteSets

CONSTANTS
    Processes,     \* processes on the same database; each is its own salt
    Tasks,         \* requests and admin calls
    Quota,         \* quota_tokens of every token
    Costs,         \* tokens a request may use
    MaxTokens,     \* bound: tokens issued
    MaxFaults      \* bound: statements that fail

VARIABLES
    config,     \* system_config['token_hmac_key'], NoKey when there is no row
    cache,      \* the key memoised by each process
    tokens,     \* access_tokens
    issued,     \* rows of access_tokens so far
    task,       \* what each task is doing
    faults      \* statements that failed

vars == <<config, cache, tokens, issued, task, faults>>

NoKey == "no key"
NoToken == [hash |-> NoKey, enabled |-> FALSE, revoked |-> FALSE, used |-> 0, of |-> 0]

\* A task: pc, its process, the row it works on, the copy of it and what follows.
Unborn == [pc |-> "new", proc |-> NoKey, token |-> 0, copy |-> NoToken, then |-> "none"]

\* An empty database, or one with a token an earlier process issued.
Init ==
    /\ cache = [p \in Processes |-> NoKey]
    /\ \/ config = NoKey /\ issued = 0 /\ tokens = [i \in 1..MaxTokens |-> NoToken]
       \/ /\ config \in Processes /\ issued = 1
          /\ tokens = [i \in 1..MaxTokens |-> IF i = 1 THEN [NoToken EXCEPT !.hash = config, !.enabled = TRUE] ELSE NoToken]
    /\ task = [t \in Tasks |-> Unborn]
    /\ faults = 0

\* Nothing to do.
AtRest ==
    /\ config = NoKey /\ cache = [p \in Processes |-> NoKey]
    /\ tokens = [i \in 1..MaxTokens |-> NoToken] /\ issued = 0
    /\ task = [t \in Tasks |-> [Unborn EXCEPT !.pc = "done"]] /\ faults = 0

At(t, pc) == task[t].pc = pc
Goto(t, pc) == task' = [task EXCEPT ![t].pc = pc]
Ends(t) == Goto(t, "done")

---------------------------------------------------------------------------
(* resolve_hmac_key *)

\* A process with the key in its memo goes on at once.
Cached(t) ==
    /\ At(t, "resolve") /\ cache[task[t].proc] # NoKey
    /\ Goto(t, task[t].then)
    /\ UNCHANGED <<config, cache, tokens, issued, faults>>

Memoise(t, key) ==
    /\ cache' = [cache EXCEPT ![task[t].proc] = key]
    /\ Goto(t, task[t].then)

\* _read_config_key: an error reads as no row.
ReadConfig(t) ==
    /\ At(t, "resolve") /\ cache[task[t].proc] = NoKey
    /\ \/ config # NoKey /\ Memoise(t, config) /\ UNCHANGED faults
       \/ config = NoKey /\ Goto(t, "write") /\ UNCHANGED <<cache, faults>>
       \/ config # NoKey /\ faults < MaxFaults /\ faults' = faults + 1 /\ Goto(t, "write") /\ UNCHANGED cache
    /\ UNCHANGED <<config, tokens, issued>>

\* _write_config_key: a row that is there already, or an error, is ignored.
WriteConfig(t) ==
    /\ At(t, "write")
    /\ \/ config' = (IF config = NoKey THEN task[t].proc ELSE config) /\ UNCHANGED faults
       \/ faults < MaxFaults /\ faults' = faults + 1 /\ UNCHANGED config
    /\ Goto(t, "reread")
    /\ UNCHANGED <<cache, tokens, issued>>

\* Mutant: the winner of the race is not read back.
RereadOwn(t) ==
    /\ At(t, "reread")
    /\ Memoise(t, task[t].proc)
    /\ UNCHANGED <<config, tokens, issued, faults>>

\* Another process may have won: the row decides, the own salt when there is none.
Reread(t) ==
    /\ At(t, "reread")
    /\ \/ Memoise(t, IF config = NoKey THEN task[t].proc ELSE config) /\ UNCHANGED faults
       \/ faults < MaxFaults /\ faults' = faults + 1 /\ Memoise(t, task[t].proc)
    /\ UNCHANGED <<config, tokens, issued>>

---------------------------------------------------------------------------
(* Admin calls *)

\* An UPDATE matches the row only while it is there.
SetToken(i, row) == tokens' = IF tokens[i] = NoToken THEN tokens ELSE [tokens EXCEPT ![i] = row]

Begin(t, p, i, pc, then) ==
    /\ At(t, "new")
    /\ task' = [task EXCEPT ![t] = [pc |-> pc, proc |-> p, token |-> i, copy |-> NoToken, then |-> then]]
    /\ UNCHANGED <<config, cache, tokens, issued, faults>>

BeginCreate(t, p) == Begin(t, p, 0, "resolve", "insert")

\* rotate_token reads the row first; a missing one ends the call.
BeginRotate(t, p, i) == tokens[i] # NoToken /\ Begin(t, p, i, "resolve", "insert")

\* create_token, on its own or as the first statement of a rotation.  The block
\* around a rotation is SqlStore's: its two statements are seen one after the other
\* here, as on SQLite, where each of them commits.  On TiDB others see both or
\* neither, so the states here include the ones seen there; a statement of a block
\* that fails is not modelled here.
Insert(t) ==
    /\ At(t, "insert")
    /\ issued < MaxTokens
    /\ issued' = issued + 1
    /\ tokens' = [tokens EXCEPT ![issued + 1] =
                     [hash |-> cache[task[t].proc], enabled |-> TRUE, revoked |-> FALSE,
                      used |-> 0, of |-> task[t].token]]
    /\ Goto(t, IF task[t].token = 0 THEN "done" ELSE "revoke")
    /\ UNCHANGED <<config, cache, faults>>

\* revoke_token: as the second statement of a rotation, or on its own.
Revoke(t) ==
    /\ At(t, "revoke")
    /\ SetToken(task[t].token, [tokens[task[t].token] EXCEPT !.enabled = FALSE, !.revoked = TRUE])
    /\ Ends(t)
    /\ UNCHANGED <<config, cache, issued, faults>>

BeginRevoke(t, p, i) == tokens[i] # NoToken /\ Begin(t, p, i, "revoke", "none")

\* update_token: the enabled switch.
Update(t, i) ==
    /\ At(t, "new")
    /\ SetToken(i, [tokens[i] EXCEPT !.enabled = ~@])
    /\ Ends(t)
    /\ UNCHANGED <<config, cache, issued, faults>>

\* delete_token.
Delete(t, i) ==
    /\ At(t, "new")
    /\ tokens' = [tokens EXCEPT ![i] = NoToken]
    /\ Ends(t)
    /\ UNCHANGED <<config, cache, issued, faults>>

---------------------------------------------------------------------------
(* Requests *)

\* The middleware reads the rows of the prefix; the comparison needs the key.
Lookup(t, p, i) ==
    /\ At(t, "new") /\ tokens[i] # NoToken
    /\ task' = [task EXCEPT ![t] = [pc |-> "resolve", proc |-> p, token |-> i, copy |-> tokens[i], then |-> "check"]]
    /\ UNCHANGED <<config, cache, tokens, issued, faults>>

\* check_quota, on the row the lookup read.
CheckQuota(row) == row.enabled /\ ~row.revoked /\ row.used < Quota

Matches(t) == task[t].copy.hash = cache[task[t].proc]

\* 401 when no hash matches, 403 or 429 when check_quota says no.
Check(t) ==
    /\ At(t, "check")
    /\ Goto(t, IF Matches(t) /\ CheckQuota(task[t].copy) THEN "serve"
               ELSE IF Matches(t) THEN "refused" ELSE "unknown")
    /\ UNCHANGED <<config, cache, tokens, issued, faults>>

\* _log_and_deduct when the answer has been sent: an error loses the charge.
Deduct(t) ==
    /\ At(t, "serve")
    /\ \E c \in Costs :
          \/ SetToken(task[t].token, [tokens[task[t].token] EXCEPT !.used = @ + c]) /\ UNCHANGED faults
          \/ faults < MaxFaults /\ faults' = faults + 1 /\ UNCHANGED tokens
    /\ Ends(t)
    /\ UNCHANGED <<config, cache, issued>>

Next ==
    \E t \in Tasks :
       \/ Cached(t) \/ ReadConfig(t) \/ WriteConfig(t) \/ Reread(t)
       \/ Insert(t) \/ Revoke(t) \/ Check(t) \/ Deduct(t)
       \/ \E i \in 1..MaxTokens : Update(t, i) \/ Delete(t, i)
       \/ \E p \in Processes :
             \/ BeginCreate(t, p)
             \/ \E i \in 1..MaxTokens :
                   BeginRotate(t, p, i) \/ BeginRevoke(t, p, i) \/ Lookup(t, p, i)

Spec == Init /\ [][Next]_vars

---------------------------------------------------------------------------
(* Properties *)

\* As long as no statement failed, every process hashes with the key every
\* token was issued under: no request is turned away as unknown because two
\* processes provisioned the key at the same time.
IssuedTokensVerify ==
    faults = 0 =>
       /\ \A p, q \in Processes : NoKey \in {cache[p], cache[q]} \/ cache[p] = cache[q]
       /\ \A t \in Tasks : ~At(t, "unknown")

\* A token that was revoked, or rotated out, when a request looked it up is
\* never served, even if update_token has switched it on again since.
RevokedStaysOut == \A t \in Tasks : At(t, "serve") => ~task[t].copy.revoked
=============================================================================
