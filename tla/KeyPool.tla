------------------------------- MODULE KeyPool -------------------------------
(***************************************************************************)
(* The pool of upstream keys of the proxy: admin edits of the catalogue,   *)
(* reload_keys replacing the KeyHealth objects under running requests, the *)
(* periodic snapshot of their health into key_health, and the restore of   *)
(* that snapshot when the process starts.                                  *)
(*                                                                         *)
(* Every reload builds new objects, so the pool is a list of generations:  *)
(* a request in flight and a snapshot round keep the objects they started  *)
(* with.  A step ends where the code awaits the database.  A cooldown is   *)
(* what is left of it, in ticks, in memory and in the database alike.      *)
(***************************************************************************)
EXTENDS KeyHealth, FiniteSets

CONSTANTS
    Keys,          \* ids of the rows of api_keys
    Requests,      \* requests that may be in flight at the same time
    Reloaders,     \* calls of /api/reload that may run at the same time
    MaxCalls,      \* bound: requests sent
    MaxReloads,    \* bound: reloads
    MaxEdits,      \* bound: admin edits and confirmations
    MaxFaults      \* bound: statements that fail and crashes of the process

VARIABLES
    listed,     \* ids of the rows of api_keys with enabled = 1
    saved,      \* key_health: the row of each key
    heap,       \* the KeyHealth objects of each generation
    gen,        \* the generation self._keys is
    baseline,   \* _health_last_saved
    loads,      \* what each reload has read so far
    round,      \* the snapshot round
    flight,     \* the object each request is using
    used        \* how much of each bound is used up

vars == <<listed, saved, heap, gen, baseline, loads, round, flight, used>>

NoRow == [status |-> "none", cool |-> 0]
NoKey == [status |-> "none", cool |-> 0, level |-> 0]

\* The persisted part of a health: the backoff level has no column.
Fingerprint(h) == [status |-> h.status, cool |-> h.cool]

InPool(k) == heap[gen][k] # NoKey

Spend(what) == used' = [used EXCEPT ![what] = @ + 1]

Idle == [at |-> "idle", health |-> [k \in Keys |-> NoRow], rows |-> {}]
Asleep == [at |-> "idle", gen |-> 0, todo |-> {}, truth |-> {}, fp |-> NoRow]
Free == [key |-> 0, gen |-> 0]

Init ==
    /\ listed = Keys
    /\ saved = [k \in Keys |-> NoRow]
    /\ heap = [g \in 0..MaxReloads |-> [k \in Keys |-> IF g = 0 THEN Fresh ELSE NoKey]]
    /\ gen = 0
    /\ baseline = [k \in Keys |-> NoRow]
    /\ loads = [l \in Reloaders |-> Idle]
    /\ round = Asleep
    /\ flight = [r \in Requests |-> Free]
    /\ used = [calls |-> 0, reloads |-> 0, edits |-> 0, faults |-> 0]

\* No pool at all, and no snapshot loop.
AtRest ==
    /\ listed = {} /\ saved = [k \in Keys |-> NoRow] /\ gen = 0
    /\ heap = [g \in 0..MaxReloads |-> [k \in Keys |-> NoKey]]
    /\ baseline = [k \in Keys |-> NoRow] /\ loads = [l \in Reloaders |-> Idle]
    /\ round = [Asleep EXCEPT !.at = "off"]
    /\ flight = [r \in Requests |-> Free]
    /\ used = [calls |-> MaxCalls, reloads |-> MaxReloads, edits |-> MaxEdits, faults |-> MaxFaults]

---------------------------------------------------------------------------
(* Requests *)

\* pick_key: an available key of the pool as it is now.
Dispatch(r) ==
    /\ flight[r] = Free
    /\ used.calls < MaxCalls
    /\ \E k \in Keys : /\ InPool(k)
                       /\ Available(heap[gen][k])
                       /\ flight' = [flight EXCEPT ![r] = [key |-> k, gen |-> gen]]
    /\ Spend("calls")
    /\ UNCHANGED <<listed, saved, heap, gen, baseline, loads, round>>

\* The mark goes to the object the request picked, of whatever generation.
Mark(r, outcomes) ==
    /\ flight[r] # Free
    /\ \E h \in outcomes : heap' = [heap EXCEPT ![flight[r].gen][flight[r].key] = h]
    /\ flight' = [flight EXCEPT ![r] = Free]
    /\ UNCHANGED <<listed, saved, gen, baseline, loads, round, used>>

Object(r) == heap[flight[r].gen][flight[r].key]

Succeeds(r) == flight[r] # Free /\ Mark(r, Served(Object(r)))

Fails(r) ==
    /\ flight[r] # Free
    /\ Mark(r, Classified(Object(r), Cardinality({k \in Keys : InPool(k)}) = 1))

---------------------------------------------------------------------------
(* The admin *)

\* The rows after update_key switched the key, after create_key or delete_key.
Edited(k) == IF k \in listed THEN listed \ {k} ELSE listed \cup {k}

\* create, update and delete of a key: the notification that follows is BeginReload.
EditRow(k) ==
    /\ used.edits < MaxEdits
    /\ listed' = Edited(k)
    /\ Spend("edits")
    /\ UNCHANGED <<saved, heap, gen, baseline, loads, round, flight>>

\* reactivate_key: in memory only, on the pool as it is now.
Reactivate(k) ==
    /\ used.edits < MaxEdits
    /\ InPool(k)
    /\ heap' = [heap EXCEPT ![gen][k] = Fresh]
    /\ Spend("edits")
    /\ UNCHANGED <<listed, saved, gen, baseline, loads, round, flight>>

---------------------------------------------------------------------------
(* reload_keys *)

\* normalize_expired_cooldown: invalid stays, so does the level.
Normalized(h) ==
    IF h.status \in {"error", "rate_limited"} /\ h.cool = 0 THEN [h EXCEPT !.status = "healthy"] ELSE h

\* The object _load_keys_from_store builds of a row of api_keys and its health.
Restored(row) ==
    IF row = NoRow THEN Fresh ELSE Normalized([status |-> row.status, cool |-> row.cool, level |-> 0])

Loaded(health, rows) == [k \in Keys |-> IF k \in rows THEN Restored(health[k]) ELSE NoKey]

BeginReload(l) ==
    /\ loads[l].at = "idle"
    /\ used.reloads < MaxReloads
    /\ loads' = [loads EXCEPT ![l].at = "rows", ![l].health = saved]
    /\ Spend("reloads")
    /\ UNCHANGED <<listed, saved, heap, gen, baseline, round, flight>>

ReadRows(l) ==
    /\ loads[l].at = "rows"
    /\ loads' = [loads EXCEPT ![l].at = "swap", ![l].rows = listed]
    /\ UNCHANGED <<listed, saved, heap, gen, baseline, round, flight, used>>

\* Mutant: a reload resets invalid keys, as it did before 2026-08-15.
KeepResets(new, old) ==
    IF old = NoKey THEN Fresh ELSE IF old.cool > 0 THEN old ELSE [new EXCEPT !.status = "healthy", !.cool = 0]

\* What a reload makes of a key it loaded, given the object the pool has now.
\* A healthy old object leaves the loaded one as it is.
Keep(new, old) ==
    IF old = NoKey THEN Fresh
    ELSE IF old.status = "invalid" \/ (old.status # "healthy" /\ old.cool > 0) THEN old
    ELSE new

Merged(fresh) == [k \in Keys |-> IF fresh[k] = NoKey THEN NoKey ELSE Keep(fresh[k], heap[gen][k])]

\* Objects nobody refers to are gone.
Reachable == {f.gen : f \in {flight[r] : r \in Requests} \ {Free}} \cup (IF round = Asleep THEN {} ELSE {round.gen})

Swap(l) ==
    /\ loads[l].at = "swap"
    /\ heap' = [g \in DOMAIN heap |->
                   IF g = gen + 1 THEN Merged(Loaded(loads[l].health, loads[l].rows))
                   ELSE IF g \in Reachable THEN heap[g] ELSE [k \in Keys |-> NoKey]]
    /\ gen' = gen + 1
    /\ loads' = [loads EXCEPT ![l] = Idle]
    /\ UNCHANGED <<listed, saved, baseline, round, flight, used>>

\* A read of the reload fails: the handler answers 500 and the pool is unchanged.
ReloadFails(l) ==
    /\ loads[l].at # "idle"
    /\ used.faults < MaxFaults
    /\ loads' = [loads EXCEPT ![l] = Idle]
    /\ Spend("faults")
    /\ UNCHANGED <<listed, saved, heap, gen, baseline, round, flight>>

---------------------------------------------------------------------------
(* The snapshot round *)

Reconciles(full) == full \/ baseline = [k \in Keys |-> NoRow]

\* _health_snapshot_loop: every _HEALTH_FULL_SYNC_EVERY-th round is a full one.
Wake(full) ==
    /\ round.at = "idle"
    /\ round' = [Asleep EXCEPT !.at = IF Reconciles(full) THEN "read" ELSE "walk",
                               !.gen = gen, !.todo = {k \in Keys : InPool(k)}]
    /\ UNCHANGED <<listed, saved, heap, gen, baseline, loads, flight, used>>

\* load_all_health: when it fails the round compares with the baseline.
ReadBack ==
    /\ round.at = "read"
    /\ \/ round' = [round EXCEPT !.at = "walk", !.truth = {saved}] /\ UNCHANGED used
       \/ used.faults < MaxFaults /\ round' = [round EXCEPT !.at = "walk"] /\ Spend("faults")
    /\ UNCHANGED <<listed, saved, heap, gen, baseline, loads, flight>>

\* Mutant: a full round trusts the baseline instead of the rows it read.
UpToDateTrusting(k, fp) == baseline[k] = fp

\* No write is due: the row read back, or the baseline, has the fingerprint.
UpToDate(k, fp) ==
    IF round.truth # {} THEN \A t \in round.truth : t[k] = fp ELSE baseline[k] = fp

First(ks) == CHOOSE k \in ks : \A j \in ks : k <= j

\* The next key of the round: its expired cooldown ends here.
Walk ==
    /\ round.at = "walk"
    /\ round.todo # {}
    /\ LET k == First(round.todo)
           h == Normalized(heap[round.gen][k])
       IN  /\ heap' = [heap EXCEPT ![round.gen][k] = h]
           /\ IF UpToDate(k, Fingerprint(h))
              THEN /\ round' = [round EXCEPT !.todo = @ \ {k}]
                   /\ baseline' = [baseline EXCEPT ![k] = Fingerprint(h)]
              ELSE round' = [round EXCEPT !.at = "save", !.fp = Fingerprint(h)] /\ UNCHANGED baseline
    /\ UNCHANGED <<listed, saved, gen, loads, flight, used>>

\* save_health: done, refused, or done and reported as failed.  The baseline
\* moves only with a success; the round goes on either way.
Save(done, ok) ==
    /\ round.at = "save"
    /\ LET k == First(round.todo)
       IN  /\ round' = [round EXCEPT !.at = "walk", !.todo = @ \ {k}, !.fp = NoRow]
           /\ saved' = IF done THEN [saved EXCEPT ![k] = round.fp] ELSE saved
           /\ baseline' = IF ok THEN [baseline EXCEPT ![k] = round.fp] ELSE baseline
    /\ IF ok THEN done /\ UNCHANGED used ELSE used.faults < MaxFaults /\ Spend("faults")
    /\ UNCHANGED <<listed, heap, gen, loads, flight>>

RoundEnds ==
    /\ round.at = "walk" /\ round.todo = {}
    /\ round' = Asleep
    /\ UNCHANGED <<listed, saved, heap, gen, baseline, loads, flight, used>>

---------------------------------------------------------------------------
(* Time, crashes *)

Down(r) == [r EXCEPT !.cool = IF @ > 0 THEN @ - 1 ELSE 0]
DownAll(f) == [k \in Keys |-> Down(f[k])]

Tick ==
    /\ \E k \in Keys : saved[k].cool > 0 \/ \E g \in DOMAIN heap : heap[g][k].cool > 0
    /\ saved' = DownAll(saved)
    /\ heap' = [g \in DOMAIN heap |-> DownAll(heap[g])]
    /\ baseline' = DownAll(baseline)
    /\ loads' = [l \in Reloaders |-> [loads[l] EXCEPT !.health = DownAll(@)]]
    /\ round' = [round EXCEPT !.truth = {DownAll(t) : t \in @}, !.fp = Down(@)]
    /\ UNCHANGED <<listed, gen, flight, used>>

\* The process stops and starts again: the pool is what the database holds, or, when
\* _startup_db_safe gives up on the load, without any row (the key of the
\* environment that serves then has the id 0, which no reload and no row knows).
Restart ==
    /\ used.faults < MaxFaults
    /\ \E rows \in {listed, {}} :
          heap' = [g \in DOMAIN heap |-> IF g = used.reloads THEN Loaded(saved, rows) ELSE [k \in Keys |-> NoKey]]
    /\ gen' = used.reloads
    /\ baseline' = [k \in Keys |-> NoRow]
    /\ loads' = [l \in Reloaders |-> Idle]
    /\ round' = Asleep
    /\ flight' = [r \in Requests |-> Free]
    /\ Spend("faults")
    /\ UNCHANGED <<listed, saved>>

Next ==
    \/ \E r \in Requests : Dispatch(r) \/ Succeeds(r) \/ Fails(r)
    \/ \E k \in Keys : EditRow(k) \/ Reactivate(k)
    \/ \E l \in Reloaders : BeginReload(l) \/ ReadRows(l) \/ Swap(l) \/ ReloadFails(l)
    \/ Wake(TRUE) \/ Wake(FALSE) \/ ReadBack \/ Walk
    \/ Save(TRUE, TRUE) \/ Save(FALSE, FALSE) \/ Save(TRUE, FALSE)
    \/ RoundEnds
    \/ Tick \/ Restart

Spec == Init /\ [][Next]_vars

\* The loop never ends while the process runs and every n-th round is a full one.
Fairness ==
    /\ SF_vars(Wake(TRUE))
    /\ WF_vars(ReadBack) /\ WF_vars(Walk) /\ WF_vars(RoundEnds)
    /\ WF_vars(Save(TRUE, TRUE))

FairSpec == Spec /\ Fairness

---------------------------------------------------------------------------
(* Properties *)

TypeOK ==
    /\ listed \subseteq Keys
    /\ heap \in [0..MaxReloads -> [Keys -> Health \cup {NoKey}]]
    /\ gen \in 0..MaxReloads
    /\ \A k \in Keys : saved[k] # NoRow => saved[k].status \in {"healthy", "rate_limited", "invalid", "error"}

\* A key that a failure took out of service (invalid, or in its cooldown) comes back
\* only by the answer of a request on this very object, by the admin's confirmation,
\* at a restart or, unless it is invalid, with time.  As long as the pools have the
\* key, no swap built from rows and health read earlier, by one of several reloads
\* under way, revives it, and no snapshot round does (Keep, Normalized).  A key that
\* one reload dropped and a later swap brings in again is new to the pool and not
\* covered: see InvalidStaysInvalid.
OutStaysOut ==
    [][\A k \in Keys :
          /\ InPool(k) /\ ~Available(heap[gen][k]) /\ heap[gen][k].status # "healthy"
          /\ InPool(k)' /\ Available(heap[gen][k])'
          => \/ \E r \in Requests : flight[r] = [key |-> k, gen |-> gen] /\ (Succeeds(r) \/ Fails(r))
             \/ Reactivate(k) \/ Restart
             \/ heap[gen][k].status # "invalid" /\ Tick]_vars

\* reload_keys: an invalid key stays invalid through a reload, "only a restart of the
\* service or the administrator's confirmation" makes it healthy.  Here: a swap does not
\* put a key into service that key_health, as this reload read it, has as invalid.  The
\* code does not keep to it: a key that is not in the pool is swapped in fresh.
InvalidStaysInvalid ==
    [][\A l \in Reloaders, k \in Keys :
          Swap(l) /\ k \in loads[l].rows /\ loads[l].health[k].status = "invalid"
          => ~Available(heap[gen][k])']_vars

\* Once requests and edits end, the database agrees with the pool for good: a
\* restart then restores what was known of every key.
SnapshotCatchesUp ==
    <>[](\A k \in Keys : InPool(k) => saved[k] = Fingerprint(heap[gen][k]))
==============================================================================
