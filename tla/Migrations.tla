------------------------------- MODULE Migrations ------------------------------
(***************************************************************************)
(* The versioned migrations that run when a store is created: the engine    *)
(* (MigrationRunner), the registry v001..v018, and the crash or exit of the  *)
(* process at any statement, after which it is started again.               *)
(*                                                                         *)
(* The database is the set of its objects, pairs <<table, column or index>>  *)
(* with <<t, "*">> for the table itself, and three facts about its rows:     *)
(* where the access tokens stand, whether tenants moved to workspace_id and  *)
(* whether the jobs of the old table moved to the new one.  Columns that one  *)
(* statement list always adds together are one object.                      *)
(***************************************************************************)
EXTENDS Integers, Sequences, SequencesExt

CONSTANTS
    Dialects,       \* the executors explored: "sqlite", "mysql", "d1"
    Databases,      \* the databases a start may find
    MaxCrashes      \* bound on the crashes and failed starts

VARIABLES
    dialect,
    disk,       \* the database as committed
    work,       \* as the migration's connection sees it
    open,       \* an explicit transaction is open
    phase,      \* where the runner stands
    legacy,     \* legacy_database
    todo,       \* statements left of the current migration
    crashes

vars == <<dialect, disk, work, open, phase, legacy, todo, crashes>>

(***************************************************************************)
(* Statements                                                               *)
(***************************************************************************)
Head1(t) == <<t, "*">>
Cols(t, cs) == {<<t, c>> : c \in cs}
TABLE(t, cs) == [op |-> "table", needs |-> {}, adds |-> {Head1(t)} \cup Cols(t, cs)]
COLUMN(t, c) == [op |-> "add", needs |-> {Head1(t)}, adds |-> {<<t, c>>}]
INDEX(t, i, cs) == [op |-> "add", needs |-> {Head1(t)} \cup Cols(t, cs), adds |-> {<<t, i>>}]
DATA(op, t, cs) == [op |-> op, needs |-> {Head1(t)} \cup Cols(t, cs), adds |-> {}]

\* v001: the core tables; the columns of the former ad-hoc ALTERs.
V001Tables ==
    << TABLE("models", {"basic"}), TABLE("model_groups", {}), TABLE("request_logs", {"ts", "model"}),
       TABLE("access_tokens", {"token", "quota"}), TABLE("key_health", {}), TABLE("system_config", {}) >>
V001Alters ==
    << COLUMN("models", "basic"), COLUMN("request_logs", "protocol"), COLUMN("access_tokens", "quota"),
       COLUMN("request_logs", "cost") >>
V001Indexes == << INDEX("request_logs", "idx_logs", {"ts", "model"}) >>

\* v003: SQLite rebuilds access_tokens, MySQL alters it in place.
TokenColumns == {"token_hash", "rotation", "revoked", "nullable"}
V003Rebuild ==
    << [op |-> "scratch", needs |-> {}, adds |-> {}], DATA("copy", "access_tokens", {"token", "quota"}),
       DATA("drop", "access_tokens", {}), [op |-> "rename", needs |-> {}, adds |-> {}] >>
V003Alters ==
    << COLUMN("access_tokens", "token_hash"), COLUMN("access_tokens", "rotation"),
       COLUMN("access_tokens", "revoked"), COLUMN("access_tokens", "nullable") >>

\* v004: the tables of the response store, of which three stand for eight.
StoreTables == <<"responses", "response_events", "tool_executions">>
V004Tables ==
    [i \in 1..3 |-> TABLE(StoreTables[i], {"workspace_id", "expires_at"})]
    \o << TABLE("background_jobs", {"workspace_id", "expires_at"}),
          TABLE("idempotency_records", {"expires_at"}) >>
WsIndexes == [i \in 1..3 |-> INDEX(StoreTables[i], "idx_ws", {"workspace_id"})]
ExpiryIndexes == [i \in 1..3 |-> INDEX(StoreTables[i], "idx_expires", {"expires_at"})]
V004Indexes == WsIndexes \o ExpiryIndexes \o << INDEX("background_jobs", "idx_bt_ws", {"workspace_id"}) >>
WithoutWsIndexes(s) == SelectSeq(s, LAMBDA x : \A o \in x.adds : o[2] \notin {"idx_ws", "idx_bt_ws"})

V005 == << COLUMN("models", "capabilities") >>
V006 ==
    << COLUMN("tool_executions", "workspace_id"), COLUMN("tool_executions", "expires_at"),
       COLUMN("tool_executions", "tool_seq"), INDEX("tool_executions", "idx_te_seq", {"tool_seq"}),
       INDEX("tool_executions", "idx_te_approval", {"workspace_id"}) >>

\* v007: missing columns, tables and indexes of databases with the first v004.
V007Columns ==
    [i \in 1..6 |-> COLUMN(StoreTables[(i + 1) \div 2], IF i % 2 = 1 THEN "workspace_id" ELSE "expires_at")]
V007Tables ==
    << TABLE("background_jobs", {"workspace_id", "expires_at"}), TABLE("idempotency_records", {"expires_at"}) >>
V007 == V007Columns \o V007Tables \o V004Indexes

V008 == << TABLE("route_bindings", {"expires_at"}), INDEX("route_bindings", "idx_rb", {"expires_at"}) >>
V009 == << COLUMN("models", "fingerprint") >>
V010 == << COLUMN("access_tokens", "token_cipher") >>
V011 == << COLUMN("models", "exposed"), COLUMN("model_groups", "exposed") >>
V012 == << COLUMN("models", "reasoning_effort") >>
V013 == << COLUMN("models", "reasoning_map") >>
V014 == << COLUMN("models", "tag"), COLUMN("models", "note") >>
V015 == << COLUMN("model_groups", "fallback_group") >>
V016 == << INDEX("access_tokens", "idx_prefix", {"token_hash"}) >>
V017 == << INDEX("background_jobs", "idx_claim", {}) >>
V018 == << COLUMN("key_health", "failure_class"), COLUMN("key_health", "last_failure_at") >>

\* The Python hooks, as the data statements they run.
Backfill == [i \in 1..3 |-> DATA("backfill", StoreTables[i], {"workspace_id"})]
Hook(v, d) ==
    CASE v = 3 -> << DATA("hash", "access_tokens", {"token_hash"}) >>
      [] v = 7 -> Backfill \o << DATA("jobs", "background_jobs", {}) >>
      [] v = 16 /\ d = "mysql" -> << DATA("dropindex", "access_tokens", {}) >>
      [] OTHER -> <<>>

Versions == {1} \cup 3..18
Probe(v) ==
    CASE v \in {1, 5, 9, 11, 12, 13, 14} -> "models" [] v \in {3, 10} -> "access_tokens"
      [] v = 4 -> "responses" [] v = 6 -> "tool_executions" [] v = 8 -> "route_bindings"
      [] v = 15 -> "model_groups" [] OTHER -> ""

\* Migration.statements and the hook after them.
Statements(v, d) ==
    LET sql == CASE v = 1 -> V001Tables \o V001Indexes \o V001Alters
                 [] v = 3 -> IF d = "mysql" THEN V003Alters ELSE V003Rebuild
                 [] v = 4 -> V004Tables \o V004Indexes
                 [] v = 5 -> V005 [] v = 6 -> V006 [] v = 7 -> V007 [] v = 8 -> V008
                 [] v = 9 -> V009 [] v = 10 -> V010 [] v = 11 -> V011 [] v = 12 -> V012
                 [] v = 13 -> V013 [] v = 14 -> V014 [] v = 15 -> V015 [] v = 16 -> V016
                 [] v = 17 -> V017 [] v = 18 -> V018
    IN  sql \o Hook(v, d)

\* Mutant: a baseline of v001 that only repairs the tables it finds.
BaselineRepairs(v, d) ==
    IF v = 1 THEN V001Alters \o V001Indexes ELSE Statements(v, d)

\* Migration.baseline_statements: the same but for v001's order and v004's indexes.
BaselineStatements(v, d) ==
    CASE v = 1 -> V001Tables \o V001Alters \o V001Indexes
      [] v = 4 -> WithoutWsIndexes(Statements(4, d))
      [] OTHER -> Statements(v, d)

(***************************************************************************)
(* The databases a start may find                                           *)
(***************************************************************************)
Empty == [objects |-> {}, versions |-> {}, table |-> FALSE, scratch |-> "none", drifted |-> {},
          tokens |-> "none", tenants |-> "none", jobs |-> "none"]

\* From before the engine: core tables with plaintext tokens, some columns
\* and one table missing.
LegacyObjects ==
    {Head1(t) : t \in {"models", "model_groups", "request_logs", "access_tokens", "key_health"}}
    \cup {<<"request_logs", "ts">>, <<"request_logs", "model">>, <<"access_tokens", "token">>}

\* The response store as the first v004 made it: no workspace_id, no expires_at.
OldStoreObjects == {Head1(t) : t \in {"responses", "response_events", "tool_executions"}}

Database(kind) ==
    CASE kind = "fresh" -> Empty
      [] kind = "legacy" -> [Empty EXCEPT !.objects = LegacyObjects, !.tokens = "plain"]
      [] kind = "rewritten" ->
            [Empty EXCEPT !.objects = LegacyObjects \cup OldStoreObjects \cup {Head1("system_config")}
                                      \cup UNION {V001Alters[i].adds : i \in DOMAIN V001Alters}
                                      \cup Cols("access_tokens", TokenColumns)
                                      \cup UNION {V006[i].adds : i \in DOMAIN V006}
                                      \cup {<<"models", "capabilities">>, <<"request_logs", "idx_logs">>},
                          !.versions = {1, 3, 4, 5, 6}, !.table = TRUE, !.tokens = "hashed",
                          !.tenants = "old", !.jobs = "old"]
      \* schema_migrations is missing beside a response store in its present form,
      \* or in the form of the first v004
      [] kind = "unversioned" ->
            [Empty EXCEPT !.objects = LegacyObjects \cup UNION {V004Tables[i].adds : i \in DOMAIN V004Tables},
                          !.tokens = "plain"]
      [] kind = "outdated" ->
            [Empty EXCEPT !.objects = LegacyObjects \cup OldStoreObjects, !.tokens = "plain",
                          !.tenants = "old", !.jobs = "old"]

TypeOK ==
    /\ dialect \in Dialects /\ open \in BOOLEAN /\ legacy \in BOOLEAN
    /\ phase \in {"down", "prepare", "next", "run", "ready", "refused"}
    /\ disk.versions \subseteq Versions /\ work.versions \subseteq Versions
    /\ crashes \in 0..MaxCrashes

AtRest == phase = "ready" /\ dialect = "sqlite" /\ disk = Empty /\ work = Empty /\ open = FALSE /\ legacy = FALSE
          /\ todo = <<>> /\ crashes = 0

\* D1 databases are created empty.
Init ==
    /\ dialect \in Dialects
    /\ \E k \in Databases : (dialect = "d1" => k = "fresh") /\ disk = Database(k)
    /\ work = disk /\ open = FALSE /\ phase = "down" /\ legacy = FALSE /\ todo = <<>> /\ crashes = 0

(***************************************************************************)
(* One statement                                                            *)
(***************************************************************************)
DataOps == {"copy", "backfill", "jobs", "hash"}

\* A missing table or column is an error; so is CREATE TABLE of the scratch
\* table when it is there.  Duplicate columns and indexes are ignorable.
Fails(db, s) ==
    \/ ~ (s.needs \subseteq db.objects) /\ s.op # "backfill"
    \/ s.op = "scratch" /\ db.scratch # "none"
    \/ s.op = "copy" /\ db.scratch = "none"
    \/ s.op = "rename" /\ (db.scratch = "none" \/ Head1("access_tokens") \in db.objects)

Effect(db, s) ==
    CASE s.op = "table" -> IF \E o \in s.adds : o[2] = "*" /\ o \in db.objects THEN db
                           ELSE [db EXCEPT !.objects = @ \cup s.adds]
      [] s.op = "add" -> [db EXCEPT !.objects = @ \cup s.adds]
      [] s.op = "scratch" -> [db EXCEPT !.scratch = "empty"]
      [] s.op = "copy" -> [db EXCEPT !.scratch = "copied"]
      [] s.op = "drop" -> [db EXCEPT !.objects = {o \in @ : o[1] # "access_tokens"}]
      [] s.op = "rename" ->
            [db EXCEPT !.objects = @ \cup {Head1("access_tokens"), <<"access_tokens", "token">>,
                                           <<"access_tokens", "quota">>}
                                     \cup Cols("access_tokens", TokenColumns),
                       !.tokens = IF db.scratch = "copied" THEN @ ELSE "lost", !.scratch = "none"]
      [] s.op = "hash" -> [db EXCEPT !.tokens = IF @ = "plain" THEN "hashed" ELSE @]
      [] s.op = "backfill" -> [db EXCEPT !.tenants = IF @ = "old" THEN "moved" ELSE @]
      [] s.op = "jobs" -> [db EXCEPT !.jobs = IF @ = "old" THEN "moved" ELSE @]
      [] OTHER -> db

\* What is on disk after a statement: SQLite keeps it in the transaction, MySQL
\* commits at every DDL and, without a transaction, at every statement; D1 has
\* no transactions.
Kept(s) == dialect = "d1" \/ (dialect = "mysql" /\ (~open \/ s.op \notin DataOps)) \/ ~open

(***************************************************************************)
(* The runner                                                               *)
(***************************************************************************)
Pending(db) == Versions \ db.versions
First(db) == CHOOSE v \in Pending(db) : \A u \in Pending(db) : v <= u
Exists(db, t) == t # "" /\ Head1(t) \in db.objects

\* run_all, up to the backup: drift is flagged and committed, nothing pending
\* means ready.  A database whose v004 was the first one is drifted.
Survey ==
    /\ phase = "down"
    /\ disk' = [disk EXCEPT !.drifted = IF disk.tenants # "none" THEN disk.versions \cap {4} ELSE @]
    /\ work' = disk'
    /\ phase' = IF Pending(disk) = {} THEN "ready" ELSE "prepare"
    /\ UNCHANGED <<dialect, open, legacy, todo, crashes>>

\* The backup, the version table and the one probe for a pre-existing database.
Prepare ==
    /\ phase = "prepare"
    /\ disk' = [disk EXCEPT !.table = TRUE] /\ work' = disk'
    /\ legacy' = (~disk.table /\ Exists(disk, Probe(First(disk))))
    /\ phase' = "next"
    /\ UNCHANGED <<dialect, open, todo, crashes>>

Baseline(v) == legacy /\ Exists(work, Probe(v))

\* _run_one: BEGIN.
Begin ==
    /\ phase = "next" /\ Pending(work) # {}
    /\ todo' = (IF Baseline(First(work)) THEN BaselineStatements(First(work), dialect)
                ELSE Statements(First(work), dialect))
    /\ open' = (dialect # "d1") /\ phase' = "run"
    /\ UNCHANGED <<dialect, disk, work, legacy, crashes>>

\* One statement or one step of the hook; an error rolls back and ends the
\* process (run_migrations_or_exit).
Execute ==
    /\ phase = "run" /\ todo # <<>>
    /\ IF Fails(work, Head(todo))
       THEN /\ phase' = "refused" /\ work' = disk /\ open' = FALSE /\ todo' = <<>>
            /\ UNCHANGED disk
       ELSE /\ work' = Effect(work, Head(todo))
            /\ disk' = IF Kept(Head(todo)) THEN work' ELSE disk
            /\ open' = (open /\ ~ (dialect = "mysql" /\ Head(todo).op \notin DataOps))
            /\ todo' = Tail(todo)
            /\ UNCHANGED phase
    /\ UNCHANGED <<dialect, legacy, crashes>>

\* The row of schema_migrations, and COMMIT.
Record ==
    /\ phase = "run" /\ todo = <<>>
    /\ work' = [work EXCEPT !.versions = @ \cup {First(work)}]
    /\ disk' = work' /\ open' = FALSE /\ phase' = "next"
    /\ UNCHANGED <<dialect, legacy, todo, crashes>>

Finish ==
    /\ phase = "next" /\ Pending(work) = {}
    /\ phase' = "ready"
    /\ UNCHANGED <<dialect, disk, work, open, legacy, todo, crashes>>

\* The process dies, or the backup or a lost connection makes it exit: it is
\* started again.  A refused start is repeated too.
Crash ==
    /\ phase \in {"prepare", "next", "run", "refused"} /\ crashes < MaxCrashes
    /\ crashes' = crashes + 1
    /\ phase' = "down" /\ work' = disk /\ open' = FALSE /\ legacy' = FALSE /\ todo' = <<>>
    /\ UNCHANGED <<dialect, disk>>

Next == Survey \/ Prepare \/ Begin \/ Execute \/ Record \/ Finish \/ Crash

Spec == Init /\ [][Next]_vars

(***************************************************************************)
(* Properties                                                               *)
(***************************************************************************)
AllObjects == UNION {UNION {s[i].adds : i \in DOMAIN s} : s \in {Statements(v, "mysql") : v \in Versions}}

\* A store that starts has every table, column and index of the registry, its
\* tokens hashed, its tenants and jobs moved, however often and wherever the
\* process died (R-P0-05: "refuse to start" rather than run on an unknown
\* schema).
ReadyMeansComplete ==
    phase = "ready" /\ disk.versions = Versions =>
        /\ AllObjects \subseteq disk.objects
        /\ disk.tokens \in {"none", "hashed"} /\ disk.tenants # "old" /\ disk.jobs # "old"
        /\ disk.scratch = "none"

\* On SQLite and MySQL no start is refused, neither for the database it found
\* nor for what a crash left of it.
NeverLockedOut == dialect # "d1" => phase # "refused"
=============================================================================
