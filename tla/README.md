# A TLA+ model of pgtriage

pgtriage is an MCP server that audits a PostgreSQL database without writing to
it. This directory models the parts of it whose correctness depends on order,
failure and concurrency, checks them with TLC on small instances and proves the
most important results with TLAPS for every instance. Paths below are relative
to the root of the repository.

## The system

One pgtriage process serves one MCP client over one asyncio loop. Tool calls are
tasks of that loop: they interleave at every `await`. A process owns one
PostgreSQL connection (`connection.py`) shared by all its tool calls, and opens
one SQLite file (`audit_runs.py`) shared by all pgtriage processes of the user,
whatever database each of them audits.

| component | state it keeps | operations | talks to |
|---|---|---|---|
| `AuditRunStore` (`audit_runs.py`) | one row per run ID: binding, status, result, two expiry times | `claim`, `complete`, `fail`, `get`, `delete`, cleanup inside `claim` and `get` | SQLite, the clock |
| `full_audit`, `get_audit_run` (`server.py`) | the calls in progress | the whole audit under one run ID; the lookup of a run | the store, the connection, the four section tools |
| `ConnectionManager` (`connection.py`) | the current connection | `connect`, `_ensure_connected`, `conn`, `fetch_all`, `fetch_one` | PostgreSQL through psycopg |
| EXPLAIN runners (`analyzers/explain.py`) | none of their own: transaction blocks, settings and a prepared statement on the session | `run_explain_analyze`, `_run_parameterized_explain`, `_run_prepared_generic_explain` | the connection |
| section tools (`server.py`) | none | `check_table_health`, `analyze_slow_queries`, `check_index_health`, `check_config` | collectors, analyzers |
| collectors (`collectors/`) | none | one catalog query each | the connection |
| analyzers (`analyzers/`, `models.py`) | none | findings from rows and plans; counting and sorting | none |
| SQL screening (`explain.py`) | none | `is_safe_to_explain` | none |

What is hard here:

* **The registry is shared and the clock moves.** Another process can expire,
  forget, delete or re-create a row between two statements of an audit; the
  audit takes an unknown time; a retry can race the first dispatch.
* **Failure at any await.** A process can die, a client can cancel
  (`CancelledError` is not an `Exception`), a registry write can be refused.
* **One session, many tasks.** Nothing serialises the transaction blocks of
  concurrent tool calls, and the connection can be lost under any of them.
* **Snapshots.** An audit's sections, and the queries of one section, see the
  database at different moments, and a client acts on a report later.

What must hold, per component:

* registry: an ID selects only the evidence of its own binding; a run follows
  the documented state model; no run is in progress for ever;
* `full_audit`: at most one execution per run; evidence is durable when it is
  returned; an error is on record;
* connection: every session in use is read-only; it is given back idle;
* EXPLAIN: it runs inside a transaction with its timeout set;
* index advice: a duplicate that a client drops on it is covered by a better
  index;
* slow-query tool: what is said of a schema is what a full report says of it, no
  text is explained more often than needed, and both passes agree;
* plan rules: a large scan is never hidden, whatever else fails;
* report: sorted, complete, and recorded if the audit went well;
* rules over statistics and settings: they do not contradict one another, follow
  deterioration, and what becomes of a finding is what its fix says.

## Modules

| module | models | role |
|---|---|---|
| `RunLifecycle` | the state model of `docs/audit-run-reconciliation.md`, for one ID | abstract specification |
| `AuditRunStore` | class `AuditRunStore` | the store's methods as actions with parameters |
| `FullAudit` | `full_audit`, `get_audit_run`, process life | composes processes and calls with the store; implements `RunLifecycle` |
| `FullAuditProofs`, `FullAuditLifecycleProofs` | | proofs about `FullAudit`, its refinement of `RunLifecycle` among them |
| `PgSession` | `ConnectionManager` and the EXPLAIN runners | tool calls on one session |
| `PgSessionProofs` | | proofs about `PgSession` |
| `IndexHealth` | unused and duplicate indexes in `check_index_health` | tool, database and client |
| `IndexHealthProofs` | | proofs about `IndexHealth` |
| `PlanWalk` | `detect_plan_issues`, `plan_references_schema` | operators on plans |
| `PlanWalkProofs` | | lemmas about lists and trees; theorems about a plan's findings |
| `SlowQueries` | `analyze_slow_queries` and its collectors | extends `PlanWalk`: one call, an action for each await |
| `AuditReport` | `_execute_full_audit`, `AuditResult.from_findings`, encoding | extends `SlowQueries`: a whole audit |
| `AuditReportProofs` | | proofs about `SlowQueries` and `AuditReport` |
| `TableHealth` | rules for dead tuples and vacuums | one table's statistics as they move |
| `TableScans` | rules for sequential scans, `TABLES_NEEDING_INDEXES_QUERY` | the scans of several tables, as there is one list of them |
| `ConfigRules` | `check_config`, `analyze_config` | a server, its clients and its operator |
| `HealthRules` | | the three above, one moving at a time |
| `HealthRulesProofs` | | proofs about `HealthRules` |
| `NaturalLemmas` | | induction over the natural numbers, for the proofs |
| `MCFullAudit`, `MCPgSession`, `MCIndexHealth`, `MCAuditReport`, `MCHealthRules` | | instances for TLC |

### AuditRunStore and FullAudit

`registry` is the table `audit_runs`; `now` is `time.time` of all processes;
`call` says where each `full_audit` call is, and `answer` what the last step
returned to a client (only the step that returns something sets it).

| code | model |
|---|---|
| `claim`: cleanup, `INSERT OR IGNORE`, comparison of bindings, one transaction | `ClaimCreates`, `ClaimFinds`, `ClaimConflicts`; the call's side is `ClaimNew`, `ClaimExisting`, `ClaimConflict`, `ClaimRejected` (not a UUID), `ClaimLocked` (SQLite refuses) |
| `complete`: SELECT, then UPDATE ... WHERE id and STARTED, SELECT, commit | `BeginComplete`, then `CommitComplete` or `CompleteLocked` |
| `fail`: the same two statements | `BeginFail`, then `CommitFail` or `FailLocked` |
| `_cleanup_locked` | `Cleaned`: `Expunged`, then `Forgotten`, over all rows |
| `get` and `get_audit_run` | `Get`, `GetAuditRun` |
| awaits before `claim`; the four sections | states `connecting` and `auditing`; `DatabaseUnreachable`, `AuditRaises` |
| cancellation, death and restart of a process | `Cancel`, `Crash` |

The SELECT of `complete()` and `fail()` opens no write transaction in Python's
`sqlite3`, so steps of other processes come between it and the UPDATE; between
them no task of the same process runs, as there is no `await` (`LoopFree`,
`HasLoop`). Every method reads the clock before it holds SQLite's lock: a
transaction uses any of the `Readings` of the last `LockWait` units.

Abstractions. A binding digest is the binding itself. A result is the binding
its evidence was collected for and the binding its provenance names.
`evidence_hash` lives and dies with the result; failure code and reason with the
status. `creator` is a history variable. A lookup that SQLite refuses or that
names no UUID changes nothing and is a stuttering step.

### PgSession

`conns` are the connections opened so far, with what psycopg knows of each
(`open`, `depth`) and what the server does (`alive`, `tx`, `saves`, `timeout`,
`readonly`, `prepared`); `current` is `ConnectionManager._conn`; `task` says
where each tool call is. Every statement is one step, because psycopg holds the
connection's lock while it runs. `async with db.conn.transaction()` keeps the
connection it was entered on (`conn`), while the statements inside take
`db.conn` again (`cur`). The blocks of psycopg and the session of PostgreSQL are
external, modelled from how the runners use them: a block entered in an idle
session sends `BEGIN`, one entered in a transaction `SAVEPOINT`; blocks always
end with an exception (`_RollbackSignal` or an error), so with `ROLLBACK` or
`ROLLBACK TO`; a block that is not the innermost one when it ends raises and
sends nothing; psycopg counts a block before it sends anything; a savepoint goes
with those before it, so a block may be left whose savepoint is gone (`HasSave`):
`ROLLBACK TO` is then an error, of which psycopg only warns, and the transaction
is aborted.

How the process may be used is a constant set of `Loads`, one of which a
behaviour has throughout (`load`): whether calls overlap, whether clients cancel,
whether the server drops connections. A property that holds of some loads only
says so in its condition (`Serial`, `Uncancelled`). A client may cancel at every
await: before a call has a connection, while a statement or `BEGIN` is in flight,
while the `ROLLBACK` of a block's end is (psycopg finishes it, and a failed
GENERIC_PLAN attempt then has no fallback), and while the end of a block waits for
the connection's lock (nothing is sent, and the block stays counted).

### IndexHealth

One class of structurally equivalent indexes: the catalog, the scan counts and
the age of the statistics move; `ListUnused` and `CollectDuplicates` take a
snapshot each, `Return` delivers the report; a client drops candidates of the
last report. A report is the evidence it is computed from (`report`), and
`DropCandidates` computes the nomination as `analyze_duplicate_indexes` does;
`advice` is its list of unused indexes. If the class moved between the two
snapshots the list is recorded as overtaken, which is all the properties tell
apart of it. The client is the environment. It drops duplicate candidates only:
indexes that are merely unused it leaves alone. And it acts on its last report
only, and not while it waits for the next: two reports can nominate each other's
keeper.

### PlanWalk, SlowQueries and AuditReport

A plan is the sequence of its nodes in the order of the walk, each with its
parent, so the recursion of `_walk_plan_node` is the order of the sequence and
that of `_node_references_schema` is `Subtree`. A node has its type, its
relation, the estimated rows, the rows, filtered rows and loops measured, and the
number of casts of its filter that hide an index: cutting casts out of a filter's
text and comparing them with index definitions is abstracted to that number. The
thresholds are constants. A plan that was not executed (GENERIC_PLAN) measures
nothing.

| code | model |
|---|---|
| `_detect_index_suppressing_casts`, and the three rules of `_walk_plan_node` | `CastFindings`, `ScanFindings`, `EstimateFindings`, `LoopFindings`, joined by `NodeFindings` |
| `plan_references_schema`, `node_in_scope`, `relation_in_scope` | `PlanReferences`, `NodeInScope`, `RelationInScope` |
| the awaits of `analyze_slow_queries` before the loop | `Validate`, `Installed`, `Loaded`, `CollectSlow`, `CollectMetadata`, each of which may end the call (`Raise`, `NotInstalled`, `NotLoaded`) |
| a round of its loops | `ExplainSlow`, `MatchCandidate` |
| `plans_by_query` | `plans`, with None for a text that got no plan |
| `_execute_full_audit` | one section after the other (`TableSection`, `QueryStep`, `QuerySection`, `IndexSection`, `ConfigSection`) |
| `AuditResult.from_findings` | `FromFindings`; a stable sort is the findings of each severity in turn |
| `canonical_json` in `complete` | `Encodable`, of findings with plain or numeric figures |

The plan an EXPLAIN returns is any of `PlansOf` its text, or none, at every call
anew: `PgSession` says what happens to the session meanwhile. The other three
sections contribute any of a few lists of findings. `log` is a history variable.

### TableHealth, TableScans, ConfigRules and HealthRules

The rules are pure functions of one statement's result, so they are operators
and what moves is what they judge: a table's row of `pg_stat_user_tables` and
the clock; the scans of several tables; the settings a server runs with, those
its files hold, and its clients. Every reachable state may be the one an audit
reads. `idx_scan` is NULL for a table without index, and comparisons with NULL
are not true; shares are in hundredths of a percent, rounded as `round(..., 2)`
does. The rule sets share nothing, so a behaviour of `HealthRules` moves one of
them, and their states add up instead of multiplying.

`TABLES_NEEDING_INDEXES_QUERY` sorts by `seq_tup_read` and stops at 20 tables.
`Needing` are the tables its WHERE clause takes, and `Listings` the lists it may
return: all of them, or, if there are more than `Limit`, so many of them that none
left out has been read more (several lists if there is a tie). The rule of
`check_table_health` has no limit. `ScanRulesAgree` therefore says that a table the
one reports is listed by the other *unless the list is full of tables read at
least as much*; with more than 20 such tables the sections of one report do
differ, and nothing in it says that the list was cut.

The operator follows a `suggested_fix` to the letter: the `ALTER` (`ApplyFix`),
then the step its comment names (`After`), if it names one; `followed` says how
far. Reloads and restarts also happen for other reasons. Two fixes followed to
the letter leave their finding, and `FollowedAdvice` states both instead of
leaving them out: that of the scale factor is an `ALTER TABLE`, after which the
rule still reads the same setting, so its finding is never ended by its advice;
and that of `log_min_duration_statement` names no reload, so its finding stays
until one happens. The other three end with the step they name, and only
`shared_buffers`, which says so, needs the restart.

## Runs

| run | instance | checks |
|---|---|---|
| `audit_safety` | 2 processes on 2 databases, 3 calls with 2 requests on one ID, 7 clock units | all safety and action properties, and the refinement of `RunLifecycle` |
| `audit_recovery` | 2 IDs, two spellings, an invalid one and a server-drawn ID, deletions, crashes, cancellations, fairness | the properties that hold even when rows are deleted, and `NoRunStaysStarted` |
| `audit_late` | an audit that outlives retention plus tombstone | `NoForeignDatabase` is violated |
| `session` | 2 calls, 2 connections; calls one after the other, overlapping, cancelled, overlapping and cancelled, with lost connections | `TypeOK`, `SerialExplainIsContained`, `SessionIsReleased`, `RacingSessionsAreReadOnly`, `IdleHasNoBlocks` |
| `session_nested` | 2 calls at once | `ExplainIsContained` is violated |
| `session_cancel` | a cancelled `connect()` | `SessionsAreReadOnly` is violated |
| `session_fallback` | a server without GENERIC_PLAN | `PreparedIsScoped` is violated |
| `index_drops` | 3 indexes, one of them unique; drops of the last report's duplicate candidates | `TypeOK`, `ListsAgree`, `DropsAreCovered` |
| `audit_report` | 3 texts (plans of 1 to 3 nodes, a generic plan of 5, an unsafe text), 2 schemas, 2 slow queries, 2 candidates | `TypeOK`, `ExplainsAreBounded`, `ScopeLosesNothing`, `FindingsConcernSchema`, `LargeScansAreReported`, `PassesAgree`, `ReportIsUnified` |
| `audit_numeric` | 1 slow query, 1 candidate | `CleanAuditIsRecorded` is violated |
| `health_rules` | up to 3 live and 3 dead rows; 2 tables, 8 scans of each kind, a list of 1; 48 configurations, 24 slots, 3 or 4 reserved | `ScanRulesAgree`, `WorseIsNotMilder`, `FollowedAdvice`, `ExhaustionIsReported` |
| `health_unindexed` | the same, 3 scans | `ScannedTablesAreReported` is violated |

Bounds. One run ID is enough for most properties because rows do not affect each
other: cleanup treats each by itself. Three calls are a first execution, a retry
and a competitor from another database or schema. `Retention` 2, `Tombstone` 2
and `LockWait` 1 make a clock reading lag into each phase of a row;
`LastClaim` 5 and `LastTick` 7 let an ID be claimed, expire, be forgotten and be
claimed again. In `audit_recovery` the clock stops earlier, and deletion takes
the place of the tombstone's end. On a session,
two tasks are what nesting takes; `MaxDepth` 2 lets a block leak and another
still be entered; `MaxConns` 2 lets a reconnect race and a connection be lost.
Three indexes are a keeper, a candidate and a protected one; a scan count of 0 or
1 gives ties, a unique leader and an unused class.

For plans the thresholds are scaled to 1, 2 and 4, so that a scan can be large by
its rows, by its filtered rows, by its loops alone or by the table's size alone;
the plans are a scan, a scan above a scan and joins of two scans, of tables of
both schemas, and one generic plan. The rules compare nodes with their subtree
and their last child only, so deeper plans repeat these cases. Two slow queries
and two candidates let a text be there twice, in both lists or in one.

A table's thresholds are scaled to 1, 2 and 3; shares are not, and 8 scans of
each kind put shares at 80 % and next to it on both sides. Two tables and a list
of one are what it takes to be crowded out of the list, with more rows read, fewer
or as many. The settings are each
just past their bound, at it and at PostgreSQL's default; the fractions among
them are in hundredths. 24 slots with 3 or 4 reserved put the bounds of 80 and
95 % on different counts of clients. Deadlock is not checked where the calls of an
instance can all be used up and the clock has stopped.

Fairness (`FairSpec`, used by `audit_recovery` alone): calls take their steps
(asyncio runs every ready task, and PostgreSQL statements end), time passes, and some
client goes on looking runs up. The last assumption is needed: cleanup has no
timer and runs only inside `claim` and `get`. Nothing is assumed of crashes,
cancellations, or of a call being made.

## What the violations show

* **A late audit completes another run** (`audit_late`). `complete()` updates by
  ID and status only. If the audit takes longer than retention plus tombstone,
  its ID can be claimed again, from another database, and the evidence lands in
  the new row. The passing runs and the proofs assume `Punctual`.
* **Overlapping EXPLAINs lose their timeout** (`session_nested`). The second
  block is a savepoint in the first one's transaction, and its `ROLLBACK TO`
  takes back a `SET LOCAL` of the first that was run after it.
* **A cancelled connect is not read-only** (`session_cancel`). `connect()`
  assigns `_conn` before it runs `SET default_transaction_read_only`.
* **The prepared statement is not transaction-scoped** (`session_fallback`).
  The next parameterized query of the session cannot prepare its own.
  `SessionIsReleased` is about transactions and settings and leaves prepared
  statements to this property.
* **A clean audit fails at its end** (`audit_numeric`). Times of
  `pg_stat_statements` are rounded as `numeric`, come as `Decimal` and go into
  evidence; `canonical_json` cannot encode them, so any full audit with one plan
  finding or N+1 candidate is recorded as failed.
* **A table without indexes is never reported** (`health_unindexed`). Its
  `idx_scan` is NULL; the query for tables that need an index compares with it,
  and the share of sequential scans becomes 0.

Other observations, without a property of their own:

* "An audit run ID is permanently bound" (`docs/audit-run-reconciliation.md:19`)
  only until its tombstone lapses; then cleanup forgets the binding and the ID can
  be bound to another database or schema. `RunLifecycle` lets a dead ID be opened
  again, and the properties say what still holds then: no answer mixes the two
  runs, as long as audits are punctual.
* Two overlapping EXPLAINs that are not left innermost first both raise
  `OutOfOrderTransactionNesting`, and no `ROLLBACK` is sent: the session stays in
  a transaction that psycopg counts no block of and no call ends. If it was
  aborted, all later statements are refused; and in any case a read of one call
  runs in the transaction of another's EXPLAIN. `SessionIsReleased` is about
  serial calls, of overlapping ones only `IdleHasNoBlocks` speaks.
* The keeper of duplicate indexes can be an invalid one; `DropsAreCovered` says
  that a survivor exists and is used more, not that it is valid.
* The lists of unused and duplicate indexes can disagree if usage moves between
  their snapshots; `ListsAgree` is about lists of one state of the class.
* The advice on the scale factor does not end its finding, and that on
  `log_min_duration_statement` names no reload; `FollowedAdvice` says so.
* The list of tables that need an index is cut at 20 without a word; a table past
  it with 50 to 80 % sequential scans is reported by neither section.
* A cast's selectivity divides the rows of one loop by those of all; the last
  autovacuum hides a later manual one.

## Proofs

Every property that a passing run checks, except liveness (`NoRunStaysStarted`),
is also proved for all values of the constants that satisfy their assumptions;
those about who owns a run are proved under `Punctual`, as said below. The proofs
of a component have one shape: an inductive invariant (`IInv`, `IInvSlow`,
`IInvConfig`), which TLC checked on the instances before it was proved; the lemma
that each action preserves it; and the properties as consequences.

`FullAuditProofs`, for any sets of processes, databases, requests, calls and IDs
and any retention, tombstone and lag with `LockWait < Retention`:

* `TypeCorrect`: `Spec => []TypeOK`, with no assumption but those on the
  constants.
* `InvariantHolds`: `Spec => []IInv` under `Punctual` (nobody deletes rows, and
  an audit ends within `AuditLimit`, with `AuditLimit + LockWait < Retention +
  Tombstone`). `IInv` is needed because none of the safety properties is
  inductive: that a second call cannot execute a run follows from the executing
  call still holding *its* row (`ExecutorHoldsRow`), which follows from the row's
  tombstone lying beyond the latest end of the call, for every reading of the
  clock a cleanup may use; that a saved result is of its row's binding
  (`PayloadIsOfItsRow`) needs both, and also what `complete()` read earlier.
* `OneExecutorHolds`, `NoForeignDatabaseHolds` and `NoForeignEvidenceHolds` (the
  last two are about answers: `AnswersStep` shows it of the step that answers).

`FullAuditLifecycleProofs`, of the same specification:

* `LifecycleHolds`, under `Punctual`: `Spec => LifecycleImplemented`, that is,
  for every run ID the registry implements `RunLifecycle`. A write of the
  registry is a cleanup, a claim, an update or a deletion (`RegistrySteps`); each
  maps to a step of the ID's life or a stutter, as does a tick of the clock. A
  cleanup does because its reading is never ahead of the clock, and the tombstone
  lies one `Tombstone` beyond the payload (`TombstoneOutlives`); a claim, because
  its reading lags by less than `Retention`, so that the new row is fresh; a tick,
  because no row ages by two stages at once.
* `AnswersAreCurrentHolds`, under `Punctual`. A lookup answers what its own
  cleanup left alive; for the answer of an audit that ends it takes
  `ExecutorSettles`: nobody settles a run but the call that executes it, so the
  row it returns was settled a moment ago.
* `ErrorIsOnRecordHolds` and `RecoverableHolds`, with no assumption on deadlines or deletions: they rest on who has claimed
  (`CreatorHasClaimed`), on what each step may answer (`AnswerSteps`,
  `AnswersFromRow`) and on a payload being of a completed run
  (`PayloadIsSettled`), and hold even where a late audit takes another's row.

`PgSessionProofs`, for any numbers of calls and connections, any nesting depth
and every load. A session's state is shared by what psycopg counts, what the
server does and what each call believes, and no property speaks of all three, so
`IInv` says how they belong together: every block entered and not left is counted
on its connection, which may count more (`BlocksAreCounted`, on the cardinality
of the set of calls inside); an idle session has no block (`IdleHasNoBlocks`, for
every load); a session that is not read-only yet is in the hands of `connect()`
(`SettingIsAwaited`); serial calls stay on the connection they took, with the
timeout they set (`SerialCallsAreApart`); and then a transaction is that of the
one block there is (`TransactionIsOwned`). From it follow `TypeCorrect`,
`IdleHasNoBlocksHolds`, `RacingSessionsAreReadOnlyHolds`,
`SerialExplainIsContainedHolds` and `SessionIsReleasedHolds`. The attempt to prove `RolledBackTo` well defined showed
that blocks left out of order can take a savepoint away before its own block ends
(three overlapping calls, more than the instance has); the model had chosen an
arbitrary result there, and now has the server's error.

`PlanWalkProofs`, for any thresholds, relations, metadata and plans of any size:
`ScopeOfPlan` (what `detect_plan_issues` says of a schema is the same whether it
was asked for that schema or for all) and `UnreferencedShowsNothing` (a plan that
`plan_references_schema` drops had nothing to say of it). A finding about a
schema is about a node that names one of its relations, so the node lies in its
own subtree and in every scope check above it; the tree is given by parents, so
this is an induction over a node's ancestors. `FlattenSeq` and `Among` are
described by lemmas (of an appended element, of a concatenation, of what is in
the result), each by induction over sequences.

`AuditReportProofs`, for any texts, plans, catalog rows and findings of the other
sections. `IInvSlow` relates what the two loops of `analyze_slow_queries` leave
behind: the log's first entries are those of the slow queries, and a text of a
later entry has no other (`LogFollowsSlow`); the cache holds what was explained
and everything that was (`CacheIsOfLog`); N+1 findings follow the cache
(`CandidatesFollowCache`). `ScopeLosesNothing`, `LargeScansAreReported` and
`FindingsConcernSchema` are part of the invariant (large scans are those of plans
of the first loop: the N+1 pass analyses none), as each round extends both of
their sides; `ExplainsAreBounded` is a count over the log (`Places` maps a text's
runs into its entries) and `PassesAgree` follows from the cache. `ReportIsUnified`
is proved of the step that makes the report: sorting is the concatenation of the
five grades, so it is ordered (`OrderedConcat`), keeps each grade (`SortedKeeps`)
and loses nothing (`GradedLengths`).

`IndexHealthProofs`, for any class of indexes and any maturity window:
`TypeCorrect`, and
`KeeperInvariant` (the keeper of every live report exists, and its list of unused
indexes is of the same snapshot or overtaken), from which `DropsAreCoveredHolds`
(a candidate is strictly below the one leader, and the leader is still there; of
drops of duplicate candidates, by a client that follows its last report only) and
`ListsAgreeHolds` (the leader has been scanned, so it is in neither list).

`HealthRulesProofs`, for any thresholds, tables, rows of statistics, settings and
numbers of slots: `TypeCorrect`; `FollowedAdviceHolds`, from an invariant of the
server's settings (`IInvConfig`: a setting nobody altered runs as configured; an
altered one has its fix configured and runs it or the reported value, and the fix
once the step its advice names is taken; a reload leaves only what is read at the
start) with the lemma that no fix is itself reported; `ExhaustionIsReportedHolds`,
as a server that refuses ordinary clients has as many as its ordinary capacity;
`ScanRulesAgreeHolds` and `WorseIsNotMilderHolds`, by a lemma that says of a
rounded quotient exactly when it is at least a bound, so that the rest is linear.
That the list may be cut enters the former as it stands: a table that is left out
of a list is left out of a full one.

Induction. The library's induction theorems take an operator, which the provers
cannot instantiate; that `<` is well founded on the natural numbers takes none.
`NaturalLemmas` derives from it that a non-empty set of numbers has a least
element and that a set with 0 and the successors of its elements has every number,
and `PlanWalkProofs` from that an induction over sequences (`SeqInduction`). A
fact is then proved by naming the set of arguments it holds of. Lists are
filtered with `Among`, a fold, because the provers have no definition of
`SelectSeq`.

Only model-checked: `NoRunStaysStarted`, as liveness under fairness and ENABLED
are beyond the prover, and the six violations.

## Not modelled

* The wording and layout of findings, hashing, file permissions and the parsing
  of the environment: no property is about them.
* SQL screening (`is_safe_to_explain` and its masking scanner): regular
  expressions and a scanner over the characters of a query, which are data and
  not control. What the rest of the system sees of it is kept: a text that is
  refused has no plan.
* The extraction of casts from a filter's text and their comparison with
  expression indexes, also text; a node keeps the number of casts that count.
* The TOAST rule and the count of long-running queries: one comparison each, of
  numbers nothing else in the code uses.
* The two resources, which format rows read with `fetch_all`.

## Plan

What is left to prove:

1. What the violated properties leave true for every instance, under the
   condition that excludes the violation: `SessionsAreReadOnly` of uncancelled
   calls is proved (`RacingSessionsAreReadOnlyHolds`), and so is
   `SerialExplainIsContained`; `PreparedIsScoped` of servers that know
   GENERIC_PLAN and `CleanAuditIsRecorded` of audits without numeric figures are
   not stated yet.
2. Of the functions of plans: that the severity of a cast or a scan
   does not decrease with its rows.

## Running

    tlc -workers 2 -config MCFullAudit_safety.cfg MCFullAudit.tla
    tlapm FullAuditLifecycleProofs.tla
