# Verification of the DataIntelligent gateway

TLA+ models of `dgw`, the data gateway of this repository: a daemon that lets
agents run read-only SQL and query a semantic catalogue over MCP, and the
command-line tools that administer it.  The models are checked with TLC on small
instances, and the theorems are proved with TLAPS for every value of the
constants.  Source paths below are relative to `src/`.

## 1. The system

All processes share one SQLite file (WAL) and one directory of execution
records.  SQLite statements and transactions are atomic; nothing else between
processes is.

| Part | State | Operations | Hard behaviour |
| --- | --- | --- | --- |
| Grant tables (`internal/grants`, `internal/store`) | `dgw_table_grants`, `dgw_grant_patterns`, the revision row | `AddGrant`, `RemoveGrant`, `Sync` (grants-apply) | `Sync` compares before its transaction and reports after it; several commands at once |
| Authorization service (`internal/authz`) | in-memory snapshot: grants, `loaded`, `revision` | `Load`, `failClosed`, `Allow`, `ReloadLoop` (every few seconds) | two reads that are not one; failing reads; restarts |
| Credentials (`internal/credentials`) | `dgw_credentials` | `Create`, `VerifyKey`, `Revoke` | revocation against running sessions |
| Load gate (`internal/loadgate`) | counter per key, counter of the process | `TryAcquire`, `Release` | leaks, limits |
| Gateway (`internal/gateway`) | sessions, calls in flight | authentication, `execute_sql`, five semantic tools, `logged` | snapshot moves under a call, early returns, timeouts, crash |
| Validation (`internal/validate`) | none; a stack of CTE scopes during a walk | `Parse`, `ClassifyStmt`, `ExtractTables`, `AuthorizeTables`, `Check` | table by table decision, CTE scopes |
| Execution records (`internal/execrecord`) | raw file and summary per day; per process `day`, `rawFile` | `New`, `Log…`, `write`, `rollover`, `summarize`, `prune` | several processes in one directory, no lock; late calls; failed rollovers; crash |
| Semantic sync (`internal/semantic`) | entities, relations, enum values, keyword index | `Load`, `Compile`, `Snapshot`, `Compare`, `Apply` | diff outside the transaction, idempotence, tombstones |
| Embeddings | embedding rows, vector index | `EmbedEntityTexts`, `SaveEmbeddings`, `EnsureVecIndex`, `EmbeddingCoverage`, `RemoveEmbeddings` | failure of the external service, rebuild outside a transaction |
| Expansion and its warnings (`grants/expand.go`, `semantic/grants_expander.go`, `cmd/dgw`) | none | `expandAll`, `Expand`, `MetricTables`, `ConceptTables`, `warnPatternCoverage`, `warnStaleGrants` | expansion over several statements; a check after the commit of a sync |
| Backup | a file copy | `Backup` | commits and checkpoints during the copy; a path that is the store itself |
| Search, traversal | none | `SearchEntities`, `GetEntityDetail`, `TraverseRelations`, `MetricDefinition`, `ListEnumValues` | several reads without a transaction; rank fusion; caps |
| Database router (`internal/db`) | connection pools | `Lookup`, `SelfCheck` | start-up refusal |
| Collector (`internal/collector`) | a structure folded from migrations; a directory of drafts | `ParseMigrations`, `CrossCheck`, `Calibrate`, `MergeSemantics`, `WriteDraft`, `CheckCompile`, `reconcileDrafts` | constraints that come and go in migration order, drafts that people edit, writes cut off |
| Commands (`cmd/dgw`, `cmd/dgw-collect`) | none | start the above | each is another process on the same files |

How they interact: a request authenticates against `dgw_credentials`, the MCP
session keeps the identity of the request that opened it, the handler asks the
gate for a slot, validates the SQL, asks the authorization snapshot table by
table, queries PostgreSQL, frees the slot; the wrapper then writes one execution
record.  Permission commands reach the daemon only through the revision row that
`ReloadLoop` polls.  Key commands reach it through `dgw_credentials` (read on
every request) and share its record directory.

What makes each part correct:

- *Grants and authorization*: decisions follow a committed version of the table,
  never go back, deny when in doubt, and every committed change takes effect.
- *Gateway*: slots are exact; a query reads only what its user was granted during
  the call; a revoked key gets no handler; records are true; calls end.
- *Execution records*: nothing recorded is lost before its time, summaries are
  never stale, retention is exact, and the writer recovers from failures.
- *Semantic sync*: a rerun of the same input writes nothing; the keyword index
  holds exactly the active entities; tombstones propagate.
- *Embeddings*: the vector index and the table agree; every active entity gets a
  vector in the end.
- *Expansion*: a grants file grants what its targets mean; a sync warns of every
  gap it opens.
- *Search and traversal*: what is answered existed, and an answer of one version
  does not contradict itself; keyword hits come before vector hits.
- *Backup*: it harms nothing, and a copy that reports success is one version.
- *Validation*: what is collected is what PostgreSQL would read; what passes only
  reads, and only what is granted.  For a plain `WITH` that uses its own or a later
  name this fails (finding 2).
- *Collector*: the structure is what the migrations, in order, produce; a merge
  keeps what people wrote, as far as the write itself does (section 4); a clean exit
  means the drafts are current.

## 2. Modules

| Module | Models | State ↔ code |
| --- | --- | --- |
| `GrantView` | what the gateway promises about authorization: versions of a grant table, and a view that follows whole versions or denies all | abstract; `version` is the revision, `allowed` what `Allow` answers, `floor` the version adopted |
| `Authz` | `grants`, `store` revision, `authz` and the permission commands | `snap` = `Service`, `load` = the goroutine inside `Load`, `apply` = the locals of `Sync`, `daemon` = inside/after `gateway.New`; each SQLite statement is a step |
| `LoadGate` | `internal/loadgate` | `keyCur`, `totalCur`; both methods run under a mutex, hence atomic |
| `Gateway` (extends `LoadGate`, instantiates `GrantView`) | a request from the bearer header to its record | `cred` = `dgw_credentials`, `call[c].pc` = where the handler stands, `records` = lines of the raw file; the view moves by `GrantView`'s steps |
| `ExecRecord` | `internal/execrecord`, several processes | `raw`, `summary` = the directory; `w[p]` = `Logger` and the locals of `write`, `rollover`, `summarize`, `prune`; each file-system call is a step |
| `SemanticSync` | `internal/semantic` from the author directory to the tables, several commands at once | `entities`, `relations`, `enums`, `fts` = the `dgw_sem_*` tables as sets of rows; `dir[p]`, `cur[p]` = the compiled input and the snapshot a command holds; each query of the snapshot is a step, the transaction of `Apply` is one |
| `Embeddings` | `embed.go`, the index part of `ensureSchema`, and `cmdSemanticSync` after its commit | `emb` = `dgw_sem_embeddings`, `vec` = `dgw_sem_vec` with its length; `sync` = where the command stands, `open[p]` = how far an opener of the store is; each statement or transaction is a step |
| `Migrations` | `migrate.go`, `structure.go`, `calibrate.go`: the fold of DDL statements, beside the same statements run by PostgreSQL | `st` = `Structure` with its constraint registry, `findings` = what was warned of; `pg` = the tables of production (external); a statement is a step |
| `Drafts` | `collect.go`, `draft.go`, `crosscheck.go`, `manifest.go`, `cmdScan` | `disk` = the directory of drafts, `scan` = the locals of `Collect` and `collectService`, `exit` = the exit code; people, service repositories and the manifest move in between; truncating and filling a file are two steps |
| `Catalogue` | the tables of the semantic catalogue as the readers see them, and the queries they share | `catalogue` = the version the store has and the number of commits |
| `SemanticReads` | the five semantic tools (`semantic_tools.go`, `search.go`) | `call` = the tool call under way; each query is a step |
| `Coverage` | expansion of the grants file and the warnings of `cmdSemanticSync` | `granted`, `patterns` = the grant tables; `apply`, `check` = the locals of the two commands; each query is a step |
| `Backup` | `backup.go` against SQLite's WAL | `file`, `wal` = the store (external); `copy` = the file at `--out`; `backup` = where the command stands; a page is copied in a step |
| `SemanticStore` (extends the last four) | all of them over one store, with syncs of others committing at any moment | |
| `CteScope` | `walk.go`, `validate.go`: the walk over a statement, the verdict on it | `ctes` = the stack of scopes, `refs`, `tables` = the tables collected, `ahead` = what the walk has before it |
| `AuthzProofs`, `GatewayProofs`, `ExecRecordProofs`, `SemanticSyncProofs`, `EmbeddingsProofs`, `DraftsProofs`, `SemanticStoreProofs`, `MigrationsProofs` | theorems | each `EXTENDS` the module it is named after; `GatewayProofs` also extends `CteScope`, whose two theorems stand at its end |
| `MCAuthz`, `MCGateway`, `MCCteScope`, `MCExecuteSql` (extends the two), `MCExecRecord`, `MCSemanticSync`, `MCEmbeddings`, `MCMigrations`, `MCDrafts`, `MCSemanticStore` | finite instances | |

`Authz` implements `GrantView` (checked as `ImplementsView`, proved as
`AuthzImplementsView`), and `Gateway` uses `GrantView` in its place: the request
path is checked against everything the promise allows, not against one polling
schedule.  `SemanticStore` composes modules that share the store and nothing else:
a commit of one is a new version for all, and a new WAL for the backup.

Operators whose name ends in an underscore and a word (`LoadSwap_LateRevision`)
are seeded faults: plausible bugs of the definition that follows.  They are part
of no specification; swapping one in must break a property, which shows that the
property depends on that piece of code.

### Abstractions

- Grants, keys, tables, calls, records and patterns are model values; SQL text is
  one of five classes (`Statement`), the outcomes are the four recorded states
  plus 401/403 and 500.
- `Authz`: polling intervals are absent; any number of writes fits between two
  ticks.  A failing read is a step that spends the budget `MaxFaults`.
  `ApplyAbort` stands for every error exit of the command.
- `Gateway`: history fields `since`, `was` and `ran` of a call, and `hist` and
  `floor`, exist for the properties only.  Stage timings, row encoding and the
  text of errors are left out.  `serve-stdio` is an instance with one key that is
  verified once, as its documentation says, and is not modelled separately.
- `ExecRecord`: time passes in days.  The size of a file is the number of its
  lines; temporary files are removed in the step that lists the directory; a
  dropped record gives its name back, so that the constants bound the records
  alive, not the length of a run.
- `SemanticSync`: an author directory is the sequence of its definitions; the
  syntax of names and SQL fragments is one flag, `wellFormed`.  Entities,
  relations and enum values have one shape, a set of rows with the UNIQUE key,
  the compared columns and the tombstone.  Which of two edges with one key is
  written last is left open, as `sort.Slice` leaves it.  `alone`, `settled` and
  `lastDir` are history, for the properties only.
- `Embeddings`: the commit of a sync is one step that changes texts; a vector is
  the entity, the model and the text it was computed from, and what is compared
  of its contents is the length.  One semantic-sync runs at a time, as ADR-0005
  asks; a gateway may open the store at any moment.  Stores that begin without
  the index hold vectors of one model.
- `Migrations`: a statement is a record with what the collector looks at; an `ALTER
  TABLE` is a sequence of commands, which the collector folds in turn (`Altering`) and
  PostgreSQL runs in passes (`Pass`).  A file that cannot be parsed is a statement that
  reports an error.  `Legal` keeps to what PostgreSQL accepts, the no-ops of `IF EXISTS`
  and `IF NOT EXISTS` included, because a migration that fails never reaches
  production.  A type is a family and its mods: the many spellings of a family are one,
  and of the mods `LiveForm` keeps those the query of calibration returns.  Names of
  constraints are tuples, cut ones (`CutName`) values of `Truncated`.  PostgreSQL numbers
  an automatic name that is taken (`t_b_fkey1`); `PgAccepts` leaves such statements out, so
  nothing is shown of them.  The values of a `CHECK` count as a bag, so that doubles
  show.  Column defaults and indexes are left out, as the collector leaves them out, and so
  is a `REFERENCES` without the target's column, whose edge has no join condition, as
  the warning says.
- `Drafts`: a draft is a map from elements (columns, edges, an enum whose value is
  listed twice and so does not compile) to a type, a description and a time mark, with
  the name of the service it says it is of; `foreign` stands for a field the collector
  does not know.  `manifest` says of each service listed whether it has a database;
  one without has no elements.  `words`, `confirmed` and `lost` are history: what people last said,
  for which type they confirmed, and of which elements a write that was cut off has
  taken the words.  People edit between the reading of a draft and its writing as little
  as `Editable` lets them: an edit in that window is overwritten.
- `Catalogue`, `SemanticReads`, `Coverage`, `Backup`: the store goes through whole
  versions out of a small set, at most `MaxCommits` of them in a run; how a sync
  gets from one to the next is `SemanticSync`.  What a text query matches, and in
  which order, is left open: every ranking of every set of candidates.  The write
  of grants-apply is one step here; its races with other permission commands are
  in `Authz`.  `MaxClients` bounds how many of the three kinds of client (a tool
  call, a permission or sync command, a backup) are at work at one time; they meet
  through the store only, and syncs of others commit beside them at any moment.
- `CteScope`: a syntax tree is made of selects with their `WITH` entries, writes and
  table names; the reasons of `ClassifyStmt` are merged into one, and an input
  without any statement is refused in one step.  The walker gives every `WITH` the
  scope of `WITH RECURSIVE` (`walk.go:18`); PostgreSQL gives an entry of a plain one
  the names before it only, and both are in the model.  `Early` names the tables
  where that makes a difference, no input is left out.  What a statement means to
  PostgreSQL is said of its trees by depth, up to `MaxDepth` (`Layers`): the parser
  refuses a statement nested too deeply, and in what it lets through a writing
  statement stands at the top or is the body of a CTE (`IsStatement`, assumed of every input).

## 3. Runs

| Run | Instance | Shows |
| --- | --- | --- |
| `Authz` | 2 grants, 1 wildcard, 1 grants-apply, 2 writes, 2 failed reads, 1 crash, fair | `TypeOK`, `NoStuckSnapshot`, `ReportsAreTrue`, refinement of `GrantView`, `CatchesUp` |
| `Gateway` | 2 calls, 3 keys, 2 users, 1 table, limits 1/1, a fault, a crash; a permission write where one key is in use and nothing crashes (`OneKeyWrites`) | `TypeOK`, `SlotsAccounted`, `RecordsAreTrue`, `RevokedKeyRefused` |
| `ExecuteSql` | every tree of up to two entries and one nested query over 3 names, pairs of statements, depth 3; then 1 call over 2 tables, 2 permission writes, fair | `WalkTypeOK`, `VerdictIsRight`; `QueryWasGranted`, `CallsEnd` |
| `ExecRecord` | one daemon, 2 calls, 1 authentication failure, 3 days, raw retention 1, a fault, a crash, fair | `TypeOK`, `RetentionHolds`, `LoggerHeals` |
| `ExecRecordShared` | two daemons, 4 days, raw retention 3, calls late by a day | `RecordsSurvive`, `SummaryKeyIsSound` |
| `ExecRecordBrick` | a daemon and a key command, no fault, fair | **violates** `LoggerHeals` (finding 1) |
| `SemanticSync` | 2 overlapping commands, 3 directories that compile and 5 that do not, 5 definitions | `TypeOK`, `IndexIsActive`, `ClosedWhenSettled`, `RerunFindsOnlyDoubles`, `AloneMeansTarget` |
| `Embeddings` | 2 entities of 2 texts, 2 models of different length, one command and one gateway, errors and kills anywhere | `TypeOK`, `IndexIsTrue`, `IndexIsWhole` |
| `Migrations` | every legal sequence of 6 out of 26 statements about a table in two schemas and a table it refers to, or out of 13 about a name too long, a table LIKE 'pg_%' and precisions | `TypeOK`, `DraftIsReplayed`, `DriftIsReported` |
| `Drafts` | 2 services, 3 structures; 2 scans and 3 edits, failures and kills of both (`Short`), or 4 scans, 5 edits and 2 failures or kills of one (`Long`) | `TypeOK`, `WordsKept`, `TimeIsConfirmed`, `UntouchedStays`, `CleanExitMeansCurrent` |
| `SemanticStore` | 7 entities in 4 versions, 3 commits, 2 users, 4 grants files, a file of 2 pages | `TypeOK`, `AnswersAreRight`, `KeywordsLead`, `GrantsAreMeant`, `GapsAreWarned`, `BackupIsSound` |
| `CteScopePlainWith` | the same inputs | **violates** `AcceptedReadsAreGranted` (finding 2) |

Why the bounds are enough.  `Authz`: a stale snapshot needs one write between
the two reads of a load and one more to tell versions apart; a wrong report needs
a foreign write next to the own one.  Two writes, one process beside the
single-statement commands, two faults and one crash cover each alternation; the
theorems of `AuthzProofs` hold for any number of them.
`Gateway`: two calls and one slot make the gate refuse, wait and refill; a key
with a second key of the same user and a key of another user cover a session used
under another key and a stolen session; how permissions change under a call is `ExecuteSql`'s question.  Two tables and two permission writes
let the snapshot go forth and back under one statement.
`ExecuteSql` walks its inputs while the daemon is at rest and makes its call with the input that
has nothing to walk: the walk has no state but its own (`validate.go`, `Check`), so nothing is
lost by not interleaving the two.  `ExecRecord`: a day
that expires with retention 1 on the third day, a late call and a restart on
each of them; two processes are the least that can race.

`SemanticSync`: the three directories differ in a text, a label, a kind, an edge
and everything (the empty one), so that every part of a difference is added,
changed, buried and revived; two commands are the least that can overlap, and
commands may repeat for ever.  `Embeddings`: one entity may lose its vector
while another keeps a leftover one; the shorter model has the default length;
there is no bound on commands, errors or kills.

`Migrations`: two schemas, two constraints on one column that share a value, a
constraint named by PostgreSQL and a column that goes and comes back with another
type, a column with a foreign key that has no name and one with a foreign key that has;
six statements set up all of it and take it apart again; an `ALTER TABLE` of two commands
is the least that can be in another order.  The second set of statements builds a
column, gives it a precision and takes it away, or adds a foreign key with a long name and
one with a short name and drops both; a behaviour keeps to one of the sets (`vocabulary`).  `Drafts`: two
services are the least of which one may be scanned alone, be unlisted or take the
other's name; the second scan meets what the first one left.  Four scans of one
let a type change and change back with an edit of people between each two, and a cut write,
its refusal, the draft thrown away and collected anew; services share nothing but the
directory, so one is enough for what stays in its draft, the other being neither listed nor
changed.  `SemanticStore`: the versions differ
in tables, edges, values and time columns, one has a cycle of references, one
nothing but names, and one a concept where the others have a metric; caps of two and three are reached and passed; three commits
separate the statements of the longest call; the depths asked for lie below,
at and beyond the limit.  Two pages are the least that can be of two versions.
The inputs of `ExecuteSql`: a name is defined, used, hidden by an inner `WITH` and used again after
it, in the entry, in the body and in the next statement; with depth 3 a `WITH` can
stand inside an entry of another.

Deadlock is not checked in the runs of `ExecRecord`, `Gateway`, `ExecuteSql`, `Migrations`,
`Drafts`, `SemanticStore` and `CteScopePlainWith`: at `MaxDay`, with every record name used,
when every call has ended, when statements, scans or commits are used up, and when
the verdict is given, the models stop.
Symmetric are the calls, and the two keys of one user, in `Gateway`'s run, the calls
and the two daemons of `ExecRecordShared`, the commands of `SemanticSync`, the entities and texts
of `Embeddings`, and the services of run `Drafts`.

### Fairness

- `Authz!FairSpec`: the ticker keeps firing, a begun load goes on, a supervisor
  restarts the daemon (`deploy/` runs it under a restart policy).  Nothing is
  assumed of operators, faults or crashes; the fault and crash budgets make
  storage work in the end, which is the hypothesis of "heals".
- `Gateway!FairSpec`: weak fairness of the steps of each call — goroutines are
  scheduled, `statement_timeout` ends every query.
- The other modules state safety only and assume no fairness.
- `ExecRecord!FairSpec`: weak fairness of the steps of a begun write, and requests
  keep coming.  A Logger is only ever repaired by the next write, so `LoggerHeals`
  says nothing of an idle process.

### Assumptions of `ExecRecord`

A call outlives its midnight by at most `MaxLate` midnights and a write spans at
most one.  In `ExecRecordShared` the raw retention is larger than
`MaxLate + 1`, the configuration the defaults give (7 days, calls bounded by the
statement timeout).  With a retention of one day, which `New` accepts, the same
module violates `RecordsSurvive`: a late call recreates the raw file that was
already summarized and removed, and the next summary counts that call alone.

## 4. Findings

1. **A pruned open file bricks the Logger** (`internal/execrecord/execrecord.go:332`,
   run `ExecRecordBrick`).  `os.IsNotExist` does not see through the `%w` of
   `fileSize`, so the intended skip of a missing raw file never happens.  An idle
   daemon whose open day is pruned by a key command never writes again.
2. **A plain `WITH` hides a table from authorization** (`internal/validate/walk.go:83`,
   run `CteScopePlainWith`).  The walk pushes the names of every `WITH` before it walks
   the entries, as for `RECURSIVE`.  In `WITH x AS (SELECT * FROM x) SELECT * FROM x`
   PostgreSQL reads the table `x` in the entry; the walk collects nothing, and the
   statement is accepted whether `x` is granted or not.  So for an entry that names a later
   one.  `validate_test.go:173` takes the statement for one PostgreSQL rejects, which it does
   only when there is no such table.  What holds is `VerdictIsRight`: these tables
   (`Early`) are the only ones that are missed.

### Observed divergences without a run

Where the code does something else than a comment or a reader may expect, and a
checked property says what does hold:

- `authz.go:136`: a poll that cannot read the revision only logs, so the old snapshot
  serves for as long as the reads fail; the comment on `Service` promises to deny.
  What holds: the snapshot is one whole version (`ImplementsView`), and catches up
  once reads work (`CatchesUp`).
- `yaml.go:75`, `107`: the numbers of grants added and removed that grants-apply prints
  come from reads made before its transaction, so with another command between they may not
  be what was written; and when the revision cannot be read after the commit
  (`yaml.go:186`), the command fails although its change is in force.  The model has the
  failure (`ApplyAbort`), not the numbers; `ReportsAreTrue` is about neither, but about the
  revision reported and about doing nothing.
- `execrecord.go:355`: a day of authentication failures without a tool call gets no
  summary before its raw file goes.  `RecordsSurvive` is stated for days with a call.
- `diff.go:167`: two `references` of one table to the same target share the UNIQUE
  key; one join condition is lost, and each rerun writes.  `RerunFindsOnlyDoubles`
  says that nothing else makes a rerun write.
- `embed.go:241`: a leftover vector of a buried entity can keep the index at a former
  model's length.  `IndexIsWhole` says which length the index has, and that nothing
  of the kind happens while no command failed and each had a key.
- `migrate.go:137`: a `CHECK … IN` written inside a column is met before the column is
  added to the table, and is never collected; so is a table constraint written
  before its column.  `migrate.go:333`: overlapping `CHECK`s attach a value twice,
  although the comment says the values are without doubles; the compile gate then fails.
  Table constraints without a name share the registry key `""`.
- `migrate.go:184`: a foreign key written with its column under a name of its own loses its
  join condition.  `applyConstraint` takes the columns from `FkAttrs`, which the parser
  leaves empty there; only the anonymous form gets the name of its column instead.  The
  edge has no columns, `On` returns `""`, and nothing is warned of, although the comment
  on `On` (`structure.go:57`) knows of one reason only, one that is.  `Columnless` is this,
  and `DraftIsReplayed` excepts such tables.
- `DROP COLUMN` leaves the edges and registry entries of the column, `DROP TABLE …
  CASCADE` the edges of other tables; dropping one of two equal foreign keys drops
  both edges; `DROP TABLE schema.t` also removes a table with the name of the schema;
  `SET SCHEMA` never reaches the branch that warns; `LIKE`, `INHERITS`, `PARTITION OF`
  and `CREATE TABLE AS` are not seen.  `BlindSpots` and `Unseen` stand for these;
  `DraftIsReplayed` says nothing of the values and edges of blind tables.  A file that
  cannot be parsed is an error, and
  collection goes on although the comment says it stops.
- `migrate.go:208`: `truncateIdent` keeps the first 63 bytes of `<table>_<column>_fkey`,
  while PostgreSQL shortens the table and the column and keeps `_fkey`.  For a longer name a
  `DROP CONSTRAINT` by PostgreSQL's name is not found in the registry, the edge stays in
  the draft, and nothing is warned of, against the comments at `migrate.go:205` and `683`.
  `CutName` is this, and a table with such a key is blind.
- `migrate.go:365`: the commands of an `ALTER TABLE` are applied as they are written,
  while PostgreSQL drops first, then changes types, adds columns and adds
  constraints.  `ADD COLUMN b …, DROP COLUMN b` of a table that has `b` replaces the column in
  PostgreSQL and removes it from the draft; `ADD CONSTRAINT c …, DROP CONSTRAINT c` replaces a
  constraint there and drops the new one here.  `migrate.go:357` and `DROP TABLE` go by the bare
  name and do not look at `IF EXISTS`: where PostgreSQL finds no table in the schema given and
  does nothing, the table of that name in another schema is altered or dropped in the
  draft.  `Astray` names these tables, and `DraftIsReplayed` excepts them altogether.
- `calibrate.go:137`: in `NOT LIKE 'pg_%'` the `_` stands for any character, so that a table
  `pgw_orders` is left out as well as `pg_orders`.  Made by hand it is never reported, which
  the comment at `calibrate.go:107` calls what calibration is for; drafted, it is reported
  missing.  `Introspected` is this; `DriftIsReported` says that tables LIKE 'pg_%' and tables
  without columns are the only ones that can be overlooked.
- `calibrate.go:172`, `207`: the precision of a time and the length of a `bit` are not
  among what is asked for, so drift in them is silent; `DriftIsReported` says which mods
  are compared (`Shown`).  The other way round a draft with `timestamp(3)`, `bit(8)`,
  `char`, `numeric(10)` or an array type is reported as drift when there is none.  `DraftForm` has
  the first two; no property speaks of false alarms.
- `draft.go:254`: `os.WriteFile` empties the draft and then writes it.  When that fails, or
  the process is killed between, what people wrote in it is gone and there is no
  copy, although the command ends with 失败服务保持原样, the failed service stays as it was
  (`cmd/dgw-collect/main.go:118`).  An empty or cut file is refused by the next scan; one
  cut where it still is a draft is taken for what people said.  `lost` is what such a
  write has taken, and `WordsKept` says that nothing else goes: no scan after it, no
  refusal, and no draft thrown away and collected anew.
- `draft.go`: a join condition people fill in for an edge the collector left open is
  discarded by the next merge, which is why `WordsKept` excepts edges.
- `search.go:457`: under a concurrent sync a traversal may list edges whose node is
  gone from the details; `list_enum_values` takes its total from another statement
  than its values.  `AnswersAreRight` says what holds then, and that neither happens
  within one version.  `search.go:678`: the note on a missing join condition is
  overwritten by those on time columns.
- `grants_expander.go:43`: a target is read in two statements, first its kind, then what it
  `describes`.  When a sync turns the metric into a concept between them, what the
  concept describes is granted as if it were a metric's tables, a column too.  The second
  half of `GrantsAreMeant` says that this is the only way to a grant on anything but a table.
- A grants-apply that expanded before a sync and commits after that sync's check
  leaves a gap of which only the next sync warns; `GapsAreWarned` is stated for a sync
  nobody wrote beside.
- `backup.go:32`: when another connection checkpoints into the file while it is
  copied the copy may be torn, although the command prints 可直接用于回滚恢复; and a
  failed backup has already truncated the older one at `--out`.  `BackupIsSound` holds
  for undisturbed copies, and for the store in any case.

## 5. Proofs

A theorem that states a property of a run says of every value of the constants
what the run shows on its instance.  Each rests on an inductive invariant, most of them checked by TLC on the run's
instance first.

`AuthzProofs` proves for every set of grants, patterns and apply processes and
all bounds: `TypeCorrect`, `SnapshotNeverStuck`, `ReportsHold` and
`AuthzImplementsView`.  None of the invariants is inductive
alone.  The strengthening relates every revision the daemon remembers to the
history: the newest version is the table; while a load is under way the
revision it read is no newer than the version of its rows; a loaded snapshot
holds the rows of version `floor`, and its revision is at most `floor`, which
gives `NoStuckSnapshot` when it equals the newest.  For grants-apply it keeps
what the compare step saw, and that it reports no revision older than its own.
Each action is one step of the proof; the refinement
maps permission writes to `Commit`, `LoadSwap` to `Adopt`, `FailClosed` and
crashes to `DenyAll`, and everything else to a stutter.

`GatewayProofs` proves `TypeCorrect`, `GateIsExact`, `QueriesAreGranted`,
`RevocationIsImmediate` and `RecordsTellTheTruth` for every finite set of calls and
any keys, users, tables and limits.  The invariant `IInv` adds to the type invariant:
`ViewIsWhole` (what is allowed is version `floor` or nothing), `CallKnows` (for
each call, a table already passed was granted by a version between the arrival
and now; nothing is left to do once the query runs; a revoked key has not got
past `verify`) and `SlotsAccounted`.  The lemmas on the gate say what `Acquire`
and `Release` do to the set of holders and its cardinality; each step of a call
changes one call, so the other calls are handled once, by `CallKeeps`.  The records
have an invariant of their own, `RInv`: the outcome a call carries fits the place it
has reached, each line fits the call it names, there is one line for a call, and the
calls that ended without a line are no more than the faults so far.

The same module proves `ScopesNest` and `VerdictHolds` about `CteScope`, for any inputs,
grants and depth.  A statement is a tree, so facts about it are inductions over its
depth, as least exceptions again (`Induct`): the walker's scopes and PostgreSQL's
differ in what they hide only (`OuterHides`, `Alike`), and only for the tables in
`Early` (`SameStep`, `WideReads`).  Between two steps the walk is in the middle
of a statement, and `Amid` says where.  `Nested`: each frame ahead has a depth, the number of
scopes that will be open when it is reached; depths fall by one behind a pop and
nowhere else, the first is the number of scopes open now, and the last frame is the
end of the statement, at depth 0.  That gives every tree still ahead the scope the
code will have for it, and `Halves` then says that a statement is what was found of
it and what is still ahead: a write has been seen or is in a tree ahead, and while
none was seen a table of the statement is among `refs` or is one of a tree ahead.  Each visit replaces the first frame by
the frames of its parts (`Spliced`, `Advance`) and keeps both.  At the end nothing is
ahead, so that `refs` is the statement's tables and `violations` whether it writes.  The rest
(`WalkInv`) goes from statement to statement and from table to table.  The invariant
speaks of the set of statements read so far, which no variable holds, so TLC has
not evaluated it; the two properties it implies TLC checks.

`ExecRecordProofs` proves `RecordTypes`, `RetentionIsKept`, `SummaryKey` and
`NoRecordLost` for any processes, records, days, faults and crashes.  The invariants
are layers.  `Orderly`: every Logger's handle, list and place fit together, a
write spans at most one midnight, a record is in flight in one process and at most
`MaxLate` days old.  `ListsExpired` and `Swept`: what a prune listed stays expired,
and what is expired is on the list until nothing is.  `Kept`: a raw file that
exists holds every line of its day, and only expired ones have been removed.
`SummariesTrue`: a summary, finished or in the making, counts at least as many
lines of its day as the size it carries (the size is taken before the file is read).  `Preserved`: a raw
file goes only when the summary of its day is complete.  Each of the twenty or so actions
is first reduced to one of a few kinds of step (`Steps`: a process stops,
starts, takes a record, begins to write it, appends or rolls over), and each layer is proved for the kinds.  The last three theorems
are for the constant-level hypothesis `Roomy`: raw files are kept for longer than a
record can be late and a midnight more, as the defaults do; without it they are false
(section 3, Assumptions of `ExecRecord`).  `RetentionIsKept` needs `Roomy` or `Alone`,
one process in the directory, whatever its retention, which is what run `ExecRecord` has.

`SemanticSyncProofs` proves `TypeCorrect`, `IndexFollowsEntities`,
`AloneReachesTarget`, `SettledIsClosed` and `RerunIsQuiet` for any commands and any set of
directories.  The heart is `DifferenceReachesTarget`: upserting what the
difference adds or changes and burying what is gone turns any table with unique
keys, tombstones included, into the target, when the snapshot is the live part
of that very table; `ApplyToTable` lifts it to edges, where doubles leave a choice.
The invariant adds that a command that is still alone holds a true snapshot of
every table it has read, and that its directory compiled.  That an edge of a
compiled directory joins two of its entities is `CompiledClosed`.  For the rerun,
`AsLastApplied` says what the tables hold until the next commit, and
`DifferenceToOwnEffect` that a table differs from the target it was made for by edges
with one key only.

`EmbeddingsProofs` proves `TypeCorrect`, `IndexHoldsStored` and `IndexIsLeftWhole` for
any finite set of entities and any texts, models and lengths.  `IndexIsTrue` is not
inductive because of the step
that fills a new index: `FillsItsOwn` says that nobody changes the length between
CREATE and fill, `SavesVectors` that vectors are only asked for live entities and
under a model.  `IndexIsWhole` is about a command at rest; `WholeInv` says
what it means on the way there.  `IndexKept`: the length the command read while opening
is still the table's when it fills, so that a backfill leaves nothing out; a rebuild
under way has the length that is wanted next; and a command without an error has a
whole index (`Filled`) wherever it is not rebuilding it.  `VectorsKept`: at each
place, which entities still have an outdated vector or none (`AllBut`).  A gateway that
opens the store in between finds nothing to add to a whole index.  That the longest of
finitely many lengths exists is `MaxIs`.

`DraftsProofs` proves `TypeCorrect`, `PeopleKeepTheirWords`, `TimeNeedsConfirming`,
`ScansStayInTheirLane` and `CleanExitIsTrue`
for any services, elements, structures, models and bounds.  What people wrote is,
between the truncation of a file and its filling, in the memory of the scan only:
the invariant adds `Held` (the draft about to be written says what people said of
every element that stayed, words already lost aside, and its time marks are confirmed ones; once
the old file is gone nothing is said of any other element) and `Shapes`.  A write that is cut
off there takes words and says so in `lost` (`CutOffStep`); no other step adds to it.  `Merged` is the lemma on
`MergeSemantics` they rest on; every action of people, of the scan and of failure is
a step.  A clean exit is what `Tracked` leads to: each service of the list is
behind the scan or ahead of it (`Planned`), no error so far means that what was read passed the
cross-check (`Checked`), and the draft being written and those already written have the structure
that was read (`Merging`, `Written`).

`SemanticStoreProofs` proves six theorems, each from an invariant of its own, for
any catalogues, users, files, searches, pages and numbers of clients.
`TypeCorrect` (`Typed`).  `BackupHoldsOneVersion`:
the file is always one version, at most the WAL is newer (`FileInv`), and the pages
copied so far are of the version the file has had since the checkpoint (`CopyInv`).
`EveryGapIsWarned`: what the check of a sync has found so far is what there is to
find among the rows it has been through (`Found`), as long as nobody wrote beside
it.  `FilesGrantWhatTheyMean` (`ApplyInv`): while every statement read one version, what
is wanted for the targets already expanded is their meaning, and the tables found
for the current one together with what is left to read are its meaning; read across versions,
each table found was live in one of them.  The first attempt at this proof failed on a
metric that a sync turns into a concept between two statements; TLC confirmed it with one
more version in the run, and `Converted` now names the case (section 4).
`KeywordsComeFirst`: of two hits, one of the keyword channel, the sums of the
reciprocal ranks compare as the weights do, by `KeywordWeight * (RrfK + 1) > VectorWeight * (RrfK + CandidateCap)`, which is
2·61 > 1·110 in the code (`WorstKeyword`, `FusedLeads`).
`AnswersHold`: `TraverseInv` says that the nodes and edges of a traversal are, as long as
every query read one version, those within the depth reached or a full cut of them
(`Level`, `At`, `Expanded`), and that the next frontier is what the last query added; `AnswersInv` does
the same for the other tools, query by query (`Halfway`), up to `AnswersAgree`.
The depth of a ball is a number, so the facts about it (`BallGrows`, `BallStays`) are
inductions: a set of numbers that were exceptions would have a least one (`LeastNat`,
from `WFMin`), which avoids the induction theorems with an operator parameter.

`MigrationsProofs` proves `TypeCorrect`, `CalibrationIsComplete` and
`DraftIsProduction` for any statements, of any number of columns and constraints, and
migrations of any length.  The first two follow from `Types`.  `DraftIsReplayed` is not inductive: what
`DROP CONSTRAINT` takes away depends on the registry, of which it says nothing.
`Following` adds, for each table that is not astray: it is the one of its name, in the same schema;
production knows every constraint by the name PostgreSQL would give it; and unless the table is blind, its
values and edges are those of the registered constraints (`Agrees`), and the registry
holds the constraints that count, by PostgreSQL's names (`Has`).  Every command of an `ALTER
TABLE` keeps this of its table (`CommandFollowed`: `AddColumnFollowed` and its like), so the commands in
turn do (`AlterFollowed`), and PostgreSQL's passes come to the same or the table is astray.  One
constraint added keeps both parts (`ConstraintStep`, `InlineStep`); a statement applies
one element after the other (`InlinedIs`, `BuildIs`, `AlteringIs`), which makes the proof an
induction over its elements, again by a least exception (`Induct`); one dropped takes
away exactly what no other gives (`DropConstraintStep`), which is where two foreign keys of one
edge have to be excluded.  That two constraints written with one new column are never such
a pair was the step that failed first; looking it up in the code showed what happens to a
named one, `Columnless` (section 4).

The assumptions are the named `ASSUME`s of the modules: bounds are natural
numbers, `1 <= PerKey <= Total` (as `loadgate.New` enforces), calls are a finite
set and there is a key, the three kinds of records are told apart (a key event
is not a call), what a definition is nested in is defined in the same
directory, there are finitely many entities and vectors have a positive length, there
is at least one page, the
parameters of a search satisfy the inequality above, a structure maps elements
to types, a DDL statement names a column once and puts constraints on columns of its
table, no table is called like a schema, the statements to validate are trees of some bounded depth in which writes stand
where the grammar allows them, and a version of the catalogue is what one sync alone commits: finite, closed,
and with the table of each column.

Only model-checked: liveness (`CatchesUp`, `CallsEnd`, `LoggerHeals`), which is beyond the
prover as is `ENABLED`.  Every other property of a passing run is a theorem.

## 6. Plan

The parts of the collector left out: how the elements of a model are found in Go
source (`gorm.go`) and how the text of a type is cut out of a statement
(`columnType`).

Not modelled, and not planned:

- configuration parsing, error formatting, flags and printing: no state;
- database routing and self-check (`internal/db`): routing is the lookup in a map that
  is complete before the first request, the self-check a sequence of reads that ends
  before anything is served; neither meets another actor;
- `serve-stdio`: the request path of `Gateway` with one key verified once at the
  start, as its comment says; the start itself is a single read;
- the acceptance suite, the demo and vendored test data: they drive the gateway
  from outside;
- PostgreSQL and SQLite, except as the external parts of `Migrations`, `CteScope` and
  `Backup`.
