# A verification project for dpg

`dpg` is a declarative schema compiler for PostgreSQL: a project declares
tables, schemas, roles and so on in `.dpg` files; `dpg apply` compares the
declarations with a *snapshot*, a JSON file that records what was applied last,
makes a migration of the difference, runs it and rewrites the snapshot.  This
directory holds TLA+ models of the parts whose correctness depends on the order
of events, the TLC configurations that check them on small instances, and
machine-checked proofs of the most important results.

    tlc -workers 2 -config ApplyPair.cfg MCApply.tla     # one run
    tlapm ApplyProofs.tla                                # one proof module

`PROJECT.json` lists every run, mutant, theorem, hazard and finding, and maps
every definition to the source lines it models.

## 1. Inventory

The program is Go (`src/core`), a language server (`src/lang/lsp`), editor
plugins and a tree-sitter grammar, of which one file, `scanner.c`, is C written by
hand and the parser is generated.  A command runs as one process and one
goroutine; what runs concurrently is *several invocations*, on one machine or in
CI jobs, the people who edit the sources and the database meanwhile, and the
goroutines of the language server.

| Component | State | Operations | What makes it correct |
|---|---|---|---|
| apply (`cmd/dpg/apply.go`, `targets.go`) | none of its own between runs; within one: flags, target, compiled objects, plan | compile, lint, load, diff, two gates, prompt, connect, execute, archive, save; for a cluster, then each database | nothing is destroyed without the flag; what is recorded is what is there; repetition converges |
| executor (`internal/executor`) | one connection, one transaction | pre-flight role check, BEGIN ... COMMIT, statements outside | the transactional part is all or nothing |
| snapshot store (`internal/snapshot/store.go`) | one file per target | Load, Save | can be read after a crash |
| snapshot conversion (`convert.go`) | entries keyed by qualified name | Populate | one entry per object |
| migration archive (`migrations.go`) | files named by second | SaveMigration | no migration is lost |
| differ, passes (`internal/diff/differ.go`) | none; input: declarations in dependency order, snapshot | pass 0 schemas, 1 renames, 2 drops, 2.5 detached partitions, 3 creations and alterations | executing the plan yields the declared state; a second run has nothing to do; renames keep data; PROTECTED is kept |
| differ, inside an object | none | columns, constraints, indexes, policies, triggers, grants, enum values, partitions | the same, for the parts |
| emitter (`internal/emit`) | none | split by transactionality, render | order is kept |
| resolver (`internal/graph`) | none | edges, Kahn's algorithm, cycles, deferral of foreign keys, recursion | topological, total, terminates, cycles reported |
| compiler, macros, parsers, builder, merger, LIKE | macro table shared by the files | read twice, tokenize, parse, build, merge, resolve, sort | order of files does not matter where it must not |
| linter | none | rules over objects | errors stop apply |
| plan, watch | last modification times | poll, plan again | every edit is planned in the end |
| verify, dump, introspection | none | read the catalog, diff, write files | drift is what differs from the declarations |
| project, config, dotenv, secrets | environment, settings | discover, override, resolve | precedence |
| formatter, ui, docs, init, portability, plugin API | none | text | |
| language server (`lang/lsp`) | open documents, timers, child processes, cached diagnostics | open, change, close, debounce, validate, publish | diagnostics belong to the latest text and reach the editor |
| external scanner (`lang/grammar/src/scanner.c`) | tag of the last dollar-quoted string and its memory | scan, serialize, deserialize | memory bounds; tokens end where the compiler says they do; every call returns |

How they interact: commands call the compiler (which calls tokenizer, parsers,
builder, merger, resolver), then differ, emitter and executor through the
registry of `internal/pipeline`.  Shared between processes are only the source
files, the snapshot files, the archive and the databases; there is no lock on
any of them.  The language server starts `dpg validate` as a child process.  The
external scanner is called by the tree-sitter runtime of an editor and has to
agree with the compiler's tokenizer, with which it shares no code.

The hard behaviours: two applies of one target; edits while an apply waits at
its prompt; failures before, in and after the commit; a crash in the middle of
the snapshot's write; long histories of edits with renames and names that are
used again; statements whose order decides whether PostgreSQL takes them;
cycles of foreign keys; timers, goroutines and child processes that overtake
each other.  `PROJECT.json` lists each under `hazards` at its line.

## 2. Modules

| Module | Models | Composed of |
|---|---|---|
| `Deployment` | what apply promises: databases move between versions of their sources | abstract, implemented by `Apply` |
| `Apply` | an invocation of apply step by step; processes, files, databases | differ, emitter, executor and store as operators of it |
| `DiffPasses` | the passes of `Differ.Diff` over schemas and tables, and what PostgreSQL does with their statements | the executor's loop, the resolver as a constraint on the order (`Sorted`) |
| `TableDiff` | `diffTable`: columns, constraints and indexes of one table | |
| `Sorter` | `Resolver.Sort` with its cycle handling | |
| `Workspace` | the language server: documents, timers, validations, publication | |
| `SkipText` | how the Go code skips dollar-quoted strings and block comments, as functions | |
| `ExternalScanner` | `scanner.c`, one character of lookahead at a time | compared with `SkipText` |
| `MCApply`, `MCDiffPasses`, `MCTableDiff`, `MCSorter`, `MCExternalScanner` | the instances TLC checks (`Workspace` needs none) | |
| `ApplyProofs`, `RecordProofs`, `DiffPassesProofs`, `MigrationProofs`, `TableDiffProofs`, `SorterProofs`, `WorkspaceProofs`, `ScannerProofs` | theorems | `RecordProofs` extends `ApplyProofs`, `MigrationProofs` extends `DiffPassesProofs` |

`Deployment`, `Apply`, `DiffPasses`, `TableDiff` and `Sorter` are layers of one
system.  `Apply` takes a schema for a set of objects and a plan for a set of
statements, because gates, locks, commits and files do not look further;
`DiffPasses` takes one migration at a time and looks at the order of its
statements and at names; `TableDiff` looks into one table; `Sorter` shows where
the order that `DiffPasses` assumes (`Sorted`) comes from.

### Deployment and Apply

| State | Code |
|---|---|
| `sources[t]` | the `.dpg` files of target `t` |
| `snapshot[t]` | `<cluster>/<database>.json`: missing, truncated, garbled or written |
| `db[t]` | committed state of the live database |
| `pc`, `opts`, `ti`, `desired`, `plan`, `done` | the locals of `runApply`, per process |
| `versions[t]`, `disturbed` | history: what was declared at any time; targets edited during a run or while the database and the snapshot were apart |
| `faults`, `edits` | bounds |

An edited object is another object, so an ALTER is a drop and a creation here;
what sets kinds of statement apart are the sets `NonTxCreate` (`CREATE INDEX
CONCURRENTLY`), `NonTxDrop` (`DROP SUBSCRIPTION`), `CautionDrop` (`DROP INDEX`),
`IfNotExists` (`CREATE EXTENSION`) and `Instruction` (a plan line such as
`-- PARTITION BY changed`, which the operator carries out).  Each action is a
stretch of `runApply` between two accesses to shared state; `runClusterApply` is
the same, except that a cluster without source files is skipped
(`SkipCluster`).  `Save` is two actions because `os.WriteFile` truncates and then
writes.  Statements of a transaction become visible at `Commit`; a statement
that touches an object another open transaction touched waits (`Locked`), and
PostgreSQL resolves deadlocks (`DeadlockAbort`).  `Interrupt` is an error return
or the death of the process at any point of `FaultPoints`; `InterruptCommit` is a
commit whose acknowledgement is lost.

`Deployment` has neither processes nor plans nor failures: a database changes by
all transactional statements between two versions of its sources (`Migrate`), by
one statement that no transaction can hold (`Finish`), or by the operator's hand
(`Operate`); what is on record is a version or unreadable (`Record`).  `Apply`
implements it with `live <- db` and `recorded <- Record`, the versions a readable
snapshot lists.  The promise is weak on purpose: the two versions a migration
leads from and to need not be the last ones, because nothing is locked.

### DiffPasses

An object has a key (schema and name), the objects it refers to, a body and
PROTECTED.  `Begin` is the call of `Diff` (with its errors DPG-E021 and DPG-E022
in `Rejected`); `Pass0` to `Pass3` visit the declared keys in the order of the
resolver or, for drops, the snapshot in any order, as the Go map does.  Planning
and execution are one: neither the declarations nor the snapshot change in
between, so the statement a step emits is executed in that step, in the
catalog `work` of the open transaction.  `Create`, `Alter`, `Move`,
`RenameSchema` and `Drop` say what PostgreSQL does with the statement, including
its refusal, which rolls the migration back.  `origin` follows an object through
renames within the transaction, to tell a rename from a drop and a creation.

### TableDiff

| State | Code |
|---|---|
| `declared` | `ir.Table`: columns with kind (plain, STORED, VIRTUAL), the columns a generated one is computed from, NOT NULL and RENAMED FROM; named constraints and indexes as sets of columns |
| `recorded` | `snapshot.SnapTable` |
| `live` | the table in PostgreSQL |
| `edits` | bound |

`Rejected` are the three errors (a collision, DPG-E021, DPG-E019).  `Plan` is the
sequence of statements of `diffColumns`, `diffConstraints` and `diffIndexes`, in
their order.  `Run` is what `Execute`, one transaction, makes of it: `Effect` says
what the statements do, the cascade of DROP COLUMN and the translation by RENAME
COLUMN included, and `Sensible` which of them PostgreSQL takes.  It refuses to drop a
column that another is computed from, to compute one from a generated column, and to
index a VIRTUAL one or constrain it.  `DROP INDEX IF EXISTS` is emitted without the
index's schema and nothing sets `search_path`, so its effect depends on the constant
`OnSearchPath`: off the path it does nothing and reports no error.  (That it may then
find an index of the same name in another schema is not modelled: there is one table.)
`row` in a column tells whose rows it holds.

Two expressions are told apart by the columns they name, which is what the order of
statements can break.  Statements about declared columns come in a fixed order, as in
the sources (`Precedes`), which matters between a generated column and those it is
computed from; other statements of one kind concern different columns, constraints or
indexes, and their order does not matter.  A constraint is one with a list of columns (UNIQUE,
PRIMARY KEY); its type and expression, defaults, types of columns (and so the change of
the type of a column that another is computed from, which PostgreSQL refuses) and
unnamed constraints are left out.

### Sorter

Objects are numbers in source order.  `fixed` are the edges that are not foreign
keys; a foreign key contributes its edge as long as it has not been taken out.
One round is Kahn's algorithm as written (`Dequeue`); `Break` is what happens to
a cycle; which cycle `findCycle` meets first depends on Go maps, so any may be
met.  A nested call of `Sort` is a new round on fewer foreign keys.

### Workspace

| State | Code |
|---|---|
| `opened`, `buffer`, `disk`, `last`, `inbox` | the editor, its messages in order |
| `text` | `docs[path].Text` |
| `timers` | timers that have not fired; `doc.timer` is the last one |
| `fired`, `running` | goroutines in `validate`, before and after `GetText` |
| `cached` | `diagnostics[path]` |
| `publishing`, `notifying` | goroutines in `publishDiagnostics`, before and after they read the cache |
| `shown` | what the editor displays |
| `done`, `raced` | history |

A text is the number of the edit that made it, and its diagnostics are that
number too.  Message handlers run one at a time, as in glsp.  A stopped timer does
not fire; one that has fired cannot be stopped.  `GetText` falls back to the file
for a document that is closed.

### ExternalScanner and SkipText

`ExternalScanner` has one action per branch of the loops in `scanner.c`.  The text
is not chosen in advance: `Advance` picks the next character.  The runtime may
call with any set of valid symbols, keep the state (`Serialize`) or give the token
up (`Discard`), and restores the last state it kept before a call
(`Deserialize`).  `tag` and `cap` are the C buffer, whose length and allocation are
apart; `Narrow` is the cast to `char`.  `SkipText` says in one formula each what
`peekDollarTag`, `skipDollarQuoted` and the formatter's `SkipBlockComment` return, so
that the scanner's token can be compared.

## 3. What the runs show

Passing runs:

| Run | Question | Answer |
|---|---|---|
| `ApplyPair` | two processes, all flags, a fault, edits, a foreign table | losses are permitted (`LossesAreAllowed`), foreign objects survive (`ForeignSurvives`), transactions are atomic (`TransactionIsAtomic`), the record is true (`RecordIsTrue`), and `Deployment` is implemented (`Deployed`) |
| `ApplySolo` | one process, cluster and database, a fault before the commit, edits at any time, manual steps, a foreign extension | the record is true (`RecordIsTrue`); repeated runs reach the declared state (`Converges`) |
| `DiffTables` | all histories of edits of five objects | `Applied`, `AppliedTwice`, `RenameKeepsContents`, `ProtectedIsKept`, `OnlyDropsFail`, `MovesFindTheirSchema` |
| `TableColumns` | four edits of a table in any order, migrations between them | plans run (`PlanRuns`), leave what is recorded (`RecordIsLive`), keep rows (`RowsAreKept`), and are empty the second time (`AppliedOnce`) |
| `SortThree` | all graphs of three objects | `SortIsTopological`, `ErrorsAreCycles`, `Returns` |
| `ScanTexts` | all texts of six characters, all sequences of calls | `TagInBounds`, `DollarAgreesWithTokenizer`, `CommentAgreesWithFormatter`, `Returns` |
| `WorkspaceEdits` | one document, two edits, two validations at a time | one timer (`OneTimer`), no change unvalidated (`ChangesAreValidated`), the cache is of the text (`CacheIsOfText`) |

Runs that find the code and its documents to disagree:

| Run | What happens |
|---|---|
| `ApplyInterrupted` | a failure after the commit is never recovered from: no `IF NOT EXISTS` where the RFC relies on it |
| `DiffReusedName` | a table declared under a name that is renamed away is not created |
| `TableRedefined` | a constraint that keeps its name and changes its columns is recorded and not changed |
| `SortSwallowed` | the error of a nested sort is dropped |
| `WorkspaceUnpublished` | the diagnostics of the last change are computed and never sent |

The models show further limits of the code; the passing runs are stated so as to
leave them out, and each can be seen by dropping the assumption named here:

- After a failure past the commit, or when two runs with an edit between their
  compilations write one after the other, a state is recorded the database is not
  in: `RecordIsTrue` without `disturbed`.
- A process that dies in `write` leaves a truncated snapshot, which `LoadFails`
  reports from then on (the RFC, line 6514, asks for a temporary file and a
  rename): fault points of `ApplySolo` with `"write"`.
- Once its last source file is gone a cluster is skipped, and what the snapshot
  lists of it is never dropped: `Converges` excepts it (`Skipped`).  It also excepts
  foreign objects that were declared for a while and never recorded.
- Drops come in the order of a Go map, so the DROP SCHEMA may precede the DROP
  TABLE of its table and is refused: `OnlyDropsFail` excepts pass 2.
- A table that moves with its schema, which is renamed in the same migration, is
  addressed in the schema's old name and the statement is refused; so is the
  creation of a table under the name it has got that way.  `OnlyDropsFail` excepts
  migrations with renames.  A table that is dropped while its schema is renamed
  stays: `DROP TABLE IF EXISTS` in the old schema does nothing, and neither the
  sources nor the snapshot know the table under the new one.  With `FullSchemas` for
  `Sources`, `Applied` is violated; in `DiffTables` a schema is renamed only while it
  is empty.
- In `TableDiff`, `Orderly` keeps six kinds of edit out unless `Careless` lists
  them.  Each alone violates a property of `TableColumns`, `RecordIsLive` unless another is named:
  - `"redefine"` is `TableRedefined`.
  - `"rebuild"`: a change of a generated column drops and adds the column, and its
    NOT NULL, constraints and indexes are not made again.
  - `"reuse"`: a column renamed onto a recorded name is taken for applied, and of two
    columns renamed from one, one is.
  - `"dangle"`: a constraint or an index left on a column that is gone is dropped by the
    cascade and recorded; an expression that still names a column by the name it had
    before a rename is not looked at by `checkNoStaleColumnRefs`, equals the recorded one
    and is recorded as it is.  (Where such sources need a statement, PostgreSQL refuses it,
    and `PlanRuns` is violated too.)
  - `"compute"`, which violates `PlanRuns`: columns that were removed are dropped before any
    generated column is changed (`differ.go:8067-8080` and `8210`), so PostgreSQL
    refuses to drop one whose generated column goes on without it, or is removed too but
    dropped later (`Orderly` keeps both out, in whatever order they would be dropped);
    and an expression may name a column that the same migration only adds or makes plain
    further down.
  - `"miss"`, off the search path: an index that was removed stays, although the
    snapshot forgets it, and one that was redefined is not dropped, so that the CREATE INDEX
    that follows is refused (`PlanRuns`).
  In the two runs the schema is on the search path (`OnSearchPath = TRUE`).  With
  `FALSE` and `Careless = {}` all properties of `TableColumns` hold as well; the run is
  then about tables whose indexes never change but with their columns.
- `canDefer` does not find foreign keys written without their schema, and takes a
  cycle of deferrable ones for one that has none: the case `~f.qualified` of
  `ErrorsAreCycles`.
- A foreign key that was taken out is appended to the constraints of its own table
  again, whose creation then precedes the table it refers to: `SortIsTopological`
  speaks of the edges that are left.
- A validation of an older text that ends after that of a newer one overwrites its
  diagnostics: `CacheIsOfText` without `raced`.
- Block comments nest for the editors' scanner and the formatter, and not for the
  tokenizer (`scanner.go:305`; the RFC, line 808, says they do not), so comments are
  compared with the formatter only.

### Bounds

- `Apply`: two processes are enough for a race of load, execution and record,
  which involves one conflicting write; one fault and one or two edits
  (`MaxFaults`, `MaxEdits`) let an edit fall before, into and after a failed run.  One
  transactional and one non-transactional object are the least with which a plan
  can be half executed, and one further object per special kind is in `ApplySolo`.
  `RecordIsTrue` speaks of targets that are not `disturbed`: nobody edited during
  a run, nor while the database and the snapshot differed.
- `DiffTables`: two names in `public`, a further schema with one of them, which may
  be an empty one renamed into which a table moves in the same migration, two bodies; each of the three tables may be the rename or move of another, refer to
  one and be PROTECTED.  `Disciplined` leaves out sources that use a name which a
  RENAMED FROM still mentions; `DiffReusedName` is the case.  Histories are unbounded.
- `TableColumns`: three names are the least for a rename, its reversal and a new
  column under a name used before; four edits (`MaxEdits`) make a rename, a
  migration, a rename of what was renamed and a change of what depends on it.  One
  constraint and one index are compared by name and by definition respectively;
  two of a kind do not meet in the code.
- `SortThree`: three objects make cycles of two and three, and two cycles that
  share a node; every set of dependencies is an initial state, and every set of
  foreign keys however they are written.  `SortSwallowed` has four, for two
  disjoint cycles.
- `ScanTexts`: six characters (`MaxText`) hold a tag of one letter with a body, a
  false and a true end, and a comment in a comment.  The first allocation and the
  limit of what is serialized are 1 instead of 16 and 127, so that both are
  exceeded; `TagStaysInBounds` holds for any.
- `WorkspaceEdits`: two edits and two validations are the least with which one
  overtakes another; one publication at a time and two messages on their way.
  The bounds only delay: a message that does not fit is sent later.

### Fairness

`ApplySolo` and `ApplyInterrupted` assume of the operator that prompts are answered
and that an unattended run with every permission is started again and again
(strong fairness of `Start`, because other runs may be going on), and of the
program that a step that can be taken is taken (weak fairness of `Progress`): a
process has no waiting of its own, and what it waits for, locks, is resolved by
the server.  `Returns` of `Sorter` and of `ExternalScanner` assume that a function
that was called runs.  `Workspace` assumes weak fairness of the server's message
loop, of each timer and of each goroutine, and that child processes end; nothing
is assumed of the editor.

## 4. What is proved

`ApplyProofs`, for any number of processes, targets, objects, faults and edits,
from `ConstantsAssumption` alone:

- `TypeCorrect`: `TypeOK`, which is inductive by itself; what needs the argument
  is that `Advance` never leaves the list of targets.
- `DestructionIsAllowed`: `LossesAreAllowed`.  The invariant `PlanInv` says that a
  process past the gates holds a plan its flags permit; a loss is then traced to
  the one action that caused it.
- `UndeclaredSurvives`: `ForeignSurvives`.  `OriginInv` says that a readable snapshot
  lists a version of the sources, what a process compiled is one, and its plan is
  the difference of two; none of it can come from the catalog.
- `TransactionsAreAtomic`: `TransactionIsAtomic`, from the same invariants: only
  `Commit` and `InterruptCommit` change transactional objects, and both carry out
  `TxOps(plan)` in full.
- `ApplyDeploys`: `Deployed`, the refinement of `Deployment`.  By `OriginInv` the two
  versions a plan lies between exist; each action of `Apply` then maps to one of
  `Deployment` or to a stutter.

`RecordProofs`, on top of it: `RecordsAreTrue`, that is `RecordIsTrue`.  A snapshot is
written long after the difference was taken, and other processes may have loaded,
executed and written in between.  `TruthInv` says what is left of the truth then: for
a target that is not disturbed, every plan, whoever made it and however long ago,
still *bridges* the database to its sources, that is, creates what they lack and drops
what is left over; a process past its statements has left nothing to bridge; and a
record that can be read bridges too when a plan is made of it.  It is inductive because
the statements of others can only bring the database nearer to the same sources, so
that a plan never becomes wrong, only redundant.

`DiffPassesProofs`, for any schemas, names, bodies and sources: `PassesTypeCorrect` and
`MovesAreToSchemas`.  The second assumes `SchemasAreRenamedAway`: no schema is
declared under a name the same sources rename away, `public` included; without it a
recorded schema need not exist, and the move fails.  `SchemaInv` says that the
database has the schemas of the snapshot, that pass 0 adds the new ones in turn,
that within pass 1 a declared schema is there or has its rename before it, and that
no drop takes a declared schema; the order of the resolver then puts the schema's
rename before the move, and the commit makes the declared schemas the recorded ones.

`MigrationProofs`, on top of it, about whole migrations.  `PlansAreIdempotent`
(`AppliedTwice`) holds of all sources.  The other three that speak of what is committed,
`MigrationsApply` (`Applied`), `RenamesKeepContents` (`RenameKeepsContents`) and
`ProtectedSurvives` (`ProtectedIsKept`), assume `SourcesAreDisciplined`, and need it: a name that is
renamed away is not declared again nor renamed twice (`DiffReusedName` is the
counterexample), a schema that is ever renamed is empty under its old name
(`FullSchemas` is the counterexample), and `public`, if it is declared, is declared
as every database has it.  `CreationsSucceed` (`OnlyDropsFail`) also assumes that
schemas refer to nothing.  The sources of `DiffTables` satisfy all of these.  The
invariant `MigrationInv` says at every point of every pass which objects of the open
transaction's catalog are *settled* (as declared), which are *gone*, and that the rest
is as recorded, with `Stands(cat, settled, gone)`: pass 0 settles the schemas visited,
pass 1 exchanges old names for new ones, pass 2 takes what was dropped so far, pass 3
settles what is visited.  What an object refers to counts only once it has its final
name.  `origin` in it is what the two theorems on contents follow from.  That
statements are accepted uses that the order is one of the resolver (`Sorted`) and lists
nothing twice: what an object depends on is settled before it, and it is not there
itself.

`TableDiffProofs`, for any columns, expressions, constraints and indexes, in a schema on
the search path or off it.  `NothingAfterApply` (`AppliedOnce`) holds of all edits,
`Careless` ones included.  `TableInv` says that sources and record have the parts of a
table and finitely many columns.  Directives that were carried out name nothing that is
recorded, so every column is compared with its own entry, and each part of the plan is
the sequence of an empty set or the concatenation of empty sequences.

The others are about the execution of a plan and assume `Careless = {}`, that is, that
no edit is applied that the differ does not carry out; section 3 says what becomes of
each kind of those.  They are `RecordsMatch` (`RecordIsLive`), `PlansRun` (`PlanRuns`),
`RowsSurvive` (`RowsAreKept`) and `TableTypeCorrect` (`TypeOK`).  The invariant is
`TableInv` with `Faithful`: the database has the table of the record, and what its
expressions, constraints and indexes name is there and can be named (`Sound`); a plan can only be judged
against a table that is known.  `Leads(t, ops, u)` says that the statements `ops` are
accepted one after the other and take table `t` to table `u`; it composes (`LeadsOn`), and
whoever leads is what `Execute` does (`LeadsExecutes`).  `LeadsByEach` is for the statements
of a set, in whatever order they come: what is to be shown is only that for every set `V`
of statements executed and every other one, the table after `V` accepts it and becomes the
table after both.  `LeadsInTurn` is for the declared columns, whose order counts: `V` is
what comes `First`, so that the next one finds all that precede it executed (`InTurn`).
Each phase of the plan gives the table in closed form: `AfterRenames(V)`, `AfterDrops(W)`, `AfterColumns(X)`, then what constraints
and indexes leave, and at last `Made`, the declared table with each column's rows.
`PlanLeads` puts the phases together.  The conditions of `Orderly` enter where they must:
no `Reuses`, so that two renames do not meet; no `Rebuilds`, so that a column that is made
again takes nothing with it; no `Redefines` and no `Dangles`, so that what is left over of
constraints is what is declared; no `Undermines`, so that a column that goes is one nothing
is computed from (`DroppedAreUnused`, `RebuiltAreUnused`); no `Hastens`, so that what an
expression names is plain when its turn comes (`UsedAreReady`); no `Misses`, so that off the
search path no index is dropped but by a cascade.

Induction over data is out of reach: facts on sequences of statements are proved by
their least counterexample (`Least`, `Ascent`).

`SorterProofs`, for any number of objects, edges and rounds: `SorterTypeCorrect`,
`SortedIsTopological` and `ErrorsAreOfCycles`.  The invariant `KahnInv` says that a
node's degree is the number of nodes it still waits for, that exactly what waits for
nothing is queued or sorted, that no node is queued or sorted twice, and that the
order so far is topological.  Each is needed: the degree to know that a node that
becomes ready waits for nothing, the disjointness to know that it is not there yet,
and both to know that degrees do not fall below zero.  For `ErrorsAreOfCycles`
(`ErrorsAreCycles`), every node that is left when the queue is empty waits for another
that is left; a longest chain of such nodes cannot be extended, so it leads back into
itself, and that is a cycle for `Break` to find; `ErrorInv` keeps what `Break` found.

`ScannerProofs`, for any alphabet, texts of any length and any limits of memory:
`ScannerTypeCorrect` and `TagStaysInBounds`.  Both need that what was serialized fits
what `deserialize` allocates for it; the second that the length of the tag is at
most its memory between calls too, although the memory is never reset.

`StringsAgree` and `CommentsAgree`, of the same module, are
`DollarAgreesWithTokenizer` and `CommentAgreesWithFormatter`.  The scanner reads one
character at a time and the Go functions look ahead, so the invariants speak of the
text that is still to come.  `StringRead` says that every position the scanner has
passed in a string is ruled out as the start of the delimiter by a character that was
read or is shown, but for the position it is just comparing; that a comparison given
up rules out all it has passed rests on there being no dollar sign in a tag.
`CommentRead` says that in every text that continues what was read,
`SkipBlockComment` comes by the place where the scanner is, with as many comments
open.  That the recursion is defined at all is proved from the end of the text
(`SkipIsDefined`).  `Begun` ties the branch the scanner took to the first character
that is not blank.  The comments need one assumption, that `/` and `*` are different
characters; a tag narrowed to `char` agrees with the text only because the tokenizer
takes no other tags than letters and digits.

`WorkspaceProofs`, for any number of edits, messages, validations and publications:
`WorkspaceTypeCorrect`, `OneValidationDue` and `CacheBelongsToText`.  `InOrder` says
that the messages on their way open what is closed and close what is open: without
it, opening, which starts a timer and stops none, could leave two.  `CacheInv` says
that once no validation is due those that run are of the text, and once none runs
the cache is; it speaks of the running ones because the last to end writes last.

Every inductive invariant was also checked by TLC, on the instance of a run or a smaller
one (`CommentRead` with the texts of the instance for all texts).

Only model-checked: what is liveness (`Converges`, `Returns`, `ChangesAreValidated`),
which the prover does not reach.

## 5. What is not modelled

- Generated code: of the 60605 lines of C in the repository, 59766 are the
  generated parser and 609 the headers that come with it; `scanner.c`, 151 lines, is
  modelled in full.
- Text to records and back, without state: the rest of the tokenizer, the parsers,
  the builder, macros, LIKE, the merger, formatter, rendering, terminal output,
  documentation server, editor plugins.
- Partitions (pass 2.5, `diffPartitionList`), grants, enum values, policies and
  triggers inside an object: each has control of its own that `TableDiff` does not
  cover.  `PROJECT.json` names the hazards there.
- Objects of different kinds that share a name in the snapshot.
- The polling loop of `plan --watch`, and verify, dump and introspection, which
  only read the database.
- Back ends of secret stores; selection of targets by flags.
- In the language server, what only reads (hover, definition, completion), and
  formatting, which runs `dpg fmt` on the file.
