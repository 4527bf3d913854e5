# Verification of the workflow center

TLA+ models of this repository (`src/isstech_replay` below `src/`),
the TLC runs that check them on small instances, and theorems about them that
the TLAPS proof system checks for every value of the constants.

The program keeps a local SQLite copy of approval work items of an upstream
system that it can only read, and lets a user prepare drafts from documents.
Web requests, a command line tool and a scheduled job use one database file at
the same time, each call on a connection of its own. What is hard about it is
not the arithmetic but the interleaving of these connections.

## Inventory

| Part | State | Operations | What makes it correct |
|---|---|---|---|
| Draft review (`workflow_state.py`, `storage.py` 1962-2580, `routes/drafts.py`) | `workflow_drafts`, `draft_fields`, review columns of `extracted_fields`, `draft_audit_events` | create, load, review a field, validate, mark ready | no lost update; a trail that accounts for every row; a verdict that is about the stored rows; nothing changes after validation |
| Procurement sync (`sync.py`, `storage.py` 361-730) | `sync_runs`, `workflow_current`, `workflow_snapshots`, `workflow_events` | start, complete and fail a run of one stream; a batch over five streams | readers see one complete measurement; nothing older replaces it; events agree with rows |
| Read-only module sync (`readonly_sync.py`, `storage.py` 732-1069) | `readonly_module_runs`, `_current`, `_snapshots` | start, complete, fail; a batch over payment, business case, travel, daily expense and fee lists | as above, per module and account scope |
| Upstream client (`client.py`, `transport.py`, `request_builders.py`) | none that lasts | paged lists that must be complete or fail | a list that is returned is one the upstream had |
| Schema (`schema.sql`, `migration_00*.sql`, `storage.py` 233-343) | `user_version`, the lock file | initialise, migrate 1 to 9 | every process sees a complete schema; a crash in between can be resumed |
| Sessions (`session_store.py`, `auth.py`, `routes/sessions.py`) | token to client map in memory | login, get, logout, purge | no use of an expired session; every client closed once |
| Materials (`materials.py`) | blobs on disk, `materials` rows | ingest with deduplication | a row has its blob; equal contents share one |
| Extraction (`extraction.py`, `field_mapping.py`, `ai/provider.py`) | `extraction_runs`, `extracted_fields`, artifacts | start, parse, propose, complete, fail | a finished run does not change; a draft is only made from a usable one |
| Assistant (`assistant.py`, `ai/briefing.py`) | preferences, briefs | add, clear, prune preferences; generate a brief | a brief is filed under the preferences it was made from |
| Scheduled day (`scheduler.py`, `tools/scheduled_sync.py`) | a log file | sync, brief, open, each with a time limit | later stages do not depend on earlier ones; the first failure is the exit code |
| Deployment (`runtime_deployment.py`, `tools/install_*_launch_agent.py`) | releases, property lists, services | install with rollback, seed data | a failed installation leaves the previous service running |
| Endpoint policy (`policy.py`) | none | allow or refuse a request | only reads pass |
| Projections, parsers, web page, operator tools | none | reading, formatting | - |

Interaction: a sync reads through the client and writes a checkpoint through
`storage.py`; work items, previews and the assistant read the current rows; a
material becomes an extraction, an extraction becomes one draft, a draft is
validated against the material parsed again; the scheduled day starts the sync
and the brief as processes. The parts share the database and nothing else.

What is hard: `storage.py` writes `with
connection:` and Python's `sqlite3` opens the transaction at the first `INSERT`
or `UPDATE`, not at `with`. All `SELECT`s before that, which are the guards, run
one by one, and another connection may commit between any two of them and the
write. A guard in this code therefore says what was true some time ago. Around
the database, files are moved into place before or after the row that names
them, lists are read page by page while they change, and jobs of several stages
must say truthfully what they managed to do.
`PROJECT.json` lists every such hazard at its line.

## Modules

| Module | What it is |
|---|---|
| `DraftRules` | rows, issues, events and the pure rules of a draft (`validate_proposals` and the ready gate) |
| `DraftLedger` | what a draft promises: every operation happens at one instant, on the rows stored then |
| `DraftReview` | the handlers as they are: pages, guards, reads and commits of several reviewers interleaved |
| `DraftReview_proofs` | theorems about `DraftReview` |
| `MCDraftReview` | instance for TLC |
| `SnapshotRules` | documents, measurements, rows, change events of a stream |
| `CheckpointStore` | what a stream promises: a run takes effect at one instant, on the rows stored then |
| `SyncCheckpoint` | the runs as they are: several processes, with the reads of `complete_run` outside its transaction |
| `SyncCheckpoint_proofs` | theorems about `SyncCheckpoint` |
| `MCSyncCheckpoint` | instances for TLC |
| `ReadonlyRules` | records, personal scope and rows of the read-only modules |
| `WorkspaceSync` | whole jobs: the command line sync and the web requests, both batches, and the runs of the read-only modules in detail |
| `EndpointPolicy` | which requests may leave the process |
| `PagedRead` | the list readers over a list that changes while it is read; extends `EndpointPolicy`, since every page is a request |
| `PagedRead_proofs` | theorems about `EndpointPolicy` and `PagedRead` |
| `SchemaInit` | opening the database: locks, versions, migrations |
| `MaterialIntake` | uploads, extractions and validations on the material store |
| `PreferenceList` | what the assistant promises about preferences |
| `AssistantBrief` | preferences, and the generation of a brief |
| `ScheduledDay` | the scheduled day; extends `AssistantBrief`, since its second stage makes a brief beside the API |
| `Deployment` | the two LaunchAgent installers |
| `Deployment_proofs` | theorems about `Deployment` |
| `SchemaInit_proofs` | theorems about `SchemaInit` |
| `WorkspaceSync_proofs` | theorems about `WorkspaceSync` |
| `MaterialIntake_proofs` | theorems about `MaterialIntake` |
| `ScheduledDay_proofs` | theorems about `ScheduledDay`, `AssistantBrief` and `PreferenceList` |
| `MCWorkspaceSync`, `MCPagedRead`, `MCSchemaInit`, `MCMaterialIntake`, `MCScheduledDay`, `MCDeployment` | instances for TLC |

### Draft review

The tables are the variables `state`, `version`, `issues` (one row of
`workflow_drafts`), `fields`, `source` (the columns of `extracted_fields` that a
review writes) and `audit`. `handler[r]` is what reviewer `r`'s page and the
handler started from it remember. A page is loaded by `LoadRow` and
`LoadFields`; a handler carries the page's version as `expected_version`.

| Action | Code |
|---|---|
| `FinishExtraction` | `complete_extraction`, `fail_extraction` |
| `CreateCheck`, `CreateNew`, `CreateExisting` | `create_workflow_draft`: status of the run; `INSERT ... ON CONFLICT DO NOTHING` |
| `ReviewCheck`, `ReviewReadField`, `ReviewCommit` | `review_workflow_draft_field`: guards; previous row; two or three updates and the event |
| `ValidateRow`, `ValidateFields`, `ApplyCheck`, `ApplyCommit` | `validate_draft`: load; judge; `apply_workflow_draft_validation` |
| `ReadyCheck`, `ReadyFields`, `ReadyCommit` | `mark_workflow_draft_ready`: guards; count of invalid rows; update |
| `Abandon` | a conflict, an error or the death of the process; the transaction is rolled back |

A confirmed value stands for text and evidence together; `Sound` holds the pairs
of field and value the document supports, so that every code of
`validate_proposals` about evidence is one issue, `unsupported`. The answer to a
request that succeeds is the draft loaded again, and after a conflict the web page
loads it again; both are `LoadRow` and `LoadFields`. A page kept after another
error needs no action of its own: while its version is stored it shows what a page
loaded again would (`MemoryIsFresh`), and later every handler refuses it. A request
submitted twice is two reviewers with the same page. Actors and timestamps are left out. The
states after `ready` exist in the schema, but no code reaches them.

### Procurement sync

`runs`, `current`, `history` and `log` are the four tables for one stream;
`log` keeps the events of each commit as a set. `worker[r]` is what the process
of run `r` remembers. `clock` gives measurement times; a batch takes its time
before its first stream, so a run may start long after its time (`TakeTime`).

| Action | Code |
|---|---|
| `TakeTime`, `StartRun` | `measurement_time` of `sync_procurement_workflows`; `start_run` |
| `ReadList`, `ReadPrevious` | the list and details; `current_snapshots` and the merge of relations |
| `Guard` | the `SELECT`s at the head of `complete_run` |
| `ReadFirst` | the look-ups of the first document, still outside the transaction |
| `CommitRows`, `CommitEmpty` | everything from the first write to the commit, which is one transaction |
| `FailRun`, `Kill` | `fail_run` after any error; the death of the process |

A document's content is its status, its approver and whether it is related to
the account; the rest of the payload changes nothing in the control. With
`Overlap = FALSE` a run starts only when no other is under way, as when one user
syncs by hand; measurement times may still be in another order than the runs.
With `Overlap = TRUE` nothing is assumed, which is what the code provides: no
lock is held around a sync.

### Jobs and read-only modules

A job is one process or request: the tool of `tools/sync_work_items.py` logs in,
runs the procurement batch and then the read-only batch; a web request runs one
batch or one stream. `todo` is what is left of it, and each stream ends with an
entry of its `summary`.

| Action | Code |
|---|---|
| `BeginTool`, `Login`, `LoginFails`, `StartLoginRun`, `FailLoginRun` | `main` of the tool; a failed login is recorded as a failed run |
| `BeginRequest` | the routes of `routes/sync.py` and `routes/readonly_modules.py` |
| `PortalFails`, `StartStream`, `CommitStream`, `LoseSession` | `sync_procurement_workflows`: the name page, a stream, and the lost session that ends the batch |
| `FailStream`, `FailUnrecorded` | any other failure of a stream, its record written or not: the batch goes on |
| `ScopeUnread`, `RowsUnread`, `LoginUnrecorded` | the stored rows cannot be read before a request's read-only batch, or after the last procurement stream; the run of a failed login cannot be recorded: the job ends |
| `EnterReadonly`, `StartModule`, `AskIdentity`, `ReadList` | `sync_readonly_modules`, `start_readonly_run`, the name asked for once, the list and its scope |
| `Guard`, `ReadPrevious`, `ReadFirst`, `CommitModule` | `complete_readonly_run`: its `SELECT`s one by one, then the transaction |
| `Finish`, `SummaryFails`, `Kill` | the end of a job; death anywhere |

A procurement stream is one step here, because `SyncCheckpoint` has its detail; of
its rows only the projects of the user are kept (`managed`), which are the scope of
a read-only batch. A payload is a revision and the scope reasons written into it,
so a row also changes when the user's projects do.

### Paged lists and the endpoint policy

`reader` is one call of a list method, `upstream` the list as the business system
has it. While a read is under way documents are inserted, removed and modified
(`Enlist`, `Delist`, `Modify`), and a system whose pager does not work answers the
first page for ever (`stuck`). `TakePage` sends the request of a page and judges
the answer: `Counted` are the checks of the purchase and procurement lists, which
count up to a total, `Numbered` those of payment, BizCase and fee lists, which
go by page numbers. `Refuse`, `LoginPage`, `Fails` are the other outcomes of a
request, `Follow` the redirects. What upstream does is external and modelled from
how the client uses it; the modelled checks are the code's.

`Allowed` is `EndpointPolicy.decide_request`: a path of a module is decided by
the module, any other by the first rule that matches. Paths are classes, one per
alternative of the patterns; `ProvenForm` is what the body of a `POST` has to
prove. `Changes` says, independently of the rules, which requests change data.

### Opening the database

`LockThread`, `LockFile`, `TimeOut` are the two locks of
`WorkflowStorage.initialize`, `ReadVersion`, `BeginMigration`, `CommitMigration`,
`FailMigration`, `Initialized` what happens under them, `BeginWrite`,
`CommitWrite`, `FailWrite` the operation after it. `Found` are the databases that may
lie there before: new ones, older ones, ones with missing tables, ones with tables
and no version. `Die` kills a process with all its threads; the system drops its
lock of the file and SQLite its transaction.

### Materials and extraction

`blob`, `document` and `result` are files, `blobRows`, `materials`, `artifacts`
and `run` tables. An upload is `StartIngest`, `EndCopy`, `LookForBlob`,
`MoveBlob`, `Register`; an extraction `StartParse`, `Resolve`,
`LookForDocument`, `RenameDocument`, `RegisterDerived` (three upserts), `Propose`,
`PersistResult`, `RegisterResult`, `Complete`; a draft's validation the same as
far as the artifacts. Each may fail (`FailIngest`, `FailParse`, `FailExtraction`,
which may itself fail) or die between any two steps. `Damage` turns a file bad while
nothing runs. `RenameDocument` has a detail of the system: `os.rename` over a
directory that holds files raises `ENOTEMPTY`, which is not the
`FileExistsError` that the code expects, so the slower of two parses of one
material fails although both made the same document.

### Assistant and scheduled day

`request[r]` is a request of the API or the daily briefing tool.
`ChangePreferences` is the insertion with its pruning, `ReadStream`, `ReadClear`,
`ListPreferences`, `ReadVersion` the reads of `generate_assistant_brief`, each on a
connection of its own or outside a transaction, `Save` the brief. The two queries of
`list_assistant_preferences` are two steps. The table is a set of rows, told apart by
their ids as its primary key does, and `MaxId` is `COALESCE(MAX(preference_id), 0)`. What the model says is left out: it
orders and words the candidates, and the local order stands when it fails.

The day (`ScheduledDay`) goes through `sync`, `brief` and `open`. A stage gives a
code (`SyncSucceeds`, `SyncFails`, `EndBrief`, `StopBrief`, `OpenPage`; 124 is its
time limit), `Log` appends its record, `LogFailure` is `_record_failure`. The
brief is made by the request `Child` of `AssistantBrief`, while other requests go on.

### Deployment

Each agent has an installer, which may run several times and at the same time as
the other's. The release is found, built and placed (`FindRelease` to `Smoke`), the
data seeded (`CopyData`, `PlaceData`), the plist replaced (`BackUp`, `WritePlist`,
`Lint`), the old service stopped and the new one started (`StopOld` to `Confirm`).
`StepFails` is the failure of any of them, with `launchctl` having done its work or
not; then follow `Undo`, `Restore` and the second `Bootstrap`. `SlowBootstrap` is an attempt
that ran out of time and loads the service all the same. `Interrupt` is Ctrl-C, which
the code does not roll back. `Edit` changes the sources, also between the two times
the installer reads them.

## Runs

| Run | Instance | Checks |
|---|---|---|
| `draft_review` | 2 reviewers, a required proposed field and an optional one, 1 value, versions to 4 | type, `AuditAccountsForState`, `AuditAccountsForFields`, `SourceAgrees`, `MemoryIsFresh`, `ReadyIsSound`, `NoBlindCommit`, `LockedOnceValidated`, refinement of `DraftLedger` |
| `sync_overlap` | 3 overlapping runs, 2 documents, clock to 2, 4 listings | type, `CurrentIsOneMeasurement`, `RunsAccountForRows`, `HistoryIsKeyed`, `NeverAnOlderRow` |
| `sync_sequential` | 4 runs one at a time, 2 documents, clock to 2, 5 listings | `NewestShownUnlessEmpty`, `EventsTellStatus`, `RelatedStays`, refinement of `CheckpointStore` |
| `sync_empty` | 2 runs one at a time | `NewestShown` is violated |
| `sync_race` | 2 overlapping runs | `NewestShownUnlessEmpty` is violated |
| `workspace_sync` | a tool and a web request; 1 procurement stream, 2 modules (one asked for by name), 2 documents, 1 project, clock to 1 | type, `ModuleIsOneMeasurement`, `RunsAccountForHistory`, `OnlyPersonalRows`, `SummaryTellsRuns`, `NothingSkipped`, `NeverAnOlderMeasurement`, `ChangesCounted`, `JobsEnd` |
| `pagination` | all 6 readers, lists of up to 4 of 5 documents, pages of 2, 3 pages at most, 2 changes | `ListIsSound`, `OnlyReadsLeave` |
| `schema_init` | 4 threads of 3 processes, one with code a version older, 3 versions, 12 databases to begin with | `MigratedAlone`, `OnlyForward`, `OperationsEnd` |
| `intake` | 3 handlers, 1 content, 2 names, 1 file that goes bad | `RowsHaveTheirFiles`, `IngestsAgree`, `DamageIsNoticed` |
| `scheduled_day` | the day and one request of the page, 1 stream, 3 preferences or clears of which 2 rows are kept, 1 change of the stream by either writer | `BriefsKnowTheirPreferences`, `DayTellsTruth`, refinement of `PreferenceList` |
| `deployment` | both installers, 2 runs each, 1 edit of the sources | `InstallerIsHonest`, `LiveDataIsKept` |
| `rollback_claim` | the same | `PreviousStateRestored` is violated |

Bounds. Four versions hold a creation and three commits, which is a whole
life (review, validate, ready) or a failed validation with what follows it; two
reviewers are enough for any conflict of two versions, and a third one adds no
new pair. One value is enough because the field it is sound for and the other
field give a supported and an unsupported confirmation. Two documents give a
first one and another; three overlapping runs are an older, a newer and one
that finds what both left; four in a row let a document appear, end, disappear
and come back. Clock values 0, 1 and 2 give earlier, equal and later times.

Two jobs are a newer and an older measurement of one module, with the tool's batch
before; `MCBatches` lets the request be the procurement stream that changes the scope
under way, or the module that both measure. The listings have both documents, one or
none. Five documents in pages of two make lists of one and two pages, and a third
page after an insertion; two changes are a removal and an insertion, which leave the
total as it was. Three threads in two processes of equal code contend for both locks,
and one of older code comes before or after the migration it does not know; three
versions have a migration after which a crash leaves an intermediate schema. Three
handlers on one content are two that race and one that finds what they left, or an
upload, an extraction and a validation. Keeping two of three preferences prunes a text
or a clear. Two runs of each installer are an installation and an update, or two
installations that race, or an installation and its removal.

The theorems do not depend on any of these bounds. `CHECK_DEADLOCK FALSE` is
set because every one of these systems really may stop: when all handlers, runs, jobs
or requests have ended, or when the bounds are used up.

### Fairness

`WorkspaceSync` assumes weak fairness of `Work(j)`, the steps of a job that has begun,
and `SchemaInit` of `Work(t)`, those of a thread that has called an operation. The code
justifies it: an upstream request has a time limit, a connection waits five seconds for
another's transaction and then raises, the wait for the lock of the file has a deadline,
and everything else is local computation. No fairness is assumed of beginning a job, of
the clock, of a death, or of one outcome of a step against another: a job may fail at every
stream and never commit anything. `JobsEnd` says that it still ends, and
`OperationsEnd` that a thread never waits for a lock for ever, in particular for the
lock of its process, which has no deadline and is only released because all ways out
of `initialize` release it.

All other modules have no fairness and no liveness property: a reviewer, a
reader, an upload or an installer may stop at any step, and nothing starts it again.

### Refinements

`DraftReview` implements `DraftLedger`, runs that do not overlap implement
`CheckpointStore`, and the preferences that `list_assistant_preferences`
returns implement `PreferenceList`: the texts since the last clear, the newest
fifty of them, although rows are pruned with clears among them and the list is computed
from what is left. All three are checked on an instance and proved for every one.

### What the violated properties show

`NewestShown`: the guard against older measurements looks for newer rows in
`workflow_current`. A measurement that found the stream empty leaves no row; a
run with an earlier time that commits afterwards is accepted, and the documents
it saw are shown as current although a later measurement found them gone. The
trace: run 1 takes its time; run 2, of a later time, commits an empty
measurement; run 1 starts, reads its list and commits.

`NewestShownUnlessEmpty` under overlap: run 1 passes its guard and its first
look-ups; run 2, of a later time, commits; run 1 writes. The rows of run 2 are
replaced or deleted. What remains true is `NeverAnOlderRow`: the row of a
document that is itself replaced by an older one is the first document of the
run, because the others are compared again inside the transaction. Rows that
are deleted are not compared at all. The promise they contradict is the README's
(lines 140-141) and the plan's
(`docs/unified-workflow-center-plan.md`, line 783); `PROJECT.json` quotes both.

For the same reason `EventsTellStatus` and `RelatedStays` are claimed for
runs that do not overlap only. Between overlapping runs the look-up of the first
document may be stale, so an event may name an old status and a relation may be
lost; no document promises otherwise.

`PreviousStateRestored`: an installer notes that it has stopped the old service only
when the bootout has returned (`install_launch_agent.py`, lines 283-289). The trace: an agent
is installed and loaded; the update writes its plist, and the bootout runs out of time after
launchd has stopped the service. The rollback puts the old plist back, does not load it, and
says that the "previous state was restored" (line 329). The same message is untrue when the
stopped service had no plist, and when the bootout of a new service fails where none was
loaded before. README (lines 192-193), `docs/architecture.md` (341-342) and
`tests/test_web_launch_agent.py` promise a restored service; `PROJECT.json` quotes them.
`InstallerIsHonest` is what remains true: a service whose bootout returned, and whose plist
was there, is loaded again.

A promise that no run checks as stated is that of `client.py`, line 90: "Raised instead of
returning a list that cannot be proven complete." `NothingDropped` of `PagedRead` states it,
and it does not hold of a list that declares no total. Take a travel list of four records in pages of
two, of whose first page one record is removed before the second page is asked for: the
third record moves to the first page, the second page holds the fourth alone, both pages
declare two pages, and the list is returned without the third record, which was there all the
time; the sync then deletes its current row. What is true of every reader is
`ListIsSound`: exact when nothing changed, at most one record dropped for each removal, and
none without as many insertions where a total is declared.

### What jobs and briefings answer

Three reads of the database are made outside any stream: the scope of a read-only batch, the
rows for the result of a procurement batch, and the run of a failed login. Each may raise
and ends the job there (`exit = "unread"` or `"lost"`), so `NothingSkipped` tells the ends
apart: only a job that got to its end has an answer for every stream; one that could not
read the rows has tried all its procurement streams and no read-only module.
`SummaryTellsRuns` also says that whatever ended a stream, a lost session included, its run
was failed, unless the job was killed or has reported a failure it could not record.

`BriefsKnowTheirPreferences` speaks of every briefing, also of one that a GET generates
because there is none. A request that added a text is answered with a briefing that knows
it, with two exceptions that the formula names: a clear newer than the text had been read,
or `Keep` rows newer than the text had been inserted, so that it was pruned.

## Proofs

`DraftReview_proofs` proves every property of the run `draft_review` for any
finite or infinite sets of reviewers, fields and values and any `MaxVersion`,
from `RulesAssumption` (how the constant sets include one another) and
`ReviewAssumption` alone. The invariants checked are not inductive alone: a
commit keeps the trail only if its version is the stored one *and* its memory is
fresh. The order of the argument is

1. `TypeOK`, strengthened by what a handler carries in each phase;
2. `AuditAccountsForState`: the version counts the events. Since every commit
   requires the version it carries and inserts the event of the next number, a
   version can be committed once only;
3. `MemoryIsFresh`: what a handler remembers is stored as long as its version
   is. A commit of another handler raises the version, so nothing is claimed of
   the handlers it overtakes;
4. from these, `SourceAgrees`, `ReadyIsSound`, `NoBlindCommit`,
   `LockedOnceValidated`, `AuditAccountsForFields`, and the refinement of
   `DraftLedger`: initial states are initial states, a commit is the ledger's
   operation on the rows stored then, every other step is a stutter.

`SyncCheckpoint_proofs` proves every property of the run `sync_overlap`, for any
finite set of documents, any runs, listings and clock and either value of
`Overlap`, from `SnapshotAssumption`, `RowAssumption` and `SyncAssumption`. The
inductive invariant `Accounted` adds to the checked properties that a process's
stage agrees with its run row, that what it read before the transaction was in
order when it was read, that a run that did not succeed has counted nothing, and
that only runs that succeeded have told events. `NextKinds` sorts all steps into
quiet ones and commits, and each part of the invariant is then proved for these
two kinds. `NeverAnOlderRow` follows from the second addition.

The second half of that module is about runs one at a time: its theorems assume
`~Overlap`, as the run `sync_sequential` does, and nothing else. The invariant `Serial`
adds to `Accounted` that a run under way has no other beside it, that what it read is
therefore still stored (`InSeries`), that the newest measurement that was not empty is the
one shown (`NewestIsShown`), and that events tell the status (`EventsTellStatus`). From
these follow `NewestShownUnlessEmpty`, `RelatedStays` and the refinement of
`CheckpointStore`: the commit of a run is the store's `Checkpoint` at that instant
(`CommitIsCheckpoint`), its start and failure are the store's, and every other step is a
stutter.

`WorkspaceSync_proofs` proves every safety property of the run `workspace_sync`, for any
jobs, streams, modules, documents and clock, from `ReadonlyAssumption`,
`WorkspaceAssumption` (a batch lists each stream once) and `RowAssumption` (an absent row
is no row). The inductive invariant has three parts beside the types. `Tables`: rows are
one succeeded run's, runs count their history, history is keyed, and a run that has not
begun has left nothing. `Books(j)`: what is left to do, what is answered and the phase of
a job agree, and each answer is what the run says (this gives `SummaryTellsRuns` and
`NothingSkipped`). `Carries(j)`: what a job has read of a module was true when it was read
and is still true unless another run has committed. A step is one job's own, and leaves
the others' books and everything they carry in order.

`MaterialIntake_proofs` proves the three properties of the run `intake` for any handlers,
contents and names, from `IntakeAssumption`. The order of writing is the argument: the
invariant `FilesFirst` says of every row that the files it names are whole, and
`Carries(t)` what a handler has placed or found in each phase, which no other handler
takes away again. `IngestsAgree` needs a history of its own: that what an upload was told
stays true of the rows (`ToldIsKept`).

`ScheduledDay_proofs` proves the three properties of the run `scheduled_day`, for any
requests, streams, limit of kept rows and bounds, from `AssistantAssumption` and
`DayAssumption`. `Table` says that ids are unique and that the `Keep` newest rows are there
(`NewestStay`), so that the version is the newest id ever given (`VersionIs`); `Follows(r)`
says that the row a request inserted is in the table or has been pruned with everything
older, and that what it has read since follows it: a text that is missing from what was read was
hidden by a newer clear, or is older than the `Keep` newest rows. The refinement of `PreferenceList` rests on one fact about
pruning: what goes is older than what stays (`PrunedIs`), so when a clear is pruned, all
that it hid has gone before it, and for a text after the newest clear the newer rows are
exactly the newer texts (`AddedIsListed`). For the day, `StagesInOrder` says that a stage
that is over is in the log as it ended, and `ChildReadsAfterSync` that the briefing child
has read nothing before the sync child was over. That a finite set of ids has a maximum is
proved from the well-foundedness of the naturals (`LargestExists`).

`PagedRead_proofs` proves both properties of the run `pagination`, for any documents,
pages, lists, changes and redirects, from `PolicyAssumption` and `PagedAssumption`. The
core of `OnlyReadsLeave` is a lemma about the
policy alone, `AllowedIsRead`: a request that is allowed changes nothing, because every
rule of the table that allows covers paths that are only read (`RulesOnlyRead`), and a form
that is proven only asks for another page. The inductive invariant is stronger than the
property: everything on the wire was allowed, and the reader asks for a page that can
be written into a request.

`ListIsSound` needs an account of what changes upstream have done to a read. The list
may move under the reader; a removal shifts everything after it one place forward, an
insertion one place back. The invariant (`Reading`) says that of the documents removed and
inserted so far, some number `r` and some number `i` account for this query (`Budget`):

- at most `r` records were read and are listed no more;
- the list is as much longer than the total that was declared as `i` exceeds `r`;
- at most `r` documents that were listed all the time are `Behind`, on a page that was read
  already, without having been read: each removal lets one slip, and nothing else does,
  for a document is only behind while the number of those before it (`Ahead`) is small
  enough.

A payment list runs two queries; what the first one dropped (`Lost`) is charged to the same
changes, so the second query has that much less to spend. When a list is returned, the
first and the last of these bound what was dropped by removals, and the second turns the
comparison with the total into the same bound by insertions (`TotalReached`); a page adds
to what was read exactly what its slice of the list holds (`PageAdds`). The filter of a
list is written by ranks (`Select`): the place of a record in the filtered list is the
number of matching records up to it, so that what it contains can be reasoned about
without induction over the list.

`DropNeedsChurn` says when `NothingDropped`, the promise of the client, is kept: a
procurement or payment list, always compared with its total, drops a document that stayed
listed only if another was removed *and* one inserted while it was read; every other list,
only if one was removed.

`Deployment_proofs` proves `InstallerIsHonest` and `LiveDataIsKept` for any number
of agents, versions and runs, from `DeploymentAssumption`. `InstallerIsHonest` is not
inductive: it needs the types and `OnTheWay`, that the plist is the new one from its
writing until launchd has loaded it, and the old one when the installer is about to start
the old service again. A step of one agent leaves the plist and the service of every other
alone, so the proof is about one agent's steps. `PreviousStateRestored` is refuted by its run,
so nothing is proved of it.

`SchemaInit_proofs` proves `MigratedAlone` and `OnlyForward` for any processes, threads,
versions and databases found, from `SchemaAssumption`. The inductive invariant adds that
the lock of the file and the write transaction are held by exactly the threads whose phase
says so, and what a thread inside has verified: a version no newer than its code, and no
tables in a database of version zero. `OnlyForward` follows from the same invariant, since
a migration begins at the version its thread has read under the lock.

Two more theorems are what `OperationsEnd` rests on besides fairness. `HolderIsAtWork`: a
thread whose operation is under way satisfies the guard of one of its steps (`CanWork`), or
waits for the lock of its process while the holder satisfies one, so that nobody waits in a
circle; it assumes that a version of the code requires some table. Its invariant is
`ThreadLocks`: who works under the lock of a process has it, and who has it
works or has died, with its whole process. `OperationsAreShort`: every step of a
thread lowers `StepsLeft`, a number that depends on its code's version and the one it has
read, so nothing is retried.

`JobsAreShort` of `WorkspaceSync_proofs` says the same of a job that has begun: every step
of its process, its death included, lowers `StepsLeft`, eight for each stream still to come
(for a tool that is still with the procurement streams, those of the read-only batch
included) and fewer for the stream under way, and other jobs' steps leave it alone. A
stream that failed is therefore never tried again, and a job ends after a number of steps
that its batch fixes.

Only model-checked: liveness under fairness (`JobsEnd`, `OperationsEnd`), which is out of
reach of the proof system, as `ENABLED` is. What the three
theorems about `StepsLeft` and `CanWork` leave to the checker is that a guard which holds
makes its action `ENABLED`, that a job which has not ended has such a guard, and that
an action which stays enabled is taken. Every other property of a passing run is stated by a theorem.

## Not modelled

- Sessions (`session_store.py`): a table in memory whose every operation runs under one
  lock, so that what can be said of it holds operation by operation. Its effect on others,
  a client that is closed by one request while another reads a list with it, is one of the
  outcomes of a page in `PagedRead` (`Fails`).
- Dry runs, and the assertions of `account_scope.py` on a database of another user:
  they change nothing.
- The reading of detail and relation pages in a procurement run; what they give is part
  of the measurement in `SyncCheckpoint`. The login dialogue and attachments.
- Restarts of the machine in the middle of a write to a file; files that go bad while
  something reads them. Deaths of a process are modelled.
- Retention of briefs of earlier business days, the ranking of candidates and the
  model's text.
- In the policy, the text of URLs, bodies and patterns, and the method `OPTIONS`.
- The text of migrations: a script brings a version and its tables in one transaction.
- Parsers of upstream pages (pure text, no state), the web page (a client of the API;
  its part is the page in `DraftReview`), and one-shot operator tools.

## Plan

All that was planned is modelled, checked and proved as far as the proof system reaches.
What would extend the project: the procurement run's detail and relation pages as steps of
their own in `SyncCheckpoint`; a session's table of clients beside `PagedRead`, for a client
closed by one request while another pages with it; and the retention of briefs of earlier
business days in `ScheduledDay`.
