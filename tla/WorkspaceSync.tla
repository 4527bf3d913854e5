--------------------------- MODULE WorkspaceSync ---------------------------
(***************************************************************************)
(* Whole synchronisation jobs over one account's database: the command     *)
(* line tool, which logs in, runs the procurement batch and then the       *)
(* read-only batch and writes a summary; and the web requests that run     *)
(* either batch, of all its streams or of one.  Jobs run at the same time. *)
(* Every stream has a checkpoint of its own: a run row, and current rows   *)
(* that a completed run replaces.                                          *)
(*                                                                         *)
(* The runs of the read-only modules are in detail here.  The SELECTs of   *)
(* complete_readonly_run up to its first INSERT run one by one outside the *)
(* transaction.  A procurement run (SyncCheckpoint has its detail) takes   *)
(* effect at once; of its rows only the numbers of the projects the user   *)
(* manages matter here, which are the scope of a read-only batch.          *)
(***************************************************************************)
EXTENDS ReadonlyRules

CONSTANTS
    Jobs,
    Streams,     \* procurement streams, in the order a batch takes them
    Order,       \* read-only modules, in the order a batch takes them
    Tools,       \* jobs of the command line tool, the others are requests
    Batches,     \* what a request may ask for: every stream of a batch or one
    Listings,    \* what an upstream list may say: revisions of documents
    MaxClock     \* bound on the clock

AllStreams == Range(Streams) \cup Modules

ASSUME WorkspaceAssumption ==
    /\ Streams \in Seq(Range(Streams)) /\ IsInjective(Streams)
    /\ Order \in Seq(Modules) /\ IsInjective(Order)
    /\ Range(Order) = Modules
    /\ Range(Streams) \cap Modules = {}
    /\ "login" \notin AllStreams
    /\ Tools \subseteq Jobs
    /\ Batches \subseteq {Streams, Order} \cup {<<s>> : s \in AllStreams}
    /\ Listings \subseteq [Docs -> Revisions \cup {None}]
    /\ MaxClock \in Nat

RunIds == Jobs \X Modules

ASSUME RowAssumption == None \notin Row(RunIds)

VARIABLES
    clock,
    managed,   \* projects with the user as manager, in a stream's rows
    runs,      \* sync_runs and readonly_module_runs, by job and stream
    current,   \* readonly_module_current
    history,   \* readonly_module_snapshots
    job        \* what each job's process remembers

storeVars == <<managed, runs, current, history>>
vars == <<clock, storeVars, job>>

\* Phases of a job: between two streams of a batch, and within one.
Between == {"procuring", "reading"}
Within == {"measuring", "started", "listed", "guarded", "compared",
           "first_read"}
Phases ==
    Between \cup Within \cup
    {"idle", "login", "refused", "recording", "done", "killed"}

(***************************************************************************)
(* todo are the streams still to come, the one under way first; scope and  *)
(* identity what the read-only batch found out for all its modules; m the  *)
(* measurement; before, prev and known what complete_readonly_run read     *)
(* outside its transaction: the rows its guard passed over, the previous   *)
(* payloads, and whether history had the first document at this time.      *)
(***************************************************************************)
Job ==
    [pc : Phases, observed : Nat,
     todo : Seq(AllStreams), scope : SUBSET Projects,
     identity : {"unasked", "known", "unknown"},
     m : Measurement, before : [Docs -> Row(RunIds) \cup {None}],
     prev : Measurement, first : Docs \cup {None}, known : BOOLEAN,
     summary : [AllStreams -> {"none", "succeeded", "failed"}],
     plan : SUBSET AllStreams,
     exit : {"none", "ok", "error", "lost", "unread"}]

NoJob ==
    [pc |-> "idle", observed |-> 0,
     todo |-> <<>>, scope |-> {}, identity |-> "unasked",
     m |-> NoDocs, before |-> NoDocs, prev |-> NoDocs, first |-> None,
     known |-> FALSE, summary |-> [s \in AllStreams |-> "none"],
     plan |-> {}, exit |-> "none"]

Init ==
    /\ clock = 0
    /\ managed = [s \in Range(Streams) |-> {}]
    /\ runs = [j \in Jobs |->
                  [s \in AllStreams \cup {"login"} |-> RunStatus("none")]]
    /\ current = [m \in Modules |-> NoDocs]
    /\ history = {}
    /\ job = [j \in Jobs |-> NoJob]

At(j, phase) == job[j].pc = phase

Becomes(j, record) == job' = [job EXCEPT ![j] = record]

Stream(j) == Head(job[j].todo)

RunBecomes(j, s, row) == runs' = [runs EXCEPT ![j][s] = row]

\* The stream under way is over: nothing of it is remembered but its answer
\* in the summary of the batch.
Answered(j, answer) ==
    [job[j] EXCEPT !.pc = IF Stream(j) \in Modules THEN "reading"
                          ELSE "procuring",
                   !.todo = Tail(@), !.m = NoDocs, !.before = NoDocs,
                   !.prev = NoDocs, !.first = None, !.known = FALSE,
                   !.summary[Stream(j)] = answer]

\* A job is over; only what it tells its caller stays.
Over(j, phase, exit) ==
    [NoJob EXCEPT !.pc = phase,
                  !.summary = job[j].summary, !.plan = job[j].plan,
                  !.exit = exit]

Tick ==
    /\ clock < MaxClock
    /\ clock' = clock + 1
    /\ UNCHANGED <<storeVars, job>>

-----------------------------------------------------------------------------
(***************************************************************************)
(* Jobs and the procurement batch                                          *)
(***************************************************************************)

\* A tool takes the time of its measurement when it has logged in, a request
\* as its batch begins.
BeginTool(j) ==
    /\ At(j, "idle") /\ j \in Tools
    /\ Becomes(j, [NoJob EXCEPT !.pc = "login", !.todo = Streams,
                                !.plan = AllStreams])
    /\ UNCHANGED <<clock, storeVars>>

BeginRequest(j) ==
    /\ At(j, "idle") /\ j \notin Tools
    /\ \E batch \in Batches :
          LET readonly == Head(batch) \in Modules IN
          Becomes(j, [NoJob EXCEPT
                         !.pc = IF readonly THEN "reading" ELSE "procuring",
                         !.observed = clock,
                         !.todo = batch, !.plan = Range(batch),
                         !.scope = IF readonly THEN UNION Range(managed)
                                   ELSE {}])
    /\ UNCHANGED <<clock, storeVars>>

\* The scope of a read-only batch could not be read.
ScopeUnread(j) ==
    /\ At(j, "idle") /\ j \notin Tools
    /\ \E batch \in Batches :
          /\ Head(batch) \in Modules
          /\ Becomes(j, [NoJob EXCEPT !.pc = "done", !.plan = Range(batch),
                                      !.exit = "unread"])
    /\ UNCHANGED <<clock, storeVars>>

\* login_with_settings; the time of the measurement is taken after it.
Login(j) ==
    /\ At(j, "login")
    /\ Becomes(j, [job[j] EXCEPT !.pc = "procuring", !.observed = clock])
    /\ UNCHANGED <<clock, storeVars>>

\* A login that fails is recorded as a run of its own that failed.
LoginFails(j) ==
    /\ At(j, "login")
    /\ Becomes(j, [job[j] EXCEPT !.pc = "refused"])
    /\ UNCHANGED <<clock, storeVars>>

StartLoginRun(j) ==
    /\ At(j, "refused")
    /\ RunBecomes(j, "login", RunStatus("running"))
    /\ Becomes(j, [job[j] EXCEPT !.pc = "recording"])
    /\ UNCHANGED <<clock, managed, current, history>>

FailLoginRun(j) ==
    /\ At(j, "recording")
    /\ RunBecomes(j, "login", RunStatus("failed"))
    /\ Becomes(j, Over(j, "done", "lost"))
    /\ UNCHANGED <<clock, managed, current, history>>

\* The database does not take the record.
LoginUnrecorded(j) ==
    /\ job[j].pc \in {"refused", "recording"}
    /\ Becomes(j, Over(j, "done", "lost"))
    /\ UNCHANGED <<clock, storeVars>>

\* The portal's name page failed for another reason than its contents,
\* before the first stream.
PortalFails(j) ==
    /\ At(j, "procuring")
    /\ job[j].summary = NoJob.summary /\ job[j].todo # <<>>
    /\ Becomes(j, Over(j, "done", "lost"))
    /\ UNCHANGED <<clock, storeVars>>

StartStream(j) ==
    /\ At(j, "procuring") /\ job[j].todo # <<>>
    /\ RunBecomes(j, Stream(j), RunStatus("running"))
    /\ Becomes(j, [job[j] EXCEPT !.pc = "measuring"])
    /\ UNCHANGED <<clock, managed, current, history>>

CommitStream(j) ==
    /\ At(j, "measuring")
    /\ \E found \in SUBSET Projects :
          managed' = [managed EXCEPT ![Stream(j)] = found]
    /\ RunBecomes(j, Stream(j), [RunStatus("succeeded") EXCEPT
                                    !.observed = job[j].observed])
    /\ Becomes(j, Answered(j, "succeeded"))
    /\ UNCHANGED <<clock, current, history>>

\* Mutant: the batch ends before the stream's run is failed.
LoseSessionAtOnce(j) ==
    /\ At(j, "measuring")
    /\ Becomes(j, Over(j, "done", "lost"))
    /\ UNCHANGED <<clock, storeVars>>

\* A lost session ends the batch and with it the job; the stream's run is
\* failed first.
LoseSession(j) ==
    /\ At(j, "measuring")
    /\ RunBecomes(j, Stream(j), RunStatus("failed"))
    /\ Becomes(j, Over(j, "done", "lost"))
    /\ UNCHANGED <<clock, managed, current, history>>

\* Any other failure of a stream: its run is failed and the batch goes on.
\* Mutant: a read-only batch ends with its first failure.
FailEndsBatch(j) ==
    /\ job[j].pc \in Within
    /\ RunBecomes(j, Stream(j), RunStatus("failed"))
    /\ Becomes(j, [Answered(j, "failed") EXCEPT !.todo = <<>>])
    /\ UNCHANGED <<clock, managed, current, history>>

\* Mutant: the failed stream is tried again.
FailTriesAgain(j) ==
    /\ job[j].pc \in Within
    /\ RunBecomes(j, Stream(j), RunStatus("failed"))
    /\ Becomes(j, [Answered(j, "failed") EXCEPT !.todo = job[j].todo])
    /\ UNCHANGED <<clock, managed, current, history>>

FailStream(j) ==
    /\ job[j].pc \in Within
    /\ RunBecomes(j, Stream(j), RunStatus("failed"))
    /\ Becomes(j, Answered(j, "failed"))
    /\ UNCHANGED <<clock, managed, current, history>>

\* The run row could not be inserted, or the failure not be recorded, as the
\* database stayed busy: the batch goes on just the same.
FailUnrecorded(j) ==
    /\ job[j].pc \in Within \cup Between /\ job[j].todo # <<>>
    /\ Becomes(j, Answered(j, "failed"))
    /\ UNCHANGED <<clock, storeVars>>

\* The tool goes on with the read-only modules, whatever became of the
\* procurement streams.  Their scope is read now.
EnterReadonly(j) ==
    /\ At(j, "procuring") /\ job[j].todo = <<>>
    /\ j \in Tools
    /\ Becomes(j, [job[j] EXCEPT !.pc = "reading", !.todo = Order,
                                 !.scope = UNION Range(managed)])
    /\ UNCHANGED <<clock, storeVars>>

\* The rows could not be read after the last procurement stream, for the
\* result of its batch or for the scope of the read-only one: the job ends.
RowsUnread(j) ==
    /\ At(j, "procuring") /\ job[j].todo = <<>>
    /\ Becomes(j, Over(j, "done", "unread"))
    /\ UNCHANGED <<clock, storeVars>>

-----------------------------------------------------------------------------
(***************************************************************************)
(* sync_readonly_module and complete_readonly_run                          *)
(***************************************************************************)

StartModule(j) ==
    /\ At(j, "reading") /\ job[j].todo # <<>>
    /\ RunBecomes(j, Stream(j), RunStatus("running"))
    /\ Becomes(j, [job[j] EXCEPT !.pc = "started"])
    /\ UNCHANGED <<clock, managed, current, history>>

\* resolve_display_name: asked once in a batch, failure included.
AskIdentity(j) ==
    /\ At(j, "started")
    /\ Stream(j) \in ByIdentity
    /\ job[j].identity = "unasked"
    /\ \E answer \in {"known", "unknown"} :
          Becomes(j, [job[j] EXCEPT !.identity = answer])
    /\ UNCHANGED <<clock, storeVars>>

ReadList(j) ==
    /\ At(j, "started")
    /\ Stream(j) \in ByIdentity => job[j].identity = "known"
    /\ \E listing \in Listings :
          /\ AllScoped(Stream(j), listing, job[j].scope)
          /\ Becomes(j, [job[j] EXCEPT
                            !.pc = "listed",
                            !.m = Snapshots(Stream(j), listing, job[j].scope)])
    /\ UNCHANGED <<clock, storeVars>>

Rows(j) == current[Stream(j)]

\* Mutant: newer rows are not looked for.
GuardDropped(j) ==
    /\ At(j, "listed")
    /\ Becomes(j, [job[j] EXCEPT !.pc = "guarded", !.before = Rows(j)])
    /\ UNCHANGED <<clock, storeVars>>

Guard(j) ==
    /\ At(j, "listed")
    /\ \A d \in Present(Rows(j)) : Rows(j)[d].seen <= job[j].observed
    /\ Becomes(j, [job[j] EXCEPT !.pc = "guarded", !.before = Rows(j)])
    /\ UNCHANGED <<clock, storeVars>>

\* Mutant: the rows themselves are remembered as the previous payloads.
ReadPreviousRows(j) ==
    /\ At(j, "guarded")
    /\ Becomes(j, [job[j] EXCEPT !.pc = "compared", !.prev = Rows(j)])
    /\ UNCHANGED <<clock, storeVars>>

ReadPrevious(j) ==
    /\ At(j, "guarded")
    /\ Becomes(j, [job[j] EXCEPT
                      !.pc = "compared",
                      !.prev = [d \in Docs |-> IF Rows(j)[d] = None THEN None
                                               ELSE Rows(j)[d].payload]])
    /\ UNCHANGED <<clock, storeVars>>

\* Snapshots of a document of a module that were observed at time t.
KnownAt(m, d, t) ==
    {s \in history : s.module = m /\ s.doc = d /\ s.observed = t}

\* History has nothing else of this document for the same time.
NoConflict(j, d) ==
    \A s \in KnownAt(Stream(j), d, job[j].observed) : s.payload = job[j].m[d]

ReadFirst(j) ==
    /\ At(j, "compared")
    /\ \E d \in Present(job[j].m) :
          /\ NoConflict(j, d)
          /\ Becomes(j, [job[j] EXCEPT
                            !.pc = "first_read", !.first = d,
                            !.known = KnownAt(Stream(j), d,
                                              job[j].observed) # {}])
    /\ UNCHANGED <<clock, storeVars>>

\* Mutant: the schema lets history hold two snapshots of one time.
NotUnique(new) == TRUE

\* UNIQUE (module, external_id, observed_at): the INSERTs go through.
Unique(new) == \A s \in new : KnownAt(s.module, s.doc, s.observed) = {}

\* The transaction: history, current rows and run row.  Outside of it were
\* read: the guard, the previous payloads, and what history had of the
\* first document.
CommitModule(j) ==
    LET w   == job[j]
        r   == <<j, Stream(j)>>
        new == {[module |-> Stream(j), doc |-> d, observed |-> w.observed,
                 run |-> r, payload |-> w.m[d]] :
                   d \in {e \in Present(w.m) :
                             IF e = w.first THEN ~w.known
                             ELSE KnownAt(Stream(j), e, w.observed) = {}}}
    IN
    /\ \/ At(j, "first_read")
       \/ At(j, "compared") /\ Present(w.m) = {}
    /\ \A d \in Present(w.m) \ {w.first} : NoConflict(j, d)
    /\ Unique(new)
    /\ history' = history \cup new
    /\ current' = [current EXCEPT ![Stream(j)] =
                      Replaced(r, w.m, w.observed, @)]
    /\ RunBecomes(j, Stream(j),
                  [status |-> "succeeded", observed |-> w.observed,
                   count |-> Cardinality(Present(w.m)),
                   inserted |-> Cardinality(new),
                   changed |-> Cardinality(Changed(w.m, w.prev))])
    /\ Becomes(j, Answered(j, "succeeded"))
    /\ UNCHANGED <<clock, managed>>

-----------------------------------------------------------------------------
\* The status of both batches together is succeeded.
AllSucceeded(j) == \A s \in job[j].plan : job[j].summary[s] = "succeeded"

\* The last stream is over: the tool writes its summary file and exits, a web
\* request answers.
Finish(j) ==
    /\ job[j].pc \in Between /\ job[j].todo = <<>>
    /\ ~(At(j, "procuring") /\ j \in Tools)
    /\ Becomes(j, Over(j, "done", IF AllSucceeded(j) THEN "ok" ELSE "error"))
    /\ UNCHANGED <<clock, storeVars>>

\* The summary file could not be written.
SummaryFails(j) ==
    /\ At(j, "reading") /\ job[j].todo = <<>>
    /\ j \in Tools
    /\ Becomes(j, Over(j, "done", "error"))
    /\ UNCHANGED <<clock, storeVars>>

\* The process dies.
Kill(j) ==
    /\ job[j].pc \notin {"idle", "done", "killed"}
    /\ Becomes(j, Over(j, "killed", "none"))
    /\ UNCHANGED <<clock, storeVars>>

\* What a job's process does by itself.
Work(j) ==
    \/ Login(j) \/ LoginFails(j) \/ StartLoginRun(j) \/ FailLoginRun(j)
    \/ LoginUnrecorded(j)
    \/ PortalFails(j) \/ StartStream(j) \/ CommitStream(j) \/ LoseSession(j)
    \/ FailStream(j) \/ FailUnrecorded(j) \/ RowsUnread(j) \/ EnterReadonly(j)
    \/ StartModule(j) \/ AskIdentity(j) \/ ReadList(j) \/ Guard(j)
    \/ ReadPrevious(j) \/ ReadFirst(j) \/ CommitModule(j)
    \/ Finish(j) \/ SummaryFails(j)

Next ==
    \/ Tick
    \/ \E j \in Jobs : \/ BeginTool(j) \/ BeginRequest(j) \/ ScopeUnread(j)
                      \/ Work(j) \/ Kill(j)

\* Upstream requests and waits for the database have time limits, so a step
\* of a job that has begun returns or fails in the end.
Spec == Init /\ [][Next]_vars /\ \A j \in Jobs : WF_vars(Work(j))

-----------------------------------------------------------------------------
(***************************************************************************)
(* Properties                                                              *)
(***************************************************************************)

\* Tables and jobs hold values of their types.
TypeOK ==
    /\ clock \in 0..MaxClock
    /\ managed \in [Range(Streams) -> SUBSET Projects]
    /\ runs \in [Jobs -> [AllStreams \cup {"login"} -> RunRow]]
    /\ current \in [Modules -> [Docs -> Row(RunIds) \cup {None}]]
    /\ history \subseteq Snapshot(RunIds)
    /\ job \in [Jobs -> Job]

RunOf(r) == runs[r[1]][r[2]]

\* The rows of a module are the complete measurement of one run that
\* succeeded, however many jobs overlap, fail half-way or die: all of its
\* documents, at its time, and history holds each of them.
ModuleIsOneMeasurement ==
    \A m \in Modules : \A d \in Present(current[m]) :
        LET row == current[m][d] IN
        /\ RunOf(row.run).status = "succeeded" /\ row.run[2] = m
        /\ \A e \in Present(current[m]) : current[m][e].run = row.run
        /\ Cardinality(Present(current[m])) = RunOf(row.run).count
        /\ row.seen = RunOf(row.run).observed
        /\ \E s \in KnownAt(m, d, row.seen) : s.payload = row.payload

\* The run rows account for history: each counts the snapshots that carry
\* its id, one that did not succeed has none, and no document has two
\* snapshots of one time.
RunsAccountForHistory ==
    /\ \A r \in RunIds :
          Cardinality({s \in history : s.run = r}) = RunOf(r).inserted
    /\ \A s, t \in history :
          s.module = t.module /\ s.doc = t.doc /\ s.observed = t.observed
              => s = t

\* A row that a run writes over or deletes is not newer than the run's
\* measurement, unless another run wrote the row after the guard was read.
NeverAnOlderMeasurement ==
    [][\A j \in Jobs : CommitModule(j) =>
          \A d \in Present(Rows(j)) :
              Rows(j)[d].seen > job[j].observed =>
                  Rows(j)[d] # job[j].before[d]]_vars

Payloads(rows) ==
    [d \in Docs |-> IF rows[d] = None THEN None ELSE rows[d].payload]

\* changed_count is the number of documents that look different after the
\* run, unless another run changed them after the previous payloads were
\* read.
ChangesCounted ==
    [][\A j \in Jobs : CommitModule(j) =>
          \/ job[j].prev # Payloads(Rows(j))
          \/ runs'[j][Stream(j)].changed =
                Cardinality({d \in Docs : Payloads(current[Stream(j)])[d] #
                                          Payloads(current'[Stream(j)])[d]})]_vars

\* What is shown of a list that was asked for by the user's name belongs to
\* the user by itself or by a project.
OnlyPersonalRows ==
    \A m \in ByIdentity : \A d \in Present(current[m]) :
        current[m][d].payload.scope # {}

\* What a job tells its caller is what is stored: the streams it calls
\* succeeded are those whose runs did; it reports success only if every
\* stream of its plan was checkpointed, none left out; and whatever ended a
\* stream, a lost session included, its run was failed, unless the job was
\* killed or has reported a failure that could not be recorded.
SummaryTellsRuns ==
    \A j \in Jobs :
        /\ \A s \in AllStreams :
              job[j].summary[s] = "succeeded" <=>
                  runs[j][s].status = "succeeded"
        /\ job[j].exit = "ok" => \A s \in job[j].plan :
                                    runs[j][s].status = "succeeded"
        /\ job[j].pc \notin Within \cup {"killed"} =>
              \A s \in AllStreams : runs[j][s].status = "running" =>
                                        job[j].summary[s] = "failed"

\* One stream's failure does not keep the others from being tried.  A job
\* that got to its end has an answer for every stream of its plan.  One that
\* could not read the rows once a batch was over has tried all procurement
\* streams of its plan, but no read-only module; one that lost its session,
\* or never had one, has begun no read-only module either.
NothingSkipped ==
    \A j \in Jobs :
        /\ job[j].exit \in {"ok", "error"} =>
              \A s \in job[j].plan : job[j].summary[s] # "none"
        /\ job[j].exit = "unread" =>
              \A s \in job[j].plan \ Modules : job[j].summary[s] # "none"
        /\ job[j].exit \in {"unread", "lost"} =>
              \A m \in Modules : runs[j][m].status = "none"

\* A job that has begun ends, unless it is killed.
JobsEnd ==
    \A j \in Jobs : ~At(j, "idle") ~> job[j].pc \in {"done", "killed"}
=============================================================================
