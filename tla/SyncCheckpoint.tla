--------------------------- MODULE SyncCheckpoint ---------------------------
(***************************************************************************)
(* Runs of sync_procurement_stream for one stream, each in a process or a  *)
(* request of its own, over the tables of storage.py.  A run notes the     *)
(* time of its measurement, inserts its run row, reads the upstream list,  *)
(* reads the current rows to merge them in, and calls complete_run.  There *)
(* the SELECTs up to the first INSERT run outside the transaction: the     *)
(* guard on newer rows, and the look-ups of the first document.  The rest  *)
(* of complete_run is one transaction and so one step.                     *)
(***************************************************************************)
EXTENDS SnapshotRules

CONSTANTS
    Listings,   \* what the upstream list may say to a run
    MaxClock,   \* bound on the clock
    Overlap     \* may two runs be under way at once

ASSUME SyncAssumption ==
    /\ Listings \subseteq Measurement
    /\ MaxClock \in Nat
    /\ Overlap \in BOOLEAN

VARIABLES
    clock,
    runs,     \* sync_runs
    current,  \* workflow_current
    history,  \* workflow_snapshots
    log,      \* workflow_events, the set of each commit, oldest first
    worker    \* what the process of each run remembers

storeVars == <<runs, current, history, log>>
vars == <<clock, storeVars, worker>>

Stages ==
    {"waiting", "measuring", "started", "listed", "merged", "guarded",
     "first_read", "ended", "killed"}

\* observed is the run's time, m its measurement; first, row and known are
\* what complete_run read outside its transaction: the first document, its
\* current row, and whether history had it at this time.
Worker ==
    [at : Stages, observed : Nat, m : Measurement, first : Docs \cup {None},
     row : Row \cup {None}, known : BOOLEAN]

Gone(stage) ==
    [at |-> stage, observed |-> 0, m |-> NoDocs, first |-> None,
     row |-> None, known |-> FALSE]

Init ==
    /\ clock = 0
    /\ runs = [r \in Runs |-> RunStatus("none")]
    /\ current = NoDocs
    /\ history = {}
    /\ log = <<>>
    /\ worker = [r \in Runs |-> Gone("waiting")]

At(r, stage) == worker[r].at = stage

Becomes(r, w) == worker' = [worker EXCEPT ![r] = w]

UnderWay(r) ==
    worker[r].at \in {"started", "listed", "merged", "guarded", "first_read"}

Tick ==
    /\ clock < MaxClock
    /\ clock' = clock + 1
    /\ UNCHANGED <<storeVars, worker>>

\* measurement_time of sync_procurement_workflows: the streams of a batch
\* share it, so the run of a late stream starts long after it.
TakeTime(r) ==
    /\ At(r, "waiting")
    /\ Becomes(r, [worker[r] EXCEPT !.at = "measuring", !.observed = clock])
    /\ UNCHANGED <<clock, storeVars>>

\* Mutant: a run makes room for its rows as it starts.
StartRunClears(r) ==
    /\ At(r, "measuring")
    /\ Overlap \/ \A q \in Runs : ~UnderWay(q)
    /\ runs' = [runs EXCEPT ![r] = RunStatus("running")]
    /\ current' = NoDocs
    /\ Becomes(r, [worker[r] EXCEPT !.at = "started"])
    /\ UNCHANGED <<clock, history, log>>

StartRun(r) ==
    /\ At(r, "measuring")
    /\ Overlap \/ \A q \in Runs : ~UnderWay(q)
    /\ runs' = [runs EXCEPT ![r] = RunStatus("running")]
    /\ Becomes(r, [worker[r] EXCEPT !.at = "started"])
    /\ UNCHANGED <<clock, current, history, log>>

ReadList(r) ==
    /\ At(r, "started")
    /\ \E listing \in Listings :
          Becomes(r, [worker[r] EXCEPT !.at = "listed", !.m = listing])
    /\ UNCHANGED <<clock, storeVars>>

ReadPrevious(r) ==
    /\ At(r, "listed")
    /\ Becomes(r, [worker[r] EXCEPT !.at = "merged",
                                    !.m = Merge(worker[r].m, current)])
    /\ UNCHANGED <<clock, storeVars>>

\* Mutant: the guard on newer rows is gone.
GuardDropped(r) ==
    /\ At(r, "merged")
    /\ runs[r].status = "running"
    /\ Becomes(r, [worker[r] EXCEPT !.at = "guarded"])
    /\ UNCHANGED <<clock, storeVars>>

Guard(r) ==
    /\ At(r, "merged")
    /\ runs[r].status = "running"
    /\ \A d \in Present(current) : current[d].seen <= worker[r].observed
    /\ Becomes(r, [worker[r] EXCEPT !.at = "guarded"])
    /\ UNCHANGED <<clock, storeVars>>

\* The snapshots of document d that were observed at time t: UNIQUE keeps
\* it at one.
KnownAt(d, t) == {s \in history : s.doc = d /\ s.observed = t}

\* Mutant: a snapshot is not compared with the stored row's time.
AnyOrder(d, w) == \A s \in KnownAt(d, w.observed) : s.content = w.m[d]

\* Document d of run w is not older than the stored row, and history has
\* nothing else for the same time.
Acceptable(d, w) ==
    /\ current[d] # None => current[d].seen <= w.observed
    /\ \A s \in KnownAt(d, w.observed) : s.content = w.m[d]

ReadFirst(r) ==
    LET w == worker[r] IN
    /\ At(r, "guarded")
    /\ \E d \in Present(w.m) :
          /\ Acceptable(d, w)
          /\ Becomes(r, [w EXCEPT !.at = "first_read", !.first = d,
                                  !.row = current[d],
                                  !.known = KnownAt(d, w.observed) # {}])
    /\ UNCHANGED <<clock, storeVars>>

\* Mutant: the schema lets history hold two snapshots of one time.
NotUnique(new) == TRUE

\* UNIQUE (adapter, external_id, observed_at): the INSERTs go through.
Unique(new) == \A s \in new : KnownAt(s.doc, s.observed) = {}

\* The writes of complete_run.  rows and new are the current rows and the
\* snapshots missing in history, as far as it knows.
Write(r, rows, new) ==
    LET w    == worker[r]
        told == EventsOf(r, w.m, rows)
    IN
    /\ Unique(new)
    /\ history' = history \cup new
    /\ log' = Append(log, told)
    /\ current' = Replaced(r, w.m, w.observed, current)
    /\ runs' = [runs EXCEPT ![r] = Completed(w.observed, w.m, new, told)]
    /\ Becomes(r, Gone("ended"))
    /\ UNCHANGED clock

\* An empty measurement: the DELETE is the first write.
CommitEmpty(r) ==
    /\ At(r, "guarded")
    /\ Present(worker[r].m) = {}
    /\ Write(r, current, {})

\* What is known of the first document was read before the transaction; the
\* others are looked up inside it.
CommitRows(r) ==
    LET w   == worker[r]
        new == {s \in SnapshotsOf(r, w.m, w.observed) :
                   IF s.doc = w.first THEN ~w.known
                   ELSE KnownAt(s.doc, w.observed) = {}}
    IN
    /\ At(r, "first_read")
    /\ \A d \in Present(w.m) \ {w.first} : Acceptable(d, w)
    /\ Write(r, [current EXCEPT ![w.first] = w.row], new)

\* A check failed, the transaction was rolled back, or the upstream read
\* went wrong: fail_run.
FailRun(r) ==
    /\ UnderWay(r)
    /\ runs[r].status = "running"
    /\ runs' = [runs EXCEPT ![r] = RunStatus("failed")]
    /\ Becomes(r, Gone("ended"))
    /\ UNCHANGED <<clock, current, history, log>>

\* The process dies: the run row says running for ever.
Kill(r) ==
    /\ UnderWay(r) \/ At(r, "measuring")
    /\ Becomes(r, Gone("killed"))
    /\ UNCHANGED <<clock, storeVars>>

Step(r) ==
    \/ TakeTime(r) \/ StartRun(r) \/ ReadList(r) \/ ReadPrevious(r)
    \/ Guard(r) \/ ReadFirst(r) \/ CommitEmpty(r) \/ CommitRows(r)
    \/ FailRun(r) \/ Kill(r)

Next == Tick \/ \E r \in Runs : Step(r)

Spec == Init /\ [][Next]_vars

-----------------------------------------------------------------------------
(***************************************************************************)
(* Properties of every interleaving                                        *)
(***************************************************************************)

\* Tables and processes hold values of their types.
TypeOK ==
    /\ clock \in 0..MaxClock
    /\ runs \in [Runs -> RunRow]
    /\ current \in [Docs -> Row \cup {None}]
    /\ history \subseteq Snapshot
    /\ log \in Seq(SUBSET Event)
    /\ worker \in [Runs -> Worker]

Succeeded(r) == runs[r].status = "succeeded"

\* The current rows are one run's complete measurement: they were written
\* by a single run that succeeded, there are as many as it measured, all
\* carry its time, and history holds each of them.  A reader never sees a
\* mixture of two runs or part of one, however runs overlap and die.
CurrentIsOneMeasurement ==
    \A d \in Present(current) :
        LET row == current[d] IN
        /\ Succeeded(row.run)
        /\ \A e \in Present(current) : current[e].run = row.run
        /\ Cardinality(Present(current)) = runs[row.run].snapshots
        /\ row.seen = runs[row.run].observed
        /\ \E s \in KnownAt(d, row.seen) : s.content = row.content

\* A run's row accounts for the rows it wrote: as many snapshots and events
\* carry its id as it counted, and a run that failed, was killed or is under
\* way left none.
RunsAccountForRows ==
    \A r \in Runs :
        /\ Cardinality({s \in history : s.run = r}) = runs[r].inserted
        /\ Cardinality({e \in UNION {log[i] : i \in 1..Len(log)} : e.run = r})
              = runs[r].events

\* History has at most one snapshot of a document for a time, and every
\* stored time is one a succeeded run measured at.
HistoryIsKeyed ==
    \A s, t \in history :
        /\ s.doc = t.doc /\ s.observed = t.observed => s = t
        /\ Succeeded(s.run) /\ runs[s.run].observed = s.observed

\* A row is never replaced by an older one, except the row of the first
\* document of a run, and that only if another run wrote it after the look-up
\* before the transaction.
NeverAnOlderRow ==
    [][\A d \in Present(current) :
          (current'[d] # None /\ current'[d].seen < current[d].seen) =>
              \E r \in Runs : /\ CommitRows(r)
                              /\ worker[r].first = d
                              /\ worker[r].row # current[d]]_vars

-----------------------------------------------------------------------------
(***************************************************************************)
(* The order of checkpoints                                                *)
(***************************************************************************)

\* What is shown is not older than any measurement that was checkpointed:
\* an older measurement does not replace a newer current state.
NewestShown ==
    \A d \in Present(current), r \in Runs :
        Succeeded(r) => runs[r].observed <= current[d].seen

\* The same, as long as no run measured an empty stream.
NewestShownUnlessEmpty ==
    (\A r \in Runs : Succeeded(r) => runs[r].snapshots > 0) => NewestShown

-----------------------------------------------------------------------------
(***************************************************************************)
(* Properties of runs that do not overlap                                  *)
(***************************************************************************)

\* The events tell the state: the last event about a document that carries
\* a status carries the status that is shown.
EventsTellStatus ==
    \A d \in Present(current) :
        \E i \in 1..Len(log) :
            /\ \E e \in log[i] :
                  /\ e.doc = d /\ e.kind # "assignee_changed"
                  /\ e.status = current[d].content.status
            /\ \A j \in (i + 1)..Len(log) : \A e \in log[j] :
                  e.doc = d => e.kind = "assignee_changed"

\* What relates a document to the account is not forgotten while it stays.
RelatedStays ==
    [][\A d \in Present(current) :
          current[d].content.related /\ current'[d] # None
              => current'[d].content.related]_vars

\* A run that nothing overlaps takes effect at the instant it commits, on
\* the rows stored then.
Store == INSTANCE CheckpointStore

ImplementsStore == Store!Spec
=============================================================================
