----------------------- MODULE SyncCheckpoint_proofs -----------------------
(***************************************************************************)
(* Proofs about SyncCheckpoint for any number of documents and runs, any   *)
(* listings and any clock, whether or not runs overlap.                    *)
(*                                                                         *)
(* Every step is of one of two kinds (NextKinds): it leaves the three      *)
(* tables alone and moves only run rows that have not succeeded (Quiet),   *)
(* or it is the commit of one run under way (Replaces).  The invariant     *)
(* Accounted then needs an argument for each of the two kinds only.        *)
(*                                                                         *)
(* The second half is about runs one at a time (~Overlap).  There what a   *)
(* run read before its transaction is still true inside it (InSeries), so  *)
(* that every commit takes effect at once (CommitsAtOnce): it is a         *)
(* checkpoint of the abstract store.                                       *)
(***************************************************************************)
EXTENDS SyncCheckpoint, FiniteSetTheorems, TLAPS

\* The image of a finite set is finite.
LEMMA ImageIsFinite ==
    ASSUME NEW S, IsFiniteSet(S), NEW f, f = [x \in S |-> f[x]]
    PROVE  IsFiniteSet({f[x] : x \in S})
  <1> DEFINE T == {f[x] : x \in S}
  <1>1. f \in Surjection(S, T)
    BY DEF Surjection
  <1> QED BY <1>1, FS_Surjection

\* There are finitely many documents in a measurement, snapshots of a run
\* and events it may tell.
LEMMA PresentIsFinite ==
    ASSUME NEW m
    PROVE  IsFiniteSet(Present(m)) /\ Cardinality(Present(m)) \in Nat
  <1>1. Present(m) \in SUBSET Docs
    BY DEF Present
  <1> QED BY <1>1, SnapshotAssumption, FS_Subset, FS_CardinalityType

LEMMA SnapshotsAreFinite ==
    ASSUME NEW r, NEW m, NEW t, NEW new \in SUBSET SnapshotsOf(r, m, t)
    PROVE  Cardinality(new) \in Nat
  <1> DEFINE f == [d \in Present(m) |->
                     [doc |-> d, observed |-> t, run |-> r, content |-> m[d]]]
  <1>1. SnapshotsOf(r, m, t) = {f[d] : d \in Present(m)}
    BY DEF SnapshotsOf
  <1>2. IsFiniteSet({f[d] : d \in Present(m)})
    <2>1. f = [d \in Present(m) |-> f[d]]
      OBVIOUS
    <2> HIDE DEF f
    <2> QED BY <2>1, PresentIsFinite, ImageIsFinite
  <1> QED BY <1>1, <1>2, FS_Subset, FS_CardinalityType

LEMMA ChangesAreKinds ==
    ASSUME NEW row, NEW c
    PROVE  Changes(row, c) \subseteq Kinds
  BY DEF Changes, Kinds

LEMMA EventsAreFinite ==
    ASSUME NEW r, NEW m, NEW rows
    PROVE  Cardinality(EventsOf(r, m, rows)) \in Nat
  <1> DEFINE P == Docs \X Kinds
             f == [x \in P |-> [run |-> r, doc |-> x[1], kind |-> x[2],
                                status |-> m[x[1]].status]]
             T == {f[x] : x \in P}
  <1>1. IsFiniteSet(Kinds)
    <2>1. Kinds = ((({} \cup {"new"}) \cup {"node_changed"})
                      \cup {"assignee_changed"}) \cup {"completed"}
      BY DEF Kinds
    <2> QED BY <2>1, FS_EmptySet, FS_AddElement
  <1>2. IsFiniteSet(P)
    BY <1>1, SnapshotAssumption, FS_Product
  <1>3. IsFiniteSet(T)
    <2>1. f = [x \in P |-> f[x]]
      OBVIOUS
    <2> HIDE DEF f, P
    <2> QED BY <1>2, <2>1, ImageIsFinite
  <1>4. EventsOf(r, m, rows) \subseteq T
    <2> SUFFICES ASSUME NEW e \in EventsOf(r, m, rows)
                 PROVE  e \in T
      OBVIOUS
    <2>1. PICK d \in Present(m) :
             e \in {[run |-> r, doc |-> d, kind |-> k, status |-> m[d].status] :
                      k \in Changes(rows[d], m[d])}
      BY DEF EventsOf
    <2>2. PICK k \in Changes(rows[d], m[d]) :
             e = [run |-> r, doc |-> d, kind |-> k, status |-> m[d].status]
      BY <2>1
    <2>3. <<d, k>> \in P
      BY ChangesAreKinds DEF Present
    <2>4. f[<<d, k>>] = e
      BY <2>2, <2>3
    <2> HIDE DEF f, P
    <2> QED BY <2>3, <2>4
  <1> QED BY <1>3, <1>4, FS_Subset, FS_CardinalityType

-----------------------------------------------------------------------------
\* The values a commit writes are of the tables' types.
LEMMA ReplacedType ==
    ASSUME NEW r \in Runs, NEW m \in Measurement, NEW t \in Nat,
           NEW rows \in [Docs -> Row \cup {None}]
    PROVE  Replaced(r, m, t, rows) \in [Docs -> Row \cup {None}]
  <1> SUFFICES ASSUME NEW d \in Docs, m[d] # None
               PROVE  [content |-> m[d], seen |-> t, run |-> r,
                       first |-> IF rows[d] = None THEN t ELSE rows[d].first]
                         \in Row
    BY DEF Replaced
  <1>1. m[d] \in Content
    BY DEF Measurement
  <1>2. rows[d] # None => rows[d].first \in Nat
    BY DEF Row
  <1> QED BY <1>1, <1>2 DEF Row

LEMMA SnapshotsOfType ==
    ASSUME NEW r \in Runs, NEW m \in Measurement, NEW t \in Nat
    PROVE  SnapshotsOf(r, m, t) \subseteq Snapshot
  BY DEF SnapshotsOf, Snapshot, Measurement, Present

LEMMA EventsOfType ==
    ASSUME NEW r \in Runs, NEW m \in Measurement, NEW rows
    PROVE  /\ EventsOf(r, m, rows) \subseteq Event
           /\ \A e \in EventsOf(r, m, rows) : e.run = r
  <1> SUFFICES ASSUME NEW d \in Present(m), NEW k \in Changes(rows[d], m[d])
               PROVE  [run |-> r, doc |-> d, kind |-> k,
                       status |-> m[d].status] \in Event
    BY DEF EventsOf
  <1>1. d \in Docs /\ k \in Kinds
    BY ChangesAreKinds DEF Present
  <1>2. m[d].status \in Statuses
    BY DEF Measurement, Present, Content
  <1> QED BY <1>1, <1>2 DEF Event

LEMMA MergeType ==
    ASSUME NEW m \in Measurement, NEW rows
    PROVE  Merge(m, rows) \in Measurement
  <1> SUFFICES ASSUME NEW d \in Docs, m[d] # None
               PROVE  [m[d] EXCEPT !.related = TRUE] \in Content
    BY DEF Merge, Measurement
  <1>1. m[d] \in Content
    BY DEF Measurement
  <1> QED BY <1>1 DEF Content

LEMMA RunStatusType ==
    ASSUME NEW status \in {"none", "running", "succeeded", "failed"}
    PROVE  RunStatus(status) \in RunRow /\ RunStatus(status).status = status
  BY DEF RunStatus, RunRow

LEMMA RunStatusCounts ==
    ASSUME NEW status
    PROVE  RunStatus(status).inserted = 0 /\ RunStatus(status).events = 0
  BY DEF RunStatus

\* The rows of m are all that is left, with m's contents and t's time.
LEMMA ReplacedRows ==
    ASSUME NEW r, NEW m, NEW t, NEW rows
    PROVE  LET now == Replaced(r, m, t, rows) IN
           \A d \in Docs :
              /\ m[d] = None => now[d] = None
              /\ m[d] # None => /\ now[d].content = m[d]
                                /\ now[d].seen = t
                                /\ now[d].run = r
  BY DEF Replaced

\* A document has a row after a commit exactly if the commit measured it.
LEMMA ReplacedPresent ==
    ASSUME NEW r \in Runs, NEW m \in Measurement, NEW t \in Nat,
           NEW rows \in [Docs -> Row \cup {None}]
    PROVE  Present(Replaced(r, m, t, rows)) = Present(m)
  <1> DEFINE now == Replaced(r, m, t, rows)
  <1>1. ASSUME NEW d \in Docs, m[d] # None PROVE now[d] # None
    <2>1. now[d] = [content |-> m[d], seen |-> t, run |-> r,
                    first |-> IF rows[d] = None THEN t ELSE rows[d].first]
      BY <1>1 DEF Replaced
    <2>2. m[d] \in Content
      BY <1>1 DEF Measurement
    <2>3. rows[d] # None => rows[d].first \in Nat
      BY DEF Row
    <2>4. now[d] \in Row
      BY <2>1, <2>2, <2>3 DEF Row
    <2> QED BY <2>4, RowAssumption
  <1> QED BY <1>1, ReplacedRows DEF Present

-----------------------------------------------------------------------------
\* Where a process stands agrees with its run row, and what it read before
\* the transaction was in order: the first document is one it measured, the
\* row is not newer than the measurement, and a snapshot known for its time
\* says what it measured.
ProcessInOrder(r) ==
    LET w == worker[r] IN
    /\ w.at \in {"waiting", "measuring"} => runs[r].status = "none"
    /\ UnderWay(r) => runs[r].status = "running"
    /\ w.at = "first_read" =>
          /\ w.first \in Present(w.m)
          /\ w.row # None => w.row.seen <= w.observed
          /\ w.known => \E s \in KnownAt(w.first, w.observed) :
                           s.content = w.m[w.first]

\* A run that did not succeed has counted nothing.
CountsNothing(r) == Succeeded(r) \/ runs[r] = RunStatus(runs[r].status)

\* Only runs that succeeded have told events.
LogIsKeyed == \A i \in 1..Len(log) : \A e \in log[i] : Succeeded(e.run)

Accounted ==
    /\ TypeOK
    /\ \A r \in Runs : ProcessInOrder(r) /\ CountsNothing(r)
    /\ LogIsKeyed
    /\ HistoryIsKeyed
    /\ CurrentIsOneMeasurement
    /\ RunsAccountForRows

\* The two kinds of steps.
Quiet ==
    /\ UNCHANGED <<current, history, log>>
    /\ \A r \in Runs : \/ runs'[r] = runs[r]
                       \/ /\ ~Succeeded(r)
                          /\ runs'[r] \in {RunStatus("running"),
                                           RunStatus("failed")}

\* Run r commits: it adds new to history and tells told.
Replaces(r, new, told) ==
    LET w == worker[r] IN
    /\ runs[r].status = "running"
    /\ new \subseteq SnapshotsOf(r, w.m, w.observed)
    /\ Unique(new)
    /\ \A d \in Present(w.m) :
          \E s \in history \cup new :
             s.doc = d /\ s.observed = w.observed /\ s.content = w.m[d]
    /\ Cardinality(told) \in Nat
    /\ told \subseteq Event
    /\ \A e \in told : e.run = r
    /\ history' = history \cup new
    /\ log' = Append(log, told)
    /\ current' = Replaced(r, w.m, w.observed, current)
    /\ runs' = [runs EXCEPT ![r] = Completed(w.observed, w.m, new, told)]

\* A commit has written for its run only, and the run has succeeded.
LEMMA ReplacesRuns ==
    ASSUME TypeOK, NEW r \in Runs, NEW new, NEW told, Replaces(r, new, told)
    PROVE  /\ Succeeded(r)'
           /\ runs'[r] = Completed(worker[r].observed, worker[r].m, new, told)
           /\ ~Succeeded(r)
           /\ \A q \in Runs : q # r => runs'[q] = runs[q]
           /\ \A q \in Runs : Succeeded(q) => Succeeded(q)'
  BY DEF TypeOK, Replaces, Succeeded, Completed

-----------------------------------------------------------------------------
\* A process may come to remember any well-typed thing.
LEMMA BecomesType ==
    ASSUME TypeOK, NEW r \in Runs, NEW w \in Worker, Becomes(r, w)
    PROVE  /\ worker' \in [Runs -> Worker]
           /\ worker'[r] = w
           /\ \A q \in Runs : q # r => worker'[q] = worker[q]
  BY DEF TypeOK, Becomes

LEMMA GoneType ==
    ASSUME NEW stage \in Stages
    PROVE  Gone(stage) \in Worker /\ Gone(stage).at = stage
  BY DEF Gone, Worker, NoDocs, Measurement

\* At the start everything is in order.
LEMMA AccountedInit == Init => Accounted
  <1> SUFFICES ASSUME Init PROVE Accounted
    OBVIOUS
  <1>1. \A r \in Runs : worker[r] = Gone("waiting") /\ runs[r] = RunStatus("none")
    BY DEF Init
  <1>2. TypeOK
    <2>1. worker \in [Runs -> Worker]
      BY GoneType DEF Init, Stages
    <2>2. runs \in [Runs -> RunRow]
      BY RunStatusType DEF Init
    <2>3. clock \in 0..MaxClock
      BY SyncAssumption DEF Init
    <2> QED BY <2>1, <2>2, <2>3 DEF Init, TypeOK, NoDocs
  <1>3. \A r \in Runs : ProcessInOrder(r) /\ CountsNothing(r)
    <2> SUFFICES ASSUME NEW r \in Runs
                 PROVE  ProcessInOrder(r) /\ CountsNothing(r)
      OBVIOUS
    <2>1. worker[r].at = "waiting" /\ runs[r].status = "none"
      BY <1>1, RunStatusType, GoneType DEF Stages
    <2> QED BY <1>1, <2>1 DEF ProcessInOrder, CountsNothing, UnderWay
  <1>4. LogIsKeyed /\ HistoryIsKeyed
    BY DEF Init, LogIsKeyed, HistoryIsKeyed
  <1>5. CurrentIsOneMeasurement
    BY DEF Init, CurrentIsOneMeasurement, Present, NoDocs
  <1>6. RunsAccountForRows
    <2> SUFFICES ASSUME NEW r \in Runs
                 PROVE  /\ Cardinality({s \in history : s.run = r})
                              = runs[r].inserted
                        /\ Cardinality({e \in UNION {log[i] : i \in 1..Len(log)} :
                                          e.run = r}) = runs[r].events
      BY DEF RunsAccountForRows
    <2>1. {s \in history : s.run = r} = {}
      BY DEF Init
    <2>2. {e \in UNION {log[i] : i \in 1..Len(log)} : e.run = r} = {}
      BY DEF Init
    <2>3. runs[r].inserted = 0 /\ runs[r].events = 0
      BY <1>1 DEF RunStatus
    <2> QED BY <2>1, <2>2, <2>3, FS_EmptySet
  <1> QED BY <1>2, <1>3, <1>4, <1>5, <1>6 DEF Accounted

-----------------------------------------------------------------------------
\* The lemmas that keep the processes in order.
LEMMA OthersInOrder ==
    ASSUME Accounted, NEW r \in Runs, NEW q \in Runs,
           worker'[q] = worker[q], runs'[q] = runs[q],
           history \subseteq history'
    PROVE  ProcessInOrder(q)'
  BY DEF Accounted, ProcessInOrder, UnderWay, KnownAt

\* A process that has ended is in order.
LEMMA GoneInOrder ==
    ASSUME NEW r \in Runs, NEW stage \in {"ended", "killed"},
           worker'[r] = Gone(stage)
    PROVE  ProcessInOrder(r)'
  BY DEF ProcessInOrder, UnderWay, Gone

\* A step that only moves process r, and keeps it in order, is quiet.
LEMMA ReadsInOrder ==
    ASSUME Accounted, NEW r \in Runs, NEW w \in Worker, Becomes(r, w),
           UNCHANGED <<clock, storeVars>>,
           w.at \in {"waiting", "measuring"} => runs[r].status = "none",
           w.at \in {"started", "listed", "merged", "guarded", "first_read"}
              => runs[r].status = "running",
           w.at = "first_read" =>
              /\ w.first \in Present(w.m)
              /\ w.row # None => w.row.seen <= w.observed
              /\ w.known => \E s \in KnownAt(w.first, w.observed) :
                               s.content = w.m[w.first]
    PROVE  TypeOK' /\ (\A q \in Runs : ProcessInOrder(q)') /\ Quiet
  <1>1. TypeOK /\ \A q \in Runs : ProcessInOrder(q)
    BY DEF Accounted
  <1>2. worker' \in [Runs -> Worker] /\ worker'[r] = w
    BY <1>1, BecomesType
  <1>3. TypeOK'
    BY <1>1, <1>2 DEF TypeOK, storeVars
  <1>4. ASSUME NEW q \in Runs PROVE ProcessInOrder(q)'
    <2>1. CASE q = r
      BY <1>2, <2>1 DEF ProcessInOrder, UnderWay, KnownAt, storeVars
    <2>2. CASE q # r
      BY <1>1, <2>2, BecomesType, OthersInOrder DEF storeVars
    <2> QED BY <2>1, <2>2
  <1>5. Quiet
    BY DEF Quiet, storeVars
  <1> QED BY <1>3, <1>4, <1>5

\* A step that moves process r and its run row, which has not succeeded.
LEMMA StatusInOrder ==
    ASSUME Accounted, NEW r \in Runs, NEW w \in Worker, Becomes(r, w),
           NEW status \in {"running", "failed"},
           runs' = [runs EXCEPT ![r] = RunStatus(status)],
           UNCHANGED <<clock, current, history, log>>, ~Succeeded(r),
           \/ w.at = "started" /\ status = "running"
           \/ w = Gone("ended") /\ status = "failed"
    PROVE  TypeOK' /\ (\A q \in Runs : ProcessInOrder(q)') /\ Quiet
  <1>1. TypeOK /\ \A q \in Runs : ProcessInOrder(q)
    BY DEF Accounted
  <1>2. worker' \in [Runs -> Worker] /\ worker'[r] = w
    BY <1>1, BecomesType
  <1>3. /\ runs' \in [Runs -> RunRow]
        /\ runs'[r] = RunStatus(status)
        /\ runs'[r].status = status
        /\ \A q \in Runs : q # r => runs'[q] = runs[q]
    BY <1>1, RunStatusType DEF TypeOK
  <1>4. TypeOK'
    BY <1>1, <1>2, <1>3 DEF TypeOK
  <1>5. ASSUME NEW q \in Runs PROVE ProcessInOrder(q)'
    <2>1. CASE q = r
      <3>1. CASE w.at = "started" /\ status = "running"
        BY <1>2, <1>3, <2>1, <3>1 DEF ProcessInOrder, UnderWay
      <3>2. CASE w = Gone("ended")
        BY <1>2, <2>1, <3>2, GoneInOrder
      <3> QED BY <3>1, <3>2
    <2>2. CASE q # r
      BY <1>1, <1>3, <2>2, BecomesType, OthersInOrder
    <2> QED BY <2>1, <2>2
  <1>6. Quiet
    BY <1>3 DEF Quiet
  <1> QED BY <1>4, <1>5, <1>6

\* A step that ends process r with a commit.
LEMMA CommitInOrder ==
    ASSUME Accounted, NEW r \in Runs, NEW new, NEW told,
           Replaces(r, new, told), Becomes(r, Gone("ended")), UNCHANGED clock
    PROVE  TypeOK' /\ \A q \in Runs : ProcessInOrder(q)'
  <1> DEFINE w == worker[r]
  <1>1. TypeOK /\ \A q \in Runs : ProcessInOrder(q)
    BY DEF Accounted
  <1>2. w \in Worker /\ w.m \in Measurement /\ w.observed \in Nat
    BY <1>1 DEF TypeOK, Worker
  <1>3. worker' \in [Runs -> Worker] /\ worker'[r] = Gone("ended")
    BY <1>1, GoneType, BecomesType DEF Stages
  <1>4. runs' \in [Runs -> RunRow]
    <2>1. Cardinality(Present(w.m)) \in Nat
      BY PresentIsFinite
    <2>2. Cardinality(new) \in Nat
      BY SnapshotsAreFinite DEF Replaces
    <2>3. Completed(w.observed, w.m, new, told) \in RunRow
      BY <1>2, <2>1, <2>2 DEF Completed, RunRow, Replaces
    <2> QED BY <1>1, <2>3 DEF TypeOK, Replaces
  <1>5. current' \in [Docs -> Row \cup {None}]
    BY <1>1, <1>2, ReplacedType DEF TypeOK, Replaces
  <1>6. history' \subseteq Snapshot
    BY <1>1, <1>2, SnapshotsOfType DEF TypeOK, Replaces
  <1>7. log' \in Seq(SUBSET Event)
    BY <1>1 DEF TypeOK, Replaces
  <1>8. TypeOK'
    BY <1>1, <1>3, <1>4, <1>5, <1>6, <1>7 DEF TypeOK
  <1>9. ASSUME NEW q \in Runs PROVE ProcessInOrder(q)'
    <2>1. CASE q = r
      BY <1>3, <2>1, GoneInOrder
    <2>2. CASE q # r
      <3>1. worker'[q] = worker[q]
        BY <1>1, <2>2, GoneType, BecomesType DEF Stages
      <3>2. runs'[q] = runs[q]
        BY <1>1, <2>2, ReplacesRuns
      <3>3. history \subseteq history'
        BY DEF Replaces
      <3> QED BY <1>1, <3>1, <3>2, <3>3, OthersInOrder
    <2> QED BY <2>1, <2>2
  <1> QED BY <1>8, <1>9

-----------------------------------------------------------------------------
\* The two commits are what Replaces says.
LEMMA WriteReplaces ==
    ASSUME Accounted, NEW r \in Runs, NEW rows, NEW new, UnderWay(r),
           new \subseteq SnapshotsOf(r, worker[r].m, worker[r].observed),
           \A d \in Present(worker[r].m) :
              \E s \in history \cup new :
                 /\ s.doc = d
                 /\ s.observed = worker[r].observed
                 /\ s.content = worker[r].m[d],
           Write(r, rows, new)
    PROVE  \E told : Replaces(r, new, told)
  <1> DEFINE w    == worker[r]
             told == EventsOf(r, w.m, rows)
  <1>1. w.m \in Measurement
    BY DEF Accounted, TypeOK, Worker
  <1>2. runs[r].status = "running"
    BY DEF Accounted, ProcessInOrder
  <1>3. /\ Cardinality(told) \in Nat
        /\ told \subseteq Event
        /\ \A e \in told : e.run = r
    BY <1>1, EventsAreFinite, EventsOfType
  <1>4. Replaces(r, new, told)
    BY <1>2, <1>3 DEF Replaces, Write
  <1> QED BY <1>4

LEMMA CommitEmptyReplaces ==
    ASSUME Accounted, NEW r \in Runs, CommitEmpty(r)
    PROVE  \E new, told : Replaces(r, new, told)
  <1>1. UnderWay(r)
    BY DEF CommitEmpty, At, UnderWay
  <1>2. \E told : Replaces(r, {}, told)
    BY <1>1, WriteReplaces DEF CommitEmpty
  <1> QED BY <1>2

\* What CommitRows does not add to history is there with the same content.
LEMMA CommitRowsReplaces ==
    ASSUME Accounted, NEW r \in Runs, CommitRows(r)
    PROVE  \E new, told : Replaces(r, new, told)
  <1> DEFINE w   == worker[r]
             new == {s \in SnapshotsOf(r, w.m, w.observed) :
                       IF s.doc = w.first THEN ~w.known
                       ELSE KnownAt(s.doc, w.observed) = {}}
             rows == [current EXCEPT ![w.first] = w.row]
  <1>1. UnderWay(r) /\ w.at = "first_read"
    BY DEF CommitRows, At, UnderWay
  <1>2. ASSUME NEW d \in Present(w.m)
        PROVE  \E s \in history \cup new :
                  s.doc = d /\ s.observed = w.observed /\ s.content = w.m[d]
    <2> DEFINE s == [doc |-> d, observed |-> w.observed, run |-> r,
                     content |-> w.m[d]]
    <2>1. s \in SnapshotsOf(r, w.m, w.observed)
      BY DEF SnapshotsOf
    <2>2. CASE s \in new
      BY <2>2
    <2>3. CASE s \notin new /\ d = w.first
      <3>1. w.known
        BY <2>1, <2>3
      <3> QED BY <1>1, <2>3, <3>1 DEF Accounted, ProcessInOrder, KnownAt
    <2>4. CASE s \notin new /\ d # w.first
      <3>1. KnownAt(d, w.observed) # {}
        BY <2>1, <2>4
      <3>2. \A t \in KnownAt(d, w.observed) : t.content = w.m[d]
        BY <2>4 DEF CommitRows, Acceptable
      <3> QED BY <3>1, <3>2 DEF KnownAt
    <2> QED BY <2>2, <2>3, <2>4
  <1>3. new \subseteq SnapshotsOf(r, w.m, w.observed)
    OBVIOUS
  <1>4. Write(r, rows, new)
    BY DEF CommitRows
  <1> HIDE DEF new, rows
  <1>5. \E told : Replaces(r, new, told)
    BY <1>1, <1>2, <1>3, <1>4, WriteReplaces
  <1> QED BY <1>5

\* Every step is of one of the two kinds and keeps the processes in order.
LEMMA NextKinds ==
    ASSUME Accounted, [Next]_vars
    PROVE  /\ TypeOK'
           /\ \A q \in Runs : ProcessInOrder(q)'
           /\ \/ Quiet
              \/ \E r \in Runs : \E new, told : Replaces(r, new, told)
  <1> DEFINE Goal == /\ TypeOK'
                     /\ \A q \in Runs : ProcessInOrder(q)'
                     /\ \/ Quiet
                        \/ \E r \in Runs : \E new, told : Replaces(r, new, told)
  <1>a. TypeOK /\ \A r \in Runs : ProcessInOrder(r) /\ worker[r] \in Worker
    BY DEF Accounted, TypeOK
  <1>b. clock \in Nat
    BY SyncAssumption DEF Accounted, TypeOK
  <1>1. CASE UNCHANGED vars
    BY <1>a, <1>1 DEF vars, storeVars, TypeOK, ProcessInOrder, UnderWay,
                      KnownAt, Quiet
  <1>2. CASE Tick
    <2>1. TypeOK'
      BY <1>a, <1>2, SyncAssumption DEF Tick, TypeOK, storeVars
    <2> QED BY <1>a, <1>2, <2>1 DEF Tick, storeVars, ProcessInOrder, UnderWay,
                                    KnownAt, Quiet
  <1>3. ASSUME NEW r \in Runs, TakeTime(r) PROVE Goal
    <2> DEFINE w == [worker[r] EXCEPT !.at = "measuring", !.observed = clock]
    <2>1. w \in Worker /\ w.at = "measuring"
      BY <1>a, <1>b DEF Worker, Stages
    <2>2. runs[r].status = "none"
      BY <1>a, <1>3 DEF TakeTime, At, ProcessInOrder
    <2>3. Becomes(r, w) /\ UNCHANGED <<clock, storeVars>>
      BY <1>3 DEF TakeTime
    <2> HIDE DEF w
    <2> QED BY <2>1, <2>2, <2>3, ReadsInOrder
  <1>4. ASSUME NEW r \in Runs, StartRun(r) PROVE Goal
    <2> DEFINE w == [worker[r] EXCEPT !.at = "started"]
    <2>1. w \in Worker /\ w.at = "started"
      BY <1>a DEF Worker, Stages
    <2>2. ~Succeeded(r)
      BY <1>a, <1>4 DEF StartRun, At, ProcessInOrder, Succeeded
    <2>3. /\ Becomes(r, w)
          /\ runs' = [runs EXCEPT ![r] = RunStatus("running")]
          /\ UNCHANGED <<clock, current, history, log>>
      BY <1>4 DEF StartRun
    <2> HIDE DEF w
    <2> QED BY <2>1, <2>2, <2>3, StatusInOrder
  <1>5. ASSUME NEW r \in Runs, ReadList(r) PROVE Goal
    <2>1. PICK listing \in Listings :
             Becomes(r, [worker[r] EXCEPT !.at = "listed", !.m = listing])
      BY <1>5 DEF ReadList
    <2> DEFINE w == [worker[r] EXCEPT !.at = "listed", !.m = listing]
    <2>2. w \in Worker /\ w.at = "listed"
      BY <1>a, SyncAssumption DEF Worker, Stages
    <2>3. runs[r].status = "running" /\ UNCHANGED <<clock, storeVars>>
      BY <1>a, <1>5 DEF ReadList, At, ProcessInOrder, UnderWay
    <2> HIDE DEF w
    <2> QED BY <2>1, <2>2, <2>3, ReadsInOrder DEF w
  <1>6. ASSUME NEW r \in Runs, ReadPrevious(r) PROVE Goal
    <2> DEFINE w == [worker[r] EXCEPT !.at = "merged",
                                      !.m = Merge(worker[r].m, current)]
    <2>1. w \in Worker /\ w.at = "merged"
      BY <1>a, MergeType DEF Worker, Stages
    <2>2. runs[r].status = "running"
      BY <1>a, <1>6 DEF ReadPrevious, At, ProcessInOrder, UnderWay
    <2>3. Becomes(r, w) /\ UNCHANGED <<clock, storeVars>>
      BY <1>6 DEF ReadPrevious
    <2> HIDE DEF w
    <2> QED BY <2>1, <2>2, <2>3, ReadsInOrder
  <1>7. ASSUME NEW r \in Runs, Guard(r) PROVE Goal
    <2> DEFINE w == [worker[r] EXCEPT !.at = "guarded"]
    <2>1. w \in Worker /\ w.at = "guarded"
      BY <1>a DEF Worker, Stages
    <2>2. /\ runs[r].status = "running"
          /\ Becomes(r, w)
          /\ UNCHANGED <<clock, storeVars>>
      BY <1>7 DEF Guard
    <2> HIDE DEF w
    <2> QED BY <2>1, <2>2, ReadsInOrder
  <1>8. ASSUME NEW r \in Runs, ReadFirst(r) PROVE Goal
    <2> DEFINE v == worker[r]
    <2>1. PICK d \in Present(v.m) :
             /\ Acceptable(d, v)
             /\ Becomes(r, [v EXCEPT !.at = "first_read", !.first = d,
                                     !.row = current[d],
                                     !.known = KnownAt(d, v.observed) # {}])
      BY <1>8 DEF ReadFirst
    <2> DEFINE w == [v EXCEPT !.at = "first_read", !.first = d,
                              !.row = current[d],
                              !.known = KnownAt(d, v.observed) # {}]
    <2>2. /\ w.at = "first_read" /\ w.first = d /\ w.row = current[d]
          /\ w.known = (KnownAt(d, v.observed) # {})
          /\ w.m = v.m /\ w.observed = v.observed
      BY <1>a DEF Worker
    <2>3. w \in Worker
      BY <1>a DEF Worker, Stages, TypeOK, Present
    <2>4. runs[r].status = "running" /\ UNCHANGED <<clock, storeVars>>
      BY <1>a, <1>8 DEF ReadFirst, At, ProcessInOrder, UnderWay
    <2>5. w.row # None => w.row.seen <= w.observed
      BY <2>1, <2>2 DEF Acceptable
    <2>6. w.known => \E s \in KnownAt(w.first, w.observed) :
                        s.content = w.m[w.first]
      BY <2>1, <2>2 DEF Acceptable
    <2>7. Becomes(r, w)
      BY <2>1
    <2> HIDE DEF w
    <2> QED BY <2>2, <2>3, <2>4, <2>5, <2>6, <2>7, ReadsInOrder
  <1>9. ASSUME NEW r \in Runs, CommitEmpty(r) PROVE Goal
    <2>1. PICK new, told : Replaces(r, new, told)
      BY <1>9, CommitEmptyReplaces
    <2> QED BY <1>9, <2>1, CommitInOrder DEF CommitEmpty, Write
  <1>10. ASSUME NEW r \in Runs, CommitRows(r) PROVE Goal
    <2>1. PICK new, told : Replaces(r, new, told)
      BY <1>10, CommitRowsReplaces
    <2> QED BY <1>10, <2>1, CommitInOrder DEF CommitRows, Write
  <1>11. ASSUME NEW r \in Runs, FailRun(r) PROVE Goal
    <2>1. ~Succeeded(r)
      BY <1>11 DEF FailRun, Succeeded
    <2>2. Gone("ended") \in Worker
      BY GoneType DEF Stages
    <2> QED BY <1>11, <2>1, <2>2, StatusInOrder DEF FailRun
  <1>12. ASSUME NEW r \in Runs, Kill(r) PROVE Goal
    <2>1. Gone("killed") \in Worker /\ Gone("killed").at = "killed"
      BY GoneType DEF Stages
    <2> QED BY <1>12, <2>1, ReadsInOrder DEF Kill
  <1>13. Goal
    BY <1>1, <1>2, <1>3, <1>4, <1>5, <1>6, <1>7, <1>8, <1>9, <1>10, <1>11,
       <1>12 DEF Next, Step
  <1> QED BY <1>13

-----------------------------------------------------------------------------
\* A quiet step leaves the accounts as they were.
LEMMA QuietAccounts ==
    ASSUME Accounted, Quiet, TypeOK'
    PROVE  /\ \A r \in Runs : CountsNothing(r)'
           /\ LogIsKeyed'
           /\ HistoryIsKeyed'
           /\ CurrentIsOneMeasurement'
           /\ RunsAccountForRows'
  <1>a. /\ TypeOK /\ \A r \in Runs : CountsNothing(r)
        /\ UNCHANGED <<current, history, log>>
    BY DEF Accounted, Quiet
  <1>1. \A r \in Runs : Succeeded(r) => runs'[r] = runs[r] /\ Succeeded(r)'
    BY DEF Quiet, Succeeded
  <1>2. ASSUME NEW r \in Runs PROVE CountsNothing(r)'
    <2>1. CASE runs'[r] = runs[r]
      BY <1>a, <2>1 DEF CountsNothing, Succeeded
    <2>2. CASE runs'[r] \in {RunStatus("running"), RunStatus("failed")}
      BY <2>2, RunStatusType DEF CountsNothing
    <2> QED BY <2>1, <2>2 DEF Quiet
  <1>3. LogIsKeyed'
    <2>1. \A i \in 1..Len(log) : \A e \in log[i] : e.run \in Runs
      BY <1>a DEF TypeOK, Event
    <2> QED BY <1>a, <1>1, <2>1 DEF Accounted, LogIsKeyed
  <1>4. HistoryIsKeyed'
    <2>1. \A s \in history : s.run \in Runs
      BY <1>a DEF TypeOK, Snapshot
    <2> QED BY <1>a, <1>1, <2>1 DEF Accounted, HistoryIsKeyed
  <1>5. CurrentIsOneMeasurement'
    <2>1. \A d \in Present(current) : current[d].run \in Runs
      BY <1>a DEF TypeOK, Row, Present
    <2>2. Present(current)' = Present(current)
      BY <1>a DEF Present
    <2>3. \A d, t : KnownAt(d, t)' = KnownAt(d, t)
      BY <1>a DEF KnownAt
    <2>4. CurrentIsOneMeasurement
      BY DEF Accounted
    <2> QED BY <1>a, <1>1, <2>1, <2>2, <2>3, <2>4 DEF CurrentIsOneMeasurement
  <1>6. RunsAccountForRows'
    <2>1. ASSUME NEW r \in Runs
          PROVE  /\ runs'[r].inserted = runs[r].inserted
                 /\ runs'[r].events = runs[r].events
      <3>1. CASE Succeeded(r)
        BY <1>1, <3>1
      <3>2. CASE ~Succeeded(r)
        <4>1. runs[r].inserted = 0 /\ runs[r].events = 0
          BY <1>a, <3>2, RunStatusCounts DEF CountsNothing
        <4>2. ~Succeeded(r)'
          BY <3>2, RunStatusType DEF Quiet, Succeeded
        <4>3. runs'[r].inserted = 0 /\ runs'[r].events = 0
          BY <1>2, <4>2, RunStatusCounts DEF CountsNothing
        <4> QED BY <4>1, <4>3
      <3> QED BY <3>1, <3>2
    <2> QED BY <1>a, <2>1 DEF Accounted, RunsAccountForRows
  <1> QED BY <1>2, <1>3, <1>4, <1>5, <1>6

\* A commit keeps the accounts.  Its run had not succeeded before, so that
\* no snapshot and no event carried its id.
LEMMA ReplacesAccounts ==
    ASSUME Accounted, NEW r \in Runs, NEW new, NEW told, Replaces(r, new, told)
    PROVE  /\ \A q \in Runs : CountsNothing(q)'
           /\ LogIsKeyed'
           /\ HistoryIsKeyed'
           /\ CurrentIsOneMeasurement'
           /\ RunsAccountForRows'
  <1> DEFINE w == worker[r]
  <1>a. /\ TypeOK /\ \A q \in Runs : CountsNothing(q)
        /\ w.m \in Measurement
    BY DEF Accounted, TypeOK, Worker
  <1>b. /\ Succeeded(r)' /\ ~Succeeded(r)
        /\ runs'[r] = Completed(w.observed, w.m, new, told)
        /\ \A q \in Runs : q # r => runs'[q] = runs[q]
        /\ \A q \in Runs : Succeeded(q) => Succeeded(q)'
    BY <1>a, ReplacesRuns
  <1>c. /\ history' = history \cup new
        /\ log' = Append(log, told)
        /\ current' = Replaced(r, w.m, w.observed, current)
    BY DEF Replaces
  <1>d. \A s \in new : /\ s.run = r
                       /\ s.observed = w.observed
                       /\ s.doc \in Present(w.m)
                       /\ s.content = w.m[s.doc]
                       /\ s \in SnapshotsOf(r, w.m, w.observed)
    BY DEF Replaces, SnapshotsOf
  <1>e. \A s \in history : s.run \in Runs /\ s.run # r
    BY <1>a, <1>b DEF Accounted, HistoryIsKeyed, TypeOK, Snapshot
  <1>f. \A i \in 1..Len(log) : \A e \in log[i] : e.run \in Runs /\ e.run # r
    BY <1>a, <1>b DEF Accounted, LogIsKeyed, TypeOK, Event
  <1>g. /\ Len(log') = Len(log) + 1
        /\ log'[Len(log) + 1] = told
        /\ \A i \in 1..Len(log) : log'[i] = log[i]
        /\ Len(log) \in Nat
    BY <1>a, <1>c DEF TypeOK
  <1>h. \A e \in told : e.run = r
    BY DEF Replaces
  <1>1. \A q \in Runs : CountsNothing(q)'
    BY <1>a, <1>b DEF CountsNothing, Succeeded
  <1>2. LogIsKeyed'
    <2> SUFFICES ASSUME NEW i \in 1..Len(log'), NEW e \in log'[i]
                 PROVE  Succeeded(e.run)'
      BY DEF LogIsKeyed
    <2>1. CASE i = Len(log) + 1
      BY <1>b, <1>g, <1>h, <2>1
    <2>2. CASE i # Len(log) + 1
      <3>1. i \in 1..Len(log) /\ e \in log[i]
        BY <1>g, <2>2
      <3> QED BY <1>b, <1>f, <3>1 DEF Accounted, LogIsKeyed
    <2> QED BY <2>1, <2>2
  <1>3. HistoryIsKeyed'
    <2>1. ASSUME NEW s \in history'
          PROVE  Succeeded(s.run)' /\ runs'[s.run].observed = s.observed
      <3>1. CASE s \in history
        BY <1>b, <1>e, <3>1 DEF Accounted, HistoryIsKeyed
      <3>2. CASE s \in new
        BY <1>b, <1>d, <3>2 DEF Completed
      <3> QED BY <1>c, <3>1, <3>2
    <2>2. ASSUME NEW s \in history', NEW t \in history',
                 s.doc = t.doc, s.observed = t.observed
          PROVE  s = t
      <3>1. CASE s \in history /\ t \in history
        BY <2>2, <3>1 DEF Accounted, HistoryIsKeyed
      <3>2. CASE s \in new /\ t \in new
        BY <2>2, <3>2 DEF Replaces, SnapshotsOf
      <3>3. CASE s \in new /\ t \in history
        BY <2>2, <3>3 DEF Replaces, Unique, KnownAt
      <3>4. CASE s \in history /\ t \in new
        BY <2>2, <3>4 DEF Replaces, Unique, KnownAt
      <3> QED BY <1>c, <3>1, <3>2, <3>3, <3>4
    <2> QED BY <2>1, <2>2 DEF HistoryIsKeyed
  <1>4. CurrentIsOneMeasurement'
    <2>1. Present(current') = Present(w.m)
      BY <1>a, <1>c, ReplacedPresent DEF TypeOK, Worker
    <2>2. \A d \in Present(w.m) : /\ current'[d].run = r
                                  /\ current'[d].seen = w.observed
                                  /\ current'[d].content = w.m[d]
      BY <1>c, ReplacedRows DEF Present
    <2>3. /\ runs'[r].snapshots = Cardinality(Present(w.m))
          /\ runs'[r].observed = w.observed
      BY <1>b DEF Completed
    <2>4. \A d \in Present(w.m) :
             \E s \in history' : /\ s.doc = d
                                 /\ s.observed = w.observed
                                 /\ s.content = w.m[d]
      BY <1>c DEF Replaces
    <2>5. ASSUME NEW d \in Present(current')
          PROVE  /\ runs'[current'[d].run].status = "succeeded"
                 /\ \A e \in Present(current') :
                       current'[e].run = current'[d].run
                 /\ Cardinality(Present(current'))
                       = runs'[current'[d].run].snapshots
                 /\ current'[d].seen = runs'[current'[d].run].observed
                 /\ \E s \in history' : /\ s.doc = d
                                        /\ s.observed = current'[d].seen
                                        /\ s.content = current'[d].content
      <3>1. /\ current'[d].run = r
            /\ current'[d].seen = w.observed
            /\ current'[d].content = w.m[d]
        BY <2>1, <2>2
      <3>2. runs'[r].status = "succeeded"
        BY <1>b DEF Succeeded
      <3> QED BY <2>1, <2>2, <2>3, <2>4, <3>1, <3>2
    <2>6. Present(current)' = Present(current')
      BY DEF Present
    <2> QED BY <2>5, <2>6 DEF CurrentIsOneMeasurement, Succeeded, KnownAt
  <1>5. RunsAccountForRows'
    <2> DEFINE Was(q)  == {s \in history : s.run = q}
               Is(q)   == {s \in history' : s.run = q}
               Told(q) == {e \in UNION {log[i] : i \in 1..Len(log)} : e.run = q}
               Now(q)  == {e \in UNION {log'[i] : i \in 1..Len(log')} :
                              e.run = q}
    <2>1. \A e : (\E i \in 1..Len(log') : e \in log'[i])
                    <=> (e \in told \/ \E i \in 1..Len(log) : e \in log[i])
      BY <1>g
    <2>2. Now(r) = told
      BY <1>f, <1>h, <2>1
    <2>3. ASSUME NEW q \in Runs, q # r PROVE Now(q) = Told(q)
      BY <1>h, <2>1, <2>3
    <2>4. Is(r) = new
      BY <1>c, <1>d, <1>e
    <2>5. ASSUME NEW q \in Runs, q # r PROVE Is(q) = Was(q)
      BY <1>c, <1>d, <2>5
    <2>6. /\ runs'[r].inserted = Cardinality(new)
          /\ runs'[r].events = Cardinality(told)
      BY <1>b DEF Completed
    <2>7. ASSUME NEW q \in Runs
          PROVE  /\ Cardinality(Was(q)) = runs[q].inserted
                 /\ Cardinality(Told(q)) = runs[q].events
      BY DEF Accounted, RunsAccountForRows
    <2> SUFFICES ASSUME NEW q \in Runs
                 PROVE  /\ Cardinality(Is(q)) = runs'[q].inserted
                        /\ Cardinality(Now(q)) = runs'[q].events
      BY DEF RunsAccountForRows
    <2> HIDE DEF Was, Is, Told, Now
    <2>8. CASE q = r
      BY <2>2, <2>4, <2>6, <2>8
    <2>9. CASE q # r
      BY <1>b, <2>3, <2>5, <2>7, <2>9
    <2> QED BY <2>8, <2>9
  <1> QED BY <1>1, <1>2, <1>3, <1>4, <1>5

\* The invariant is inductive.
LEMMA AccountedStep == Accounted /\ [Next]_vars => Accounted'
  <1> SUFFICES ASSUME Accounted, [Next]_vars PROVE Accounted'
    OBVIOUS
  <1>1. /\ TypeOK'
        /\ \A q \in Runs : ProcessInOrder(q)'
        /\ \/ Quiet
           \/ \E r \in Runs : \E new, told : Replaces(r, new, told)
    BY NextKinds
  <1>2. CASE Quiet
    BY <1>1, <1>2, QuietAccounts DEF Accounted
  <1>3. ASSUME NEW r \in Runs, NEW new, NEW told, Replaces(r, new, told)
        PROVE  Accounted'
    BY <1>1, <1>3, ReplacesAccounts DEF Accounted
  <1> QED BY <1>1, <1>2, <1>3

LEMMA AccountedAlways == Spec => []Accounted
  BY AccountedInit, AccountedStep, PTL DEF Spec

-----------------------------------------------------------------------------
(***************************************************************************)
(* The theorems                                                            *)
(***************************************************************************)

\* Tables and processes hold values of their types, whatever happens.
THEOREM TypesHold == Spec => []TypeOK
  BY AccountedAlways, PTL DEF Accounted

\* However many runs overlap, die or fail, a reader of workflow_current sees
\* exactly one run's complete measurement.
THEOREM ReadersSeeOneMeasurement == Spec => []CurrentIsOneMeasurement
  BY AccountedAlways, PTL DEF Accounted

\* A run's counts are those of the rows it left in history and events.
THEOREM CountsAreRows == Spec => []RunsAccountForRows
  BY AccountedAlways, PTL DEF Accounted

\* History keeps one snapshot of a document for a time, and only those of
\* runs that succeeded.
THEOREM HistoryIsUnique == Spec => []HistoryIsKeyed
  BY AccountedAlways, PTL DEF Accounted

\* A commit that puts an older row in the place of a newer one is that of a
\* run whose look-up of this row is stale.
THEOREM OnlyStaleLookUpsGoBack == Spec => NeverAnOlderRow
  <1> DEFINE OlderOnlyIfStale ==
        \A d \in Present(current) :
           (current'[d] # None /\ current'[d].seen < current[d].seen) =>
              \E r \in Runs : /\ CommitRows(r)
                              /\ worker[r].first = d
                              /\ worker[r].row # current[d]
  <1>1. Accounted /\ [Next]_vars => [OlderOnlyIfStale]_vars
    <2> SUFFICES ASSUME Accounted, Next, NEW d \in Present(current),
                        current'[d] # None,
                        current'[d].seen < current[d].seen
                 PROVE  \E r \in Runs : /\ CommitRows(r)
                                        /\ worker[r].first = d
                                        /\ worker[r].row # current[d]
      BY DEF OlderOnlyIfStale
    <2>1. d \in Docs /\ current[d] # None /\ current[d].seen \in Nat
      BY DEF Accounted, TypeOK, Present, Row
    <2>2. current' # current
      <3> SUFFICES ASSUME current' = current PROVE FALSE
        OBVIOUS
      <3> QED BY <2>1
    <2>3. ASSUME NEW r \in Runs, Step(r),
                 ~CommitEmpty(r), ~CommitRows(r)
          PROVE  current' = current
      BY <2>3 DEF Step, TakeTime, StartRun, ReadList, ReadPrevious, Guard,
                  ReadFirst, FailRun, Kill, storeVars
    <2>4. PICK r \in Runs : CommitEmpty(r) \/ CommitRows(r)
      BY <2>2, <2>3 DEF Next, Tick, storeVars
    <2> DEFINE w == worker[r]
    <2>5. current' = Replaced(r, w.m, w.observed, current)
      BY <2>4 DEF CommitEmpty, CommitRows, Write
    <2>6. w.m[d] # None /\ current'[d].seen = w.observed
      BY <2>1, <2>5, ReplacedRows
    <2>7. w.observed \in Nat
      BY DEF Accounted, TypeOK, Worker
    <2>8. CommitRows(r)
      BY <2>1, <2>4, <2>6 DEF CommitEmpty, Present
    <2>9. w.first = d
      <3> SUFFICES ASSUME w.first # d PROVE FALSE
        OBVIOUS
      <3>1. Acceptable(d, w)
        BY <2>1, <2>6, <2>8 DEF CommitRows, Present
      <3> QED BY <2>1, <2>6, <2>7, <3>1 DEF Acceptable
    <2>10. w.row # current[d]
      <3>1. w.row # None => w.row.seen <= w.observed
        BY <2>8 DEF Accounted, ProcessInOrder, CommitRows, At
      <3> QED BY <2>1, <2>6, <2>7, <3>1
    <2> QED BY <2>8, <2>9, <2>10
  <1> QED BY <1>1, AccountedAlways, PTL DEF Spec, NeverAnOlderRow

-----------------------------------------------------------------------------
(***************************************************************************)
(* Runs one at a time                                                      *)
(***************************************************************************)

\* What process r remembers is still true of the tables: nobody else is
\* under way, its measurement is a listing merged with the rows there are,
\* none of them is newer, and what it looked up before the transaction is
\* what the transaction would find.
InSeries(r) ==
    LET w == worker[r] IN
    /\ w.observed \in 0..MaxClock
    /\ UnderWay(r) => \A q \in Runs : UnderWay(q) => q = r
    /\ w.at = "listed" => w.m \in Listings
    /\ w.at \in {"merged", "guarded", "first_read"} =>
          \E listing \in Listings : w.m = Merge(listing, current)
    /\ w.at \in {"guarded", "first_read"} =>
          \A d \in Present(current) : current[d].seen <= w.observed
    /\ w.at = "first_read" =>
          /\ w.first \in Docs /\ w.row = current[w.first]
          /\ w.known <=> KnownAt(w.first, w.observed) # {}

\* If every measurement had a document, then so has what is shown, and it is
\* the newest there is.
NewestIsShown ==
    (\A r \in Runs : Succeeded(r) => runs[r].snapshots > 0) =>
        \A r \in Runs : Succeeded(r) =>
            /\ Present(current) # {}
            /\ \A d \in Present(current) : runs[r].observed <= current[d].seen

Serial ==
    /\ Accounted
    /\ \A r \in Runs : InSeries(r)
    /\ NewestIsShown
    /\ EventsTellStatus

LEMMA ClockIsTime == Accounted => clock \in 0..MaxClock /\ MaxClock \in Nat
  BY SyncAssumption DEF Accounted, TypeOK

\* A process that is not under way remembers nothing that could go stale; for
\* one that is, the step of another changes nothing it remembers.
LEMMA OthersInSeries ==
    ASSUME NEW q \in Runs, InSeries(q), worker'[q] = worker[q],
           \/ ~UnderWay(q)
           \/ /\ UNCHANGED <<current, history>>
              /\ \A p \in Runs : UnderWay(p)' => UnderWay(p)
    PROVE  InSeries(q)'
  <1>1. CASE ~UnderWay(q)
    BY <1>1 DEF InSeries, UnderWay
  <1>2. CASE UnderWay(q)
    <2>1. /\ current' = current /\ history' = history
          /\ \A p \in Runs : UnderWay(p)' => UnderWay(p)
      BY <1>2
    <2>2. UnderWay(q)' => \A p \in Runs : UnderWay(p)' => p = q
      BY <1>2, <2>1 DEF InSeries
    <2> QED BY <2>1, <2>2 DEF InSeries, KnownAt
  <1> QED BY <1>1, <1>2

\* What a step of r does to process r and to the others.
LEMMA StepMoves ==
    ASSUME Accounted, NEW r \in Runs, Step(r), ~Overlap
    PROVE  /\ \A q \in Runs : q # r => worker'[q] = worker[q]
           /\ UnderWay(r)' => UnderWay(r) \/ \A q \in Runs : ~UnderWay(q)
           /\ UnderWay(r) \/ UNCHANGED <<current, history>>
  <1>1. worker \in [Runs -> Worker] /\ worker[r] \in Worker
    BY DEF Accounted, TypeOK
  <1> USE DEF Becomes, At, storeVars
  <1>2. CASE TakeTime(r)
    BY <1>1, <1>2 DEF TakeTime, UnderWay, Worker
  <1>3. CASE StartRun(r)
    BY <1>1, <1>3 DEF StartRun
  <1>4. CASE ReadList(r) \/ ReadPrevious(r)
    BY <1>1, <1>4 DEF ReadList, ReadPrevious, UnderWay
  <1>5. CASE Guard(r) \/ ReadFirst(r)
    BY <1>1, <1>5 DEF Guard, ReadFirst, UnderWay
  <1>6. CASE CommitEmpty(r) \/ CommitRows(r)
    BY <1>1, <1>6 DEF CommitEmpty, CommitRows, Write, UnderWay
  <1>7. CASE FailRun(r)
    BY <1>1, <1>7 DEF FailRun
  <1>8. CASE Kill(r)
    BY <1>1, <1>8 DEF Kill, UnderWay, Gone
  <1> QED BY <1>2, <1>3, <1>4, <1>5, <1>6, <1>7, <1>8 DEF Step

\* What r remembers after its own step.
LEMMA OwnStepInSeries ==
    ASSUME Accounted, NEW r \in Runs, InSeries(r), Step(r),
           UnderWay(r)' => \A q \in Runs : UnderWay(q)' => q = r
    PROVE  InSeries(r)'
  <1> DEFINE w == worker[r]
  <1>1. /\ worker \in [Runs -> Worker] /\ w \in Worker
        /\ clock \in 0..MaxClock /\ MaxClock \in Nat /\ 0 \in 0..MaxClock
    BY ClockIsTime DEF Accounted, TypeOK
  <1>2. w.observed \in 0..MaxClock
    BY DEF InSeries
  <1> USE DEF Becomes, At, storeVars
  <1>3. CASE worker'[r].at \notin {"listed", "merged", "guarded", "first_read"}
             /\ worker'[r].observed \in 0..MaxClock
    BY <1>3 DEF InSeries
  <1>4. CASE TakeTime(r)
    <2>1. worker'[r].at = "measuring" /\ worker'[r].observed = clock
      BY <1>1, <1>4 DEF TakeTime, Worker
    <2> QED BY <1>1, <1>3, <2>1
  <1>5. CASE StartRun(r)
    <2>1. worker'[r].at = "started" /\ worker'[r].observed = w.observed
      BY <1>1, <1>5 DEF StartRun, Worker
    <2> QED BY <1>2, <1>3, <2>1
  <1>6. CASE ReadList(r)
    <2>1. PICK listing \in Listings :
             worker' = [worker EXCEPT ![r] = [w EXCEPT !.at = "listed", !.m = listing]]
      BY <1>6 DEF ReadList
    <2>2. /\ worker'[r].at = "listed" /\ worker'[r].m = listing
          /\ worker'[r].observed = w.observed
      BY <1>1, <2>1 DEF Worker
    <2> QED BY <1>2, <2>2 DEF InSeries
  <1>7. CASE ReadPrevious(r)
    <2>1. /\ worker'[r].at = "merged" /\ worker'[r].m = Merge(w.m, current)
          /\ worker'[r].observed = w.observed
      BY <1>1, <1>7 DEF ReadPrevious, Worker
    <2>2. w.m \in Listings /\ current' = current
      BY <1>7 DEF ReadPrevious, InSeries
    <2>3. \E listing \in Listings : worker'[r].m = Merge(listing, current')
      BY <2>1, <2>2
    <2> QED BY <1>2, <2>1, <2>3 DEF InSeries
  <1>8. CASE Guard(r)
    <2>1. /\ worker'[r].at = "guarded" /\ worker'[r].m = w.m
          /\ worker'[r].observed = w.observed
      BY <1>1, <1>8 DEF Guard, Worker
    <2>2. /\ current' = current
          /\ \E listing \in Listings : w.m = Merge(listing, current)
          /\ \A d \in Present(current) : current[d].seen <= w.observed
      BY <1>8 DEF Guard, InSeries
    <2> QED BY <1>2, <2>1, <2>2 DEF InSeries
  <1>9. CASE ReadFirst(r)
    <2>1. PICK d \in Present(w.m) :
             worker' = [worker EXCEPT ![r] =
                [w EXCEPT !.at = "first_read", !.first = d, !.row = current[d],
                          !.known = KnownAt(d, w.observed) # {}]]
      BY <1>9 DEF ReadFirst
    <2>2. /\ worker'[r].at = "first_read" /\ worker'[r].m = w.m
          /\ worker'[r].observed = w.observed /\ worker'[r].first = d
          /\ worker'[r].row = current[d]
          /\ worker'[r].known = (KnownAt(d, w.observed) # {})
      BY <1>1, <2>1 DEF Worker
    <2>3. worker'[r].known <=> KnownAt(d, w.observed) # {}
      BY <2>2
    <2>4. /\ current' = current /\ history' = history
          /\ \E listing \in Listings : w.m = Merge(listing, current)
          /\ \A e \in Present(current) : current[e].seen <= w.observed
      BY <1>9 DEF ReadFirst, InSeries
    <2>5. d \in Docs
      BY DEF Present
    <2> QED BY <1>2, <2>2, <2>3, <2>4, <2>5 DEF InSeries, KnownAt
  <1>10. CASE CommitEmpty(r) \/ CommitRows(r) \/ FailRun(r) \/ Kill(r)
    <2>1. worker'[r] = Gone("ended") \/ worker'[r] = Gone("killed")
      BY <1>1, <1>10 DEF CommitEmpty, CommitRows, Write, FailRun, Kill
    <2>2. worker'[r].at \in {"ended", "killed"} /\ worker'[r].observed = 0
      BY <2>1 DEF Gone
    <2> QED BY <1>1, <1>3, <2>2
  <1> QED BY <1>4, <1>5, <1>6, <1>7, <1>8, <1>9, <1>10 DEF Step

LEMMA NextInSeries ==
    ASSUME Accounted, ~Overlap, \A r \in Runs : InSeries(r), [Next]_vars
    PROVE  \A r \in Runs : InSeries(r)'
  <1>1. CASE UNCHANGED vars \/ Tick
    BY <1>1, OthersInSeries DEF vars, storeVars, Tick, UnderWay
  <1>2. ASSUME NEW r \in Runs, Step(r)
        PROVE  \A q \in Runs : InSeries(q)'
    <2>1. /\ \A q \in Runs : q # r => worker'[q] = worker[q]
          /\ UnderWay(r)' => UnderWay(r) \/ \A q \in Runs : ~UnderWay(q)
          /\ UnderWay(r) \/ UNCHANGED <<current, history>>
      BY <1>2, StepMoves
    <2>2. \A q \in Runs : q # r => (UnderWay(q)' <=> UnderWay(q))
      BY <2>1 DEF UnderWay
    <2>3. UnderWay(r)' => \A q \in Runs : UnderWay(q)' => q = r
      BY <2>1, <2>2 DEF InSeries
    <2>4. InSeries(r)'
      BY <1>2, <2>3, OwnStepInSeries
    <2>5. ASSUME NEW q \in Runs, q # r
          PROVE  InSeries(q)'
      <3>1. UnderWay(q) => ~UnderWay(r)
        BY <2>5 DEF InSeries
      <3>2. UnderWay(q) => ~UnderWay(r)'
        BY <2>1, <3>1
      <3> QED BY <2>1, <2>2, <2>5, <3>1, <3>2, OthersInSeries
    <2> QED BY <2>4, <2>5
  <1> QED BY <1>1, <1>2 DEF Next

-----------------------------------------------------------------------------
\* A commit that takes effect on the rows stored when it begins.
CommitsAtOnce(r) ==
    LET w    == worker[r]
        told == EventsOf(r, w.m, current)
        new  == {s \in SnapshotsOf(r, w.m, w.observed) :
                    KnownAt(s.doc, w.observed) = {}}
    IN
    /\ runs[r].status = "running"
    /\ \E listing \in Listings : w.m = Merge(listing, current)
    /\ \A d \in Present(current) : current[d].seen <= w.observed
    /\ current' = Replaced(r, w.m, w.observed, current)
    /\ history' = history \cup new
    /\ log' = Append(log, told)
    /\ runs' = [runs EXCEPT ![r] = Completed(w.observed, w.m, new, told)]

LEMMA CommitIsAtOnce ==
    ASSUME Accounted, NEW r \in Runs, InSeries(r), CommitEmpty(r) \/ CommitRows(r)
    PROVE  CommitsAtOnce(r)
  <1> DEFINE w   == worker[r]
             new == {s \in SnapshotsOf(r, w.m, w.observed) :
                        KnownAt(s.doc, w.observed) = {}}
  <1>1. /\ w.at \in {"guarded", "first_read"} /\ UnderWay(r)
    BY DEF CommitEmpty, CommitRows, At, UnderWay
  <1>2. /\ runs[r].status = "running"
        /\ \E listing \in Listings : w.m = Merge(listing, current)
        /\ \A d \in Present(current) : current[d].seen <= w.observed
    BY <1>1 DEF Accounted, ProcessInOrder, InSeries
  <1>3. Write(r, current, new)
    <2>1. CASE CommitEmpty(r)
      <3>1. new = {}
        BY <2>1 DEF CommitEmpty, SnapshotsOf
      <3> QED BY <2>1, <3>1 DEF CommitEmpty
    <2>2. CASE CommitRows(r)
      <3>1. /\ w.row = current[w.first] /\ w.first \in Docs
            /\ w.known <=> KnownAt(w.first, w.observed) # {}
        BY <2>2 DEF CommitRows, At, InSeries
      <3>2. [current EXCEPT ![w.first] = w.row] = current
        BY <3>1 DEF Accounted, TypeOK
      <3>3. {s \in SnapshotsOf(r, w.m, w.observed) :
                IF s.doc = w.first THEN ~w.known
                ELSE KnownAt(s.doc, w.observed) = {}} = new
        BY <3>1
      <3> QED BY <2>2, <3>2, <3>3 DEF CommitRows
    <2> QED BY <2>1, <2>2
  <1> HIDE DEF new
  <1>4. /\ current' = Replaced(r, w.m, w.observed, current)
        /\ history' = history \cup new
        /\ log' = Append(log, EventsOf(r, w.m, current))
        /\ runs' = [runs EXCEPT ![r] = Completed(w.observed, w.m, new,
                                                 EventsOf(r, w.m, current))]
    BY <1>3 DEF Write
  <1> QED BY <1>2, <1>4 DEF CommitsAtOnce, new

\* A commit changes the row of its own run, and it was not a success before.
LEMMA CommitWrites ==
    ASSUME Accounted, NEW r \in Runs, CommitsAtOnce(r)
    PROVE  LET w == worker[r] IN
           /\ w.m \in Measurement /\ w.observed \in Nat
           /\ Succeeded(r)' /\ ~Succeeded(r)
           /\ runs'[r].observed = w.observed
           /\ runs'[r].snapshots = Cardinality(Present(w.m))
           /\ \A q \in Runs : q # r => runs'[q] = runs[q]
           /\ Present(current') = Present(w.m)
           /\ \A d \in Present(w.m) : /\ current'[d].content = w.m[d]
                                      /\ current'[d].seen = w.observed
  <1> DEFINE w == worker[r]
  <1>1. w \in Worker /\ TypeOK
    BY DEF Accounted, TypeOK
  <1>2. w.m \in Measurement /\ w.observed \in Nat
    BY <1>1 DEF Worker
  <1>3. current' = Replaced(r, w.m, w.observed, current)
    BY DEF CommitsAtOnce
  <1>4. /\ Present(current') = Present(w.m)
        /\ \A d \in Present(w.m) : /\ current'[d].content = w.m[d]
                                   /\ current'[d].seen = w.observed
    BY <1>1, <1>2, <1>3, ReplacedPresent, ReplacedRows DEF TypeOK, Present
  <1>5. /\ Succeeded(r)' /\ ~Succeeded(r)
        /\ runs'[r].observed = w.observed
        /\ runs'[r].snapshots = Cardinality(Present(w.m))
        /\ \A q \in Runs : q # r => runs'[q] = runs[q]
    BY <1>1 DEF CommitsAtOnce, TypeOK, Succeeded, Completed
  <1> QED BY <1>2, <1>4, <1>5

LEMMA QuietNewest ==
    ASSUME Quiet, NewestIsShown
    PROVE  NewestIsShown'
  <1>1. \A r \in Runs : /\ Succeeded(r)' <=> Succeeded(r)
                        /\ Succeeded(r) => runs'[r] = runs[r]
    BY RunStatusType DEF Quiet, Succeeded
  <1>2. current' = current
    BY DEF Quiet
  <1> QED BY <1>1, <1>2 DEF NewestIsShown, Present

\* Some earlier measurement is still shown, and the guard of the commit has
\* compared the new one with it.
LEMMA CommitNewest ==
    ASSUME Accounted, NewestIsShown, NEW r \in Runs, CommitsAtOnce(r)
    PROVE  NewestIsShown'
  <1> DEFINE w == worker[r]
  <1>1. /\ w.observed \in Nat
        /\ Succeeded(r)' /\ ~Succeeded(r)
        /\ runs'[r].observed = w.observed
        /\ runs'[r].snapshots = Cardinality(Present(w.m))
        /\ \A q \in Runs : q # r => runs'[q] = runs[q]
        /\ Present(current') = Present(w.m)
        /\ \A d \in Present(w.m) : current'[d].seen = w.observed
    BY CommitWrites
  <1> SUFFICES ASSUME \A p \in Runs : Succeeded(p)' => runs'[p].snapshots > 0,
                      NEW q \in Runs, Succeeded(q)'
               PROVE  /\ Present(current') # {}
                      /\ \A d \in Present(current') :
                            runs'[q].observed <= current'[d].seen
    BY DEF NewestIsShown, Present
  <1>2. Present(w.m) # {}
    BY <1>1, FS_EmptySet
  <1>3. CASE q = r
    BY <1>1, <1>2, <1>3
  <1>4. CASE q # r
    <2>1. /\ Succeeded(q) /\ runs'[q] = runs[q]
          /\ \A p \in Runs : Succeeded(p) => runs[p].snapshots > 0
      BY <1>1, <1>4 DEF Succeeded
    <2>2. PICK d \in Present(current) : runs[q].observed <= current[d].seen
      BY <2>1 DEF NewestIsShown
    <2>3. current[d].seen <= w.observed
      BY DEF CommitsAtOnce
    <2>4. current[d].seen \in Nat /\ runs[q].observed \in Nat
      BY DEF Accounted, TypeOK, Present, Row, RunRow
    <2>5. runs'[q].observed <= w.observed
      BY <1>1, <2>1, <2>2, <2>3, <2>4
    <2> QED BY <1>1, <1>2, <2>5
  <1> QED BY <1>3, <1>4

\* The events of a run about a document are its changes.
LEMMA EventsAbout ==
    ASSUME NEW r, NEW m, NEW rows, NEW d \in Present(m)
    PROVE  /\ \A k \in Changes(rows[d], m[d]) :
                 \E e \in EventsOf(r, m, rows) :
                    e.doc = d /\ e.kind = k /\ e.status = m[d].status
           /\ \A e \in EventsOf(r, m, rows) :
                 e.doc = d => e.kind \in Changes(rows[d], m[d])
  <1>1. ASSUME NEW k \in Changes(rows[d], m[d])
        PROVE  \E e \in EventsOf(r, m, rows) :
                  e.doc = d /\ e.kind = k /\ e.status = m[d].status
    <2> DEFINE e == [run |-> r, doc |-> d, kind |-> k, status |-> m[d].status]
    <2>1. e \in EventsOf(r, m, rows)
      BY DEF EventsOf
    <2> QED BY <2>1
  <1>2. ASSUME NEW e \in EventsOf(r, m, rows), e.doc = d
        PROVE  e.kind \in Changes(rows[d], m[d])
    <2>1. PICK x \in Present(m) :
             e \in {[run |-> r, doc |-> x, kind |-> k, status |-> m[x].status] :
                      k \in Changes(rows[x], m[x])}
      BY DEF EventsOf
    <2>2. PICK k \in Changes(rows[x], m[x]) :
             e = [run |-> r, doc |-> x, kind |-> k, status |-> m[x].status]
      BY <2>1
    <2> QED BY <1>2, <2>2
  <1> QED BY <1>1, <1>2

\* A document all of whose changes are of its approver had a row before, of
\* the same status.
LEMMA OnlyApproverChanged ==
    ASSUME NEW row, NEW c, \A k \in Changes(row, c) : k = "assignee_changed"
    PROVE  row # None /\ row.content.status = c.status
  BY DEF Changes, Active

LEMMA CommitTells ==
    ASSUME Accounted, EventsTellStatus, NEW r \in Runs, CommitsAtOnce(r)
    PROVE  EventsTellStatus'
  <1> DEFINE w    == worker[r]
             told == EventsOf(r, w.m, current)
             n    == Len(log)
  <1>1. /\ Present(current') = Present(w.m)
        /\ \A d \in Present(w.m) : current'[d].content = w.m[d]
    BY CommitWrites
  <1>2. log' = Append(log, told)
    BY DEF CommitsAtOnce
  <1>3. /\ n \in Nat /\ Len(log') = n + 1 /\ log'[n + 1] = told
        /\ \A i \in 1..n : log'[i] = log[i]
    <2> HIDE DEF told
    <2>1. log \in Seq(SUBSET Event)
      BY DEF Accounted, TypeOK
    <2> QED BY <1>2, <2>1
  <1> HIDE DEF n
  <1> SUFFICES ASSUME NEW d \in Present(w.m)
               PROVE  \E i \in 1..(n + 1) :
                         /\ \E e \in log'[i] :
                               /\ e.doc = d /\ e.kind # "assignee_changed"
                               /\ e.status = w.m[d].status
                         /\ \A j \in (i + 1)..(n + 1) : \A e \in log'[j] :
                               e.doc = d => e.kind = "assignee_changed"
    BY <1>1, <1>3 DEF EventsTellStatus, Present
  <1>4. /\ \A k \in Changes(current[d], w.m[d]) :
              \E e \in told : e.doc = d /\ e.kind = k /\ e.status = w.m[d].status
        /\ \A e \in told : e.doc = d => e.kind \in Changes(current[d], w.m[d])
    BY EventsAbout
  <1> HIDE DEF told
  <1>5. CASE \E k \in Changes(current[d], w.m[d]) : k # "assignee_changed"
    <2>1. \E e \in log'[n + 1] : /\ e.doc = d /\ e.kind # "assignee_changed"
                                 /\ e.status = w.m[d].status
      BY <1>3, <1>4, <1>5
    <2>2. ((n + 1) + 1)..(n + 1) = {} /\ n + 1 \in 1..(n + 1)
      BY <1>3
    <2> QED BY <2>1, <2>2
  <1>6. CASE \A k \in Changes(current[d], w.m[d]) : k = "assignee_changed"
    <2>1. current[d] # None /\ current[d].content.status = w.m[d].status
      BY <1>6, OnlyApproverChanged
    <2>2. d \in Present(current)
      BY <2>1 DEF Present
    <2>3. PICK i \in 1..n :
             /\ \E e \in log[i] : /\ e.doc = d /\ e.kind # "assignee_changed"
                                  /\ e.status = w.m[d].status
             /\ \A j \in (i + 1)..n : \A e \in log[j] :
                   e.doc = d => e.kind = "assignee_changed"
      BY <2>1, <2>2 DEF EventsTellStatus, n
    <2>4. \A e \in log'[n + 1] : e.doc = d => e.kind = "assignee_changed"
      BY <1>3, <1>4, <1>6
    <2>5. ASSUME NEW j \in (i + 1)..(n + 1), NEW e \in log'[j], e.doc = d
          PROVE  e.kind = "assignee_changed"
      <3>1. CASE j = n + 1
        BY <2>4, <2>5, <3>1
      <3>2. CASE j # n + 1
        <4>1. j \in (i + 1)..n /\ j \in 1..n
          BY <1>3, <3>2
        <4> QED BY <1>3, <2>3, <2>5, <4>1
      <3> QED BY <3>1, <3>2
    <2>6. i \in 1..(n + 1) /\ log'[i] = log[i]
      BY <1>3
    <2> QED BY <2>3, <2>5, <2>6
  <1> QED BY <1>5, <1>6

\* Every step leaves the tables alone, or begins or fails a run, or commits
\* at once.
LEMMA StepKinds ==
    ASSUME Accounted, \A r \in Runs : InSeries(r), Next
    PROVE  \/ UNCHANGED storeVars
           \/ \E r \in Runs : StartRun(r) \/ FailRun(r)
           \/ \E r \in Runs : CommitsAtOnce(r) /\ (CommitEmpty(r) \/ CommitRows(r))
  <1>1. CASE Tick
    BY <1>1 DEF Tick
  <1>2. ASSUME NEW r \in Runs, Step(r), ~StartRun(r), ~FailRun(r),
               ~CommitEmpty(r), ~CommitRows(r)
        PROVE  UNCHANGED storeVars
    BY <1>2 DEF Step, TakeTime, ReadList, ReadPrevious, Guard, ReadFirst, Kill
  <1> QED BY <1>1, <1>2, CommitIsAtOnce DEF Next

LEMMA SerialStep ==
    ASSUME ~Overlap
    PROVE  Serial /\ [Next]_vars => Serial'
  <1> SUFFICES ASSUME Serial, [Next]_vars PROVE Serial'
    OBVIOUS
  <1>1. /\ Accounted /\ \A r \in Runs : InSeries(r)
        /\ NewestIsShown /\ EventsTellStatus
    BY DEF Serial
  <1>2. Accounted' /\ \A r \in Runs : InSeries(r)'
    BY <1>1, AccountedStep, NextInSeries
  <1>3. CASE UNCHANGED storeVars \/ \E r \in Runs : StartRun(r) \/ FailRun(r)
    <2>1. Quiet
      <3>1. CASE UNCHANGED storeVars
        BY <3>1 DEF storeVars, Quiet
      <3>2. ASSUME NEW r \in Runs, StartRun(r) \/ FailRun(r) PROVE Quiet
        <4>1. ~Succeeded(r)
          BY <1>1, <3>2 DEF StartRun, FailRun, At, Accounted, ProcessInOrder, Succeeded
        <4> QED BY <1>1, <3>2, <4>1 DEF StartRun, FailRun, Quiet, Accounted, TypeOK
      <3> QED BY <1>3, <3>1, <3>2
    <2>2. EventsTellStatus'
      BY <1>1, <2>1 DEF Quiet, EventsTellStatus, Present
    <2> QED BY <1>1, <1>2, <2>1, <2>2, QuietNewest DEF Serial
  <1>4. ASSUME NEW r \in Runs, CommitsAtOnce(r) PROVE Serial'
    BY <1>1, <1>2, <1>4, CommitNewest, CommitTells DEF Serial
  <1>5. CASE UNCHANGED vars
    BY <1>3, <1>5 DEF vars
  <1> QED BY <1>1, <1>3, <1>4, <1>5, StepKinds

LEMMA SerialInit == Init => Serial
  <1> SUFFICES ASSUME Init PROVE Serial
    OBVIOUS
  <1>1. Accounted
    BY AccountedInit
  <1>2. \A r \in Runs : worker[r] = Gone("waiting") /\ runs[r] = RunStatus("none")
    BY DEF Init
  <1>3. \A r \in Runs : InSeries(r)
    <2>1. 0 \in 0..MaxClock
      BY SyncAssumption
    <2> QED BY <1>2, <2>1 DEF InSeries, Gone, UnderWay
  <1>4. NewestIsShown
    BY <1>2, RunStatusType DEF NewestIsShown, Succeeded
  <1>5. EventsTellStatus
    BY DEF Init, EventsTellStatus, Present, NoDocs
  <1> QED BY <1>1, <1>3, <1>4, <1>5 DEF Serial

LEMMA SerialAlways ==
    ASSUME ~Overlap
    PROVE  Spec => []Serial
  BY SerialInit, SerialStep, PTL DEF Spec

-----------------------------------------------------------------------------
(***************************************************************************)
(* The refinement of CheckpointStore                                       *)
(***************************************************************************)

\* The vocabulary of the two modules is the same.
LEMMA SameWords ==
    /\ NoDocs = Store!NoDocs
    /\ \A status : RunStatus(status) = Store!RunStatus(status)
    /\ \A m, rows : Merge(m, rows) = Store!Merge(m, rows)
    /\ \A r, m, rows : EventsOf(r, m, rows) = Store!EventsOf(r, m, rows)
    /\ \A r, m, t : SnapshotsOf(r, m, t) = Store!SnapshotsOf(r, m, t)
    /\ \A r, m, t, rows : Replaced(r, m, t, rows) = Store!Replaced(r, m, t, rows)
    /\ \A t, m, new, told :
          Completed(t, m, new, told) = Store!Completed(t, m, new, told)
    /\ \A m : Present(m) = Store!Present(m)
  <1>1. \A m : Present(m) = Store!Present(m)
    BY DEF Present, Store!Present
  <1>2. NoDocs = Store!NoDocs /\ \A status : RunStatus(status) = Store!RunStatus(status)
    BY DEF NoDocs, Store!NoDocs, RunStatus, Store!RunStatus
  <1>3. \A m, rows : Merge(m, rows) = Store!Merge(m, rows)
    BY DEF Merge, Store!Merge
  <1>4. \A row, c : Changes(row, c) = Store!Changes(row, c)
    BY DEF Changes, Store!Changes, Active, Store!Active
  <1>5. \A r, m, rows : EventsOf(r, m, rows) = Store!EventsOf(r, m, rows)
    BY <1>1, <1>4 DEF EventsOf, Store!EventsOf
  <1>6. \A r, m, t : SnapshotsOf(r, m, t) = Store!SnapshotsOf(r, m, t)
    BY <1>1 DEF SnapshotsOf, Store!SnapshotsOf
  <1>7. \A r, m, t, rows : Replaced(r, m, t, rows) = Store!Replaced(r, m, t, rows)
    BY DEF Replaced, Store!Replaced
  <1>8. \A S : Cardinality(S) = Store!Cardinality(S)
    BY DEF Cardinality, Store!Cardinality
  <1>9. \A t, m, new, told :
            Completed(t, m, new, told) = Store!Completed(t, m, new, told)
    <2> SUFFICES ASSUME NEW t, NEW m, NEW new, NEW told
                 PROVE  Completed(t, m, new, told) = Store!Completed(t, m, new, told)
      OBVIOUS
    <2>1. Present(m) = Store!Present(m)
      BY <1>1
    <2>2. Cardinality(Present(m)) = Cardinality(Store!Present(m))
      BY <2>1
    <2> QED BY <1>8, <2>2 DEF Completed, Store!Completed
  <1> QED BY <1>1, <1>2, <1>3, <1>5, <1>6, <1>7, <1>9

LEMMA CommitIsCheckpoint ==
    ASSUME Accounted, NEW r \in Runs, InSeries(r), CommitsAtOnce(r)
    PROVE  \E listing \in Listings, t \in 0..MaxClock :
              Store!Checkpoint(r, listing, t)
  <1> DEFINE t == worker[r].observed
  <1>1. PICK listing \in Listings : worker[r].m = Merge(listing, current)
    BY DEF CommitsAtOnce
  <1>2. t \in 0..MaxClock
    BY DEF InSeries
  <1> DEFINE m    == Merge(listing, current)
             told == EventsOf(r, m, current)
             new  == {s \in SnapshotsOf(r, m, t) :
                         \A old \in history :
                            <<old.doc, old.observed>> # <<s.doc, t>>}
  <1>3. {s \in SnapshotsOf(r, m, t) : KnownAt(s.doc, t) = {}} = new
    BY DEF KnownAt
  <1> HIDE DEF t
  <1>4. /\ runs[r].status = "running"
        /\ \A d \in Present(current) : current[d].seen <= t
        /\ current' = Replaced(r, m, t, current)
        /\ history' = history \cup new
        /\ log' = Append(log, told)
        /\ runs' = [runs EXCEPT ![r] = Completed(t, m, new, told)]
    BY <1>1, <1>3 DEF CommitsAtOnce, t
  <1>5. Store!Checkpoint(r, listing, t)
    BY <1>4, SameWords DEF Store!Checkpoint
  <1> QED BY <1>2, <1>5

LEMMA StoreInit == Init => Store!Init
  BY SameWords DEF Init, Store!Init

LEMMA StoreStep == Serial /\ [Next]_vars => [Store!Next]_(Store!storeVars)
  <1> SUFFICES ASSUME Serial, Next
               PROVE  Store!Next \/ UNCHANGED storeVars
    BY DEF vars, storeVars, Store!storeVars
  <1>1. Accounted /\ \A r \in Runs : InSeries(r)
    BY DEF Serial
  <1>2. ASSUME NEW r \in Runs, StartRun(r) PROVE Store!Next
    <2>1. runs[r].status = "none"
      BY <1>1, <1>2 DEF StartRun, At, Accounted, ProcessInOrder
    <2>2. Store!Begin(r)
      BY <1>2, <2>1, SameWords DEF StartRun, Store!Begin
    <2> QED BY <2>2 DEF Store!Next
  <1>3. ASSUME NEW r \in Runs, FailRun(r) PROVE Store!Next
    <2>1. Store!Fail(r)
      BY <1>3, SameWords DEF FailRun, Store!Fail
    <2> QED BY <2>1 DEF Store!Next
  <1>4. ASSUME NEW r \in Runs, CommitsAtOnce(r) PROVE Store!Next
    BY <1>1, <1>4, CommitIsCheckpoint DEF Store!Next
  <1> QED BY <1>1, <1>2, <1>3, <1>4, StepKinds

-----------------------------------------------------------------------------
(***************************************************************************)
(* The theorems about runs one at a time                                   *)
(***************************************************************************)

\* No measurement of complete_run is shown once a later one has been
\* checkpointed, as long as none was of an empty stream: the guard compares
\* a run with the rows of the newest one before it.
THEOREM NewestStays ==
    ASSUME ~Overlap
    PROVE  Spec => []NewestShownUnlessEmpty
  <1>1. Serial => NewestShownUnlessEmpty
    BY DEF Serial, NewestIsShown, NewestShownUnlessEmpty, NewestShown
  <1> QED BY <1>1, SerialAlways, PTL

\* The last event of a document that is not about its approver carries the
\* status that is shown: the events of complete_run leave no change out.
THEOREM EventsAreComplete ==
    ASSUME ~Overlap
    PROVE  Spec => []EventsTellStatus
  <1>1. Serial => EventsTellStatus
    BY DEF Serial
  <1> QED BY <1>1, SerialAlways, PTL

\* What relates a document to the account is carried over by the merge as
\* long as the document stays listed.
THEOREM RelatedIsKept ==
    ASSUME ~Overlap
    PROVE  Spec => RelatedStays
  <1>1. ASSUME Serial, Next, NEW d \in Present(current),
               current[d].content.related, current'[d] # None
        PROVE  current'[d].content.related
    <2>1. CASE current' = current
      BY <1>1, <2>1
    <2>2. ASSUME NEW r \in Runs, CommitsAtOnce(r)
          PROVE  current'[d].content.related
      <3> DEFINE w == worker[r]
      <3>1. PICK listing \in Listings : w.m = Merge(listing, current)
        BY <2>2 DEF CommitsAtOnce
      <3>2. current' = Replaced(r, w.m, w.observed, current)
        BY <2>2 DEF CommitsAtOnce
      <3>3. d \in Docs /\ w.m[d] # None /\ current'[d].content = w.m[d]
        BY <1>1, <3>2, ReplacedRows DEF Present
      <3>4. listing[d] # None /\ w.m[d] = [listing[d] EXCEPT !.related = TRUE]
        BY <1>1, <3>1, <3>3 DEF Merge, Present
      <3>5. listing[d] \in Content
        BY <3>3, <3>4, SyncAssumption DEF Measurement
      <3> QED BY <3>3, <3>4, <3>5 DEF Content
    <2> QED BY <1>1, <2>1, <2>2, StepKinds DEF Serial, storeVars, StartRun, FailRun
  <1>2. Serial /\ [Next]_vars =>
           [\A d \in Present(current) :
               current[d].content.related /\ current'[d] # None
                  => current'[d].content.related]_vars
    BY <1>1
  <1> QED BY <1>2, SerialAlways, PTL DEF Spec, RelatedStays

\* Runs that do not overlap implement the abstract store: every step is a
\* begin, a failure or a checkpoint at one instant, or leaves it alone.
THEOREM SerialRunsImplementStore ==
    ASSUME ~Overlap
    PROVE  Spec => ImplementsStore
  BY StoreInit, StoreStep, SerialAlways, PTL DEF Spec, ImplementsStore, Store!Spec
=============================================================================
