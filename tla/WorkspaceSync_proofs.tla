----------------------- MODULE WorkspaceSync_proofs -----------------------
(***************************************************************************)
(* Proofs about WorkspaceSync for any jobs, streams, modules, documents    *)
(* and listings.                                                           *)
(*                                                                         *)
(* The invariant has three parts.  The books of a job (Books) relate what  *)
(* it still has to do, what it has answered and its own run rows; what a   *)
(* run carries (Carries) relates a measurement under way to the rows and   *)
(* the history it was compared with; and the tables (Tables) are the       *)
(* properties of what is stored.                                           *)
(***************************************************************************)
EXTENDS WorkspaceSync, FiniteSetTheorems, TLAPS

\* The phases before the first read-only module, and from it on.
Early == {"login", "refused", "recording", "procuring", "measuring"}
Late == {"reading", "started", "listed", "guarded", "compared", "first_read"}

Todo(j) == Range(job[j].todo)
Status(j, s) == runs[j][s].status

\* What a job has still to do is in order, and is not begun or at least not
\* done.
Agenda(j) ==
    /\ IsInjective(job[j].todo)
    /\ job[j].pc \in Early => job[j].todo \in Seq(Range(Streams))
    /\ job[j].pc \in Late => job[j].todo \in Seq(Modules)
    /\ job[j].pc \in Within => job[j].todo # <<>>
    /\ \A s \in Todo(j) :
          job[j].summary[s] = "none" /\ Status(j, s) # "succeeded"
    /\ job[j].pc = "idle" =>
          job[j] = NoJob /\ \A s \in AllStreams : Status(j, s) = "none"

\* Before the read-only batch nothing is known of its modules.
ModulesWait(j) ==
    job[j].pc \in Early =>
        \A m \in Modules : Status(j, m) = "none" /\ job[j].summary[m] = "none"

\* What a job has answered is what its run rows say, and what of its plan it
\* has not answered it has still to do.
Answers(j) ==
    /\ \A s \in AllStreams :
          job[j].summary[s] = "succeeded" <=> Status(j, s) = "succeeded"
    /\ job[j].plan \subseteq AllStreams
    /\ job[j].pc \in Early \cup Late =>
          /\ job[j].exit = "none"
          /\ \A s \in job[j].plan :
                job[j].summary[s] = "none" =>
                    s \in Todo(j)
                        \/ (job[j].pc \in Early /\ j \in Tools /\ s \in Modules)
    /\ job[j].exit \in {"lost", "unread"} =>
          \A m \in Modules : Status(j, m) = "none"
    /\ job[j].exit \in {"ok", "error"} =>
          \A s \in job[j].plan : job[j].summary[s] # "none"
    /\ job[j].exit = "unread" =>
          \A s \in job[j].plan \ Modules : job[j].summary[s] # "none"
    /\ job[j].exit = "ok" =>
          \A s \in job[j].plan : job[j].summary[s] = "succeeded"

\* A run that is not over is the one under way, or one whose failure could
\* not be recorded.
RunsAreOver(j) ==
    job[j].pc # "killed" =>
        \A s \in AllStreams : Status(j, s) = "running" =>
            \/ job[j].summary[s] = "failed"
            \/ job[j].pc \in Within /\ s = Stream(j)

Books(j) == Agenda(j) /\ ModulesWait(j) /\ Answers(j) /\ RunsAreOver(j)

\* What a run of a module carries from one read to the next.
Carries(j) ==
    LET w == job[j] IN
    /\ w.pc \in {"listed", "guarded", "compared", "first_read"}
          /\ Stream(j) \in ByIdentity =>
                \A d \in Present(w.m) : w.m[d].scope # {}
    /\ w.pc \in {"guarded", "compared", "first_read"} =>
          \A d \in Present(w.before) : w.before[d].seen <= w.observed
    /\ w.pc = "first_read" =>
          /\ w.first \in Present(w.m)
          /\ w.known => \E s \in KnownAt(Stream(j), w.first, w.observed) :
                            s.payload = w.m[w.first]

\* A run that has not succeeded has left nothing.
NothingBefore ==
    \A r \in RunIds : RunOf(r).status # "succeeded" =>
        RunOf(r).inserted = 0 /\ \A s \in history : s.run # r

Tables ==
    /\ ModuleIsOneMeasurement /\ RunsAccountForHistory /\ OnlyPersonalRows
    /\ NothingBefore

IInv ==
    /\ TypeOK /\ Tables
    /\ \A j \in Jobs : Books(j) /\ Carries(j)

-----------------------------------------------------------------------------

\* What is left of a sequence without repetitions after its first element.
LEMMA TailKeeps ==
    ASSUME NEW S, NEW q \in Seq(S), IsInjective(q), q # <<>>
    PROVE  /\ Head(q) \in Range(q) /\ Range(q) \subseteq S
           /\ Tail(q) \in Seq(S) /\ IsInjective(Tail(q))
           /\ Range(Tail(q)) = Range(q) \ {Head(q)}
<1>1. Len(q) \in Nat \ {0} /\ DOMAIN q = 1..Len(q) /\ Head(q) = q[1]
  OBVIOUS
<1>2. /\ Tail(q) \in Seq(S) /\ DOMAIN Tail(q) = 1..(Len(q) - 1)
      /\ \A i \in 1..(Len(q) - 1) : Tail(q)[i] = q[i + 1]
  BY <1>1
<1>3. Head(q) \in Range(q) /\ Range(q) \subseteq S
  BY <1>1 DEF Range
<1>4. IsInjective(Tail(q))
  BY <1>1, <1>2 DEF IsInjective
<1>5. Range(Tail(q)) \subseteq Range(q) \ {Head(q)}
  BY <1>1, <1>2 DEF Range, IsInjective
<1>6. ASSUME NEW x \in Range(q), x # Head(q)
      PROVE  x \in Range(Tail(q))
  <2>1. PICK i \in 2..Len(q) : x = q[i]
    BY <1>1, <1>6 DEF Range
  <2>2. i - 1 \in 1..(Len(q) - 1) /\ Tail(q)[i - 1] = x
    BY <1>1, <1>2, <2>1
  <2> QED BY <1>2, <2>2 DEF Range
<1> QED BY <1>2, <1>3, <1>4, <1>5, <1>6

\* A batch of a request has streams of one kind, each once.
LEMMA BatchIsOneKind ==
    ASSUME NEW batch \in Batches
    PROVE  /\ IsInjective(batch) /\ Range(batch) \subseteq AllStreams
           /\ Head(batch) \in Modules => batch \in Seq(Modules)
           /\ Head(batch) \notin Modules => batch \in Seq(Range(Streams))
<1>1. CASE batch = Streams
  <2>1. batch \in Seq(Range(Streams)) /\ IsInjective(batch)
    BY <1>1, WorkspaceAssumption
  <2>2. batch # <<>> => Head(batch) \in Range(Streams)
    BY <2>1
  <2>3. batch = <<>> => batch \in Seq(Modules)
    OBVIOUS
  <2> QED BY <1>1, <2>1, <2>2, <2>3, WorkspaceAssumption DEF AllStreams
<1>2. CASE batch = Order
  <2>1. batch \in Seq(Modules) /\ IsInjective(batch) /\ Range(batch) = Modules
    BY <1>2, WorkspaceAssumption
  <2>2. batch # <<>> => Head(batch) \in Modules
    BY <2>1
  <2>3. batch = <<>> => batch \in Seq(Range(Streams))
    OBVIOUS
  <2> QED BY <2>1, <2>2, <2>3 DEF AllStreams
<1>3. CASE \E s \in AllStreams : batch = <<s>>
  <2>1. PICK s \in AllStreams : batch = <<s>>
    BY <1>3
  <2>2. DOMAIN batch = {1} /\ batch[1] = s /\ Head(batch) = s
    BY <2>1
  <2>3. IsInjective(batch) /\ Range(batch) = {s}
    BY <2>2 DEF IsInjective, Range
  <2>4. s \in Modules => batch \in Seq(Modules)
    BY <2>1
  <2>5. s \notin Modules => batch \in Seq(Range(Streams))
    BY <2>1 DEF AllStreams
  <2> QED BY <2>1, <2>2, <2>3, <2>4, <2>5
<1> QED BY <1>1, <1>2, <1>3, WorkspaceAssumption

-----------------------------------------------------------------------------
\* The books of a job, by the four shapes of its steps.

\* A step within a batch that answers nothing: only the run row of the
\* stream under way may move, and not to success.
LEMMA WorkingBooks ==
    ASSUME TypeOK, NEW j \in Jobs, Books(j),
           job'[j].todo = job[j].todo, job'[j].summary = job[j].summary,
           job'[j].plan = job[j].plan, job'[j].exit = job[j].exit,
           \/ job[j].pc \in Early /\ job'[j].pc \in Early
           \/ job[j].pc \in Late /\ job'[j].pc \in Late,
           job'[j].pc \in Within => job[j].todo # <<>>,
           \/ job'[j].pc \in Within
           \/ /\ job[j].pc \notin Within
              /\ \A s \in AllStreams : runs'[j][s].status = Status(j, s),
           \A s \in AllStreams :
              \/ runs'[j][s].status = Status(j, s)
              \/ /\ job[j].todo # <<>> /\ s = Head(job[j].todo)
                 /\ runs'[j][s].status # "succeeded"
    PROVE  Books(j)'
<1> USE DEF Todo, Status
<1>1. Agenda(j) /\ ModulesWait(j) /\ Answers(j) /\ RunsAreOver(j)
  BY DEF Books
<1>2. Early \cap Late = {} /\ "idle" \notin Early \cup Late
  BY DEF Early, Late
<1>3. job[j].todo # <<>> =>
         /\ Head(job[j].todo) \in Todo(j)
         /\ job[j].pc \in Early => Head(job[j].todo) \in Range(Streams)
  BY <1>1, <1>2, TailKeeps DEF Agenda
<1>4. Todo(j) \subseteq AllStreams
  BY <1>1 DEF Agenda, AllStreams, Range
<1>5. Agenda(j)'
  BY <1>1, <1>2, <1>3, <1>4 DEF Agenda
<1>6. ModulesWait(j)'
  BY <1>1, <1>2, <1>3, WorkspaceAssumption DEF ModulesWait, AllStreams
<1>7. Answers(j)'
  BY <1>1, <1>2, <1>3, <1>4 DEF Answers, Agenda
<1>8. RunsAreOver(j)'
  BY <1>1 DEF RunsAreOver, Stream, Early, Late
<1> QED BY <1>5, <1>6, <1>7, <1>8 DEF Books

\* A step that answers for the stream under way.
LEMMA AnsweredBooks ==
    ASSUME TypeOK, NEW j \in Jobs, Books(j), NEW a \in {"succeeded", "failed"},
           job[j].pc \in Within \cup Between, job[j].todo # <<>>,
           job'[j] = Answered(j, a),
           \A s \in AllStreams \ {Stream(j)} : runs'[j][s].status = Status(j, s),
           a = "succeeded" <=> runs'[j][Stream(j)].status = "succeeded"
    PROVE  Books(j)'
<1> DEFINE h == Head(job[j].todo)
<1> USE DEF Todo, Status, Stream
<1>1. /\ Agenda(j) /\ ModulesWait(j) /\ Answers(j) /\ RunsAreOver(j)
      /\ job[j] \in Job
  BY DEF Books, TypeOK
<1>2. /\ job[j].pc \in Early \cup Late
      /\ Early \cap Late = {} /\ "idle" \notin Early \cup Late
  BY DEF Early, Late, Within, Between
<1>3. /\ job'[j].todo = Tail(job[j].todo)
      /\ job'[j].summary = [job[j].summary EXCEPT ![h] = a]
      /\ job'[j].plan = job[j].plan /\ job'[j].exit = job[j].exit
      /\ job'[j].pc = IF h \in Modules THEN "reading" ELSE "procuring"
  BY <1>1 DEF Answered, Job
<1>4. /\ h \in Todo(j) /\ Todo(j)' = Todo(j) \ {h} /\ IsInjective(Tail(job[j].todo))
      /\ Todo(j) \subseteq AllStreams
      /\ job[j].pc \in Early => Tail(job[j].todo) \in Seq(Range(Streams))
                                /\ h \in Range(Streams)
      /\ job[j].pc \in Late => Tail(job[j].todo) \in Seq(Modules)
                                /\ h \in Modules
  BY <1>1, <1>2, <1>3, TailKeeps DEF Agenda, AllStreams
<1>5. /\ job'[j].pc \in Early <=> job[j].pc \in Early
      /\ job'[j].pc \in Late <=> job[j].pc \in Late
      /\ job'[j].pc \notin Within
  BY <1>2, <1>3, <1>4, WorkspaceAssumption DEF Early, Late, Within
<1>6. job[j].summary \in [AllStreams -> {"none", "succeeded", "failed"}]
  BY <1>1 DEF Job
<1>7. \A s \in AllStreams : job'[j].summary[s] =
          IF s = h THEN a ELSE job[j].summary[s]
  BY <1>3, <1>6
<1> HIDE DEF h
<1>8. Agenda(j)'
  BY <1>1, <1>2, <1>3, <1>4, <1>5, <1>7 DEF Agenda, h
<1>9. ModulesWait(j)'
  BY <1>1, <1>4, <1>5, <1>7, WorkspaceAssumption DEF ModulesWait, AllStreams, h
<1>10. Answers(j)'
  BY <1>1, <1>2, <1>3, <1>4, <1>5, <1>7 DEF Answers, h
<1>11. RunsAreOver(j)'
  BY <1>1, <1>2, <1>7 DEF RunsAreOver, Early, Late, h
<1> QED BY <1>8, <1>9, <1>10, <1>11 DEF Books

\* A step that ends the job, in the middle of it or after its last stream.
LEMMA OverBooks ==
    ASSUME TypeOK, NEW j \in Jobs, Books(j), job[j].pc \in Early \cup Late,
           NEW phase \in {"done", "killed"},
           NEW exit \in {"none", "ok", "error", "lost", "unread"},
           job'[j] = Over(j, phase, exit),
           \A s \in AllStreams :
              \/ runs'[j][s].status = Status(j, s)
              \/ s \in Todo(j) /\ runs'[j][s].status # "succeeded",
           exit \in {"lost", "unread"} =>
              \A m \in Modules : runs'[j][m].status = "none",
           exit \in {"ok", "error"} =>
              \A s \in job[j].plan : job[j].summary[s] # "none",
           exit = "unread" =>
              \A s \in job[j].plan \ Modules : job[j].summary[s] # "none",
           phase = "done" =>
              \/ \A s \in AllStreams : runs'[j][s].status = "running" =>
                                            job[j].summary[s] = "failed"
              \/ /\ job[j].pc \notin Within
                 /\ \A s \in AllStreams : runs'[j][s].status = Status(j, s),
           exit = "ok" => AllSucceeded(j)
    PROVE  Books(j)'
<1> USE DEF Todo, Status
<1>1. /\ Agenda(j) /\ ModulesWait(j) /\ Answers(j) /\ RunsAreOver(j)
      /\ job[j] \in Job
  BY DEF Books, TypeOK
<1>2. /\ job'[j].todo = <<>> /\ job'[j].pc = phase /\ job'[j].exit = exit
      /\ job'[j].summary = job[j].summary /\ job'[j].plan = job[j].plan
  BY DEF Over, NoJob
<1>3. phase \notin Early \cup Late \cup Within /\ phase # "idle"
  BY DEF Early, Late, Within
<1>4. IsInjective(<<>>) /\ Range(<<>>) = {}
  BY DEF IsInjective, Range
<1>5. Agenda(j)' /\ ModulesWait(j)'
  BY <1>2, <1>3, <1>4 DEF Agenda, ModulesWait
<1>6. Answers(j)'
  BY <1>1, <1>2, <1>3 DEF Answers, Agenda, AllSucceeded
<1>7. RunsAreOver(j)'
  BY <1>1, <1>2, <1>3 DEF RunsAreOver, Early, Late
<1> QED BY <1>5, <1>6, <1>7 DEF Books

\* The first step of a job.
LEMMA BegunBooks ==
    ASSUME TypeOK, NEW j \in Jobs, Books(j), At(j, "idle"), runs'[j] = runs[j],
           job'[j].summary = NoJob.summary, job'[j].exit = "none",
           IsInjective(job'[j].todo), job'[j].plan \subseteq AllStreams,
           job'[j].pc \in {"login", "procuring"} =>
              /\ job'[j].todo \in Seq(Range(Streams))
              /\ \A s \in job'[j].plan :
                    s \in Range(job'[j].todo) \/ (j \in Tools /\ s \in Modules),
           job'[j].pc \notin {"login", "procuring"} =>
              /\ job'[j].pc = "reading" /\ job'[j].todo \in Seq(Modules)
              /\ job'[j].plan \subseteq Range(job'[j].todo)
    PROVE  Books(j)'
<1> USE DEF Todo, Status
<1>1. /\ \A s \in AllStreams : runs'[j][s].status = "none"
      /\ \A s \in AllStreams : job'[j].summary[s] = "none"
  BY DEF Books, Agenda, At, NoJob
<1>2. /\ job'[j].pc \notin Within \cup {"idle"}
      /\ job'[j].pc \in Early => job'[j].pc \in {"login", "procuring"}
      /\ job'[j].pc \in Late => job'[j].pc = "reading"
      /\ "reading" \notin Early
  BY DEF Early, Late, Within
<1>3. Range(job'[j].todo) \subseteq AllStreams
  BY DEF AllStreams, Range
<1>4. Agenda(j)'
  BY <1>1, <1>2, <1>3 DEF Agenda
<1>5. ModulesWait(j)'
  BY <1>1 DEF ModulesWait, AllStreams
<1>6. Answers(j)'
  BY <1>1, <1>2 DEF Answers
<1>7. RunsAreOver(j)'
  BY <1>1 DEF RunsAreOver
<1> QED BY <1>4, <1>5, <1>6, <1>7 DEF Books

-----------------------------------------------------------------------------
\* What a step of j may change: its own record and run rows.
Own(j) ==
    \A u \in Jobs \ {j} : job'[u] = job[u] /\ runs'[u] = runs[u]

JobStep(j) ==
    BeginTool(j) \/ BeginRequest(j) \/ ScopeUnread(j) \/ Work(j) \/ Kill(j)

LEMMA StepIsOwn ==
    ASSUME TypeOK, NEW j \in Jobs, JobStep(j)
    PROVE  Own(j)
<1> USE DEF TypeOK, Own, Becomes, RunBecomes, storeVars
<1>1. CASE BeginTool(j) \/ BeginRequest(j) \/ ScopeUnread(j) \/ Kill(j)
  BY <1>1 DEF BeginTool, BeginRequest, ScopeUnread, Kill
<1>2. CASE Login(j) \/ LoginFails(j) \/ StartLoginRun(j) \/ FailLoginRun(j)
           \/ PortalFails(j) \/ StartStream(j) \/ CommitStream(j)
  BY <1>2 DEF Login, LoginFails, StartLoginRun, FailLoginRun, PortalFails,
              StartStream, CommitStream
<1>3. CASE LoseSession(j) \/ FailStream(j) \/ FailUnrecorded(j)
           \/ EnterReadonly(j) \/ StartModule(j) \/ AskIdentity(j) \/ ReadList(j)
           \/ LoginUnrecorded(j) \/ RowsUnread(j)
  BY <1>3 DEF LoseSession, FailStream, FailUnrecorded, EnterReadonly,
              StartModule, AskIdentity, ReadList, LoginUnrecorded, RowsUnread
<1>4. CASE Guard(j) \/ ReadPrevious(j) \/ ReadFirst(j) \/ CommitModule(j)
           \/ Finish(j) \/ SummaryFails(j)
  BY <1>4 DEF Guard, ReadPrevious, ReadFirst, CommitModule, Finish, SummaryFails
<1> QED BY <1>1, <1>2, <1>3, <1>4 DEF JobStep, Work

\* The books of the others stay as they are.
LEMMA OthersBooks ==
    ASSUME NEW j \in Jobs, Own(j), NEW u \in Jobs \ {j}, Books(u)
    PROVE  Books(u)'
BY DEF Own, Books, Agenda, ModulesWait, Answers, RunsAreOver, Todo, Status,
       Stream

\* What a row of runs becomes.
LEMMA RowBecomes ==
    ASSUME TypeOK, NEW j \in Jobs, NEW s \in AllStreams \cup {"login"}, NEW row,
           RunBecomes(j, s, row)
    PROVE  /\ runs'[j][s] = row
           /\ \A r \in AllStreams \cup {"login"} : r # s => runs'[j][r] = runs[j][r]
BY DEF TypeOK, RunBecomes

LEMMA StepBooks ==
    ASSUME TypeOK, NEW j \in Jobs, Books(j), JobStep(j)
    PROVE  Books(j)'
<1> USE DEF Becomes, storeVars, At
<1>1. /\ job[j] \in Job /\ job \in [Jobs -> Job] /\ Agenda(j) /\ Answers(j)
      /\ ModulesWait(j) /\ RunsAreOver(j)
  BY DEF TypeOK, Books
<1>2. /\ "login" \notin AllStreams /\ Range(Streams) \subseteq AllStreams
      /\ Modules \subseteq AllStreams
  BY WorkspaceAssumption DEF AllStreams
<1>3. job[j].pc \in Early \cup Late /\ job[j].todo # <<>> =>
          Stream(j) \in AllStreams /\ Stream(j) \in Todo(j)
  BY <1>1, <1>2, TailKeeps DEF Agenda, Todo, Stream
<1>4. \A s : RunStatus(s).status = s
  BY DEF RunStatus
<1>5. CASE BeginTool(j)
  <2>1. /\ Streams \in Seq(Range(Streams)) /\ IsInjective(Streams)
        /\ AllStreams \subseteq Range(Streams) \cup Modules
    BY WorkspaceAssumption DEF AllStreams
  <2>2. /\ job'[j] = [NoJob EXCEPT !.pc = "login", !.todo = Streams,
                                   !.plan = AllStreams]
        /\ runs' = runs /\ j \in Tools
    BY <1>1, <1>5 DEF BeginTool
  <2>3. /\ job'[j].summary = NoJob.summary /\ job'[j].exit = "none"
        /\ job'[j].todo = Streams /\ job'[j].plan = AllStreams
        /\ job'[j].pc = "login"
    BY <2>2 DEF NoJob
  <2>4. \A s \in AllStreams : s \in Range(Streams) \/ s \in Modules
    BY <2>1
  <2> QED BY <1>5, <2>1, <2>2, <2>3, <2>4, BegunBooks DEF BeginTool
<1>6. CASE BeginRequest(j)
  <2>1. PICK batch \in Batches :
            job' = [job EXCEPT ![j] =
                [NoJob EXCEPT
                    !.pc = IF Head(batch) \in Modules THEN "reading" ELSE "procuring",
                    !.observed = clock, !.todo = batch, !.plan = Range(batch),
                    !.scope = IF Head(batch) \in Modules THEN UNION Range(managed)
                              ELSE {}]]
    BY <1>6 DEF BeginRequest
  <2>2. /\ job'[j].summary = NoJob.summary /\ job'[j].exit = "none"
        /\ job'[j].todo = batch /\ job'[j].plan = Range(batch)
        /\ job'[j].pc = IF Head(batch) \in Modules THEN "reading" ELSE "procuring"
    BY <1>1, <2>1 DEF NoJob
  <2>3. runs' = runs
    BY <1>6 DEF BeginRequest
  <2> QED BY <1>6, <2>2, <2>3, BatchIsOneKind, BegunBooks DEF BeginRequest
<1>7. CASE Login(j) \/ LoginFails(j) \/ StartLoginRun(j)
  <2>1. /\ job[j].pc \in Early \ Within /\ job'[j].pc \in Early \ Within
        /\ job'[j].todo = job[j].todo /\ job'[j].summary = job[j].summary
        /\ job'[j].plan = job[j].plan /\ job'[j].exit = job[j].exit
    <3>1. CASE Login(j)
      BY <1>1, <3>1 DEF Login, Early, Within, Job
    <3>2. CASE LoginFails(j)
      BY <1>1, <3>2 DEF LoginFails, Early, Within, Job
    <3>3. CASE StartLoginRun(j)
      BY <1>1, <3>3 DEF StartLoginRun, Early, Within, Job
    <3> QED BY <1>7, <3>1, <3>2, <3>3
  <2>2. \A s \in AllStreams : runs'[j][s].status = Status(j, s)
    BY <1>2, <1>7, RowBecomes DEF Login, LoginFails, StartLoginRun, Status
  <2> QED BY <2>1, <2>2, WorkingBooks
<1>8. CASE AskIdentity(j) \/ ReadList(j)
  <2>1. /\ job[j].pc \in Late \cap Within /\ job'[j].pc \in Late \cap Within
        /\ job'[j].todo = job[j].todo /\ job'[j].summary = job[j].summary
        /\ job'[j].plan = job[j].plan /\ job'[j].exit = job[j].exit
    <3>1. CASE AskIdentity(j)
      BY <1>1, <3>1 DEF AskIdentity, Late, Within, Job
    <3>2. CASE ReadList(j)
      BY <1>1, <3>2 DEF ReadList, Late, Within, Job
    <3> QED BY <1>8, <3>1, <3>2
  <2>2. \A s \in AllStreams : runs'[j][s].status = Status(j, s)
    BY <1>8 DEF AskIdentity, ReadList, Status
  <2> QED BY <1>1, <2>1, <2>2, WorkingBooks DEF Agenda
<1>9. CASE Guard(j) \/ ReadPrevious(j)
  <2>1. /\ job[j].pc \in Late \cap Within /\ job'[j].pc \in Late \cap Within
        /\ job'[j].todo = job[j].todo /\ job'[j].summary = job[j].summary
        /\ job'[j].plan = job[j].plan /\ job'[j].exit = job[j].exit
    <3>1. CASE Guard(j)
      BY <1>1, <3>1 DEF Guard, Late, Within, Job
    <3>2. CASE ReadPrevious(j)
      BY <1>1, <3>2 DEF ReadPrevious, Late, Within, Job
    <3> QED BY <1>9, <3>1, <3>2
  <2>2. \A s \in AllStreams : runs'[j][s].status = Status(j, s)
    BY <1>9 DEF Guard, ReadPrevious, Status
  <2> QED BY <1>1, <2>1, <2>2, WorkingBooks DEF Agenda
<1>10. CASE ReadFirst(j)
  <2>1. /\ job[j].pc \in Late \cap Within /\ job'[j].pc \in Late \cap Within
        /\ job'[j].todo = job[j].todo /\ job'[j].summary = job[j].summary
        /\ job'[j].plan = job[j].plan /\ job'[j].exit = job[j].exit
    BY <1>1, <1>10 DEF ReadFirst, Late, Within, Job
  <2>2. \A s \in AllStreams : runs'[j][s].status = Status(j, s)
    BY <1>10 DEF ReadFirst, Status
  <2> QED BY <1>1, <2>1, <2>2, WorkingBooks DEF Agenda
<1>11. CASE StartStream(j)
  <2>1. job[j].pc \in Early /\ job'[j] = [job[j] EXCEPT !.pc = "measuring"]
        /\ job[j].todo # <<>>
    BY <1>1, <1>11 DEF StartStream, Early
  <2>2. /\ runs'[j][Stream(j)].status = "running"
        /\ \A s \in AllStreams : s # Stream(j) => runs'[j][s] = runs[j][s]
    BY <1>3, <1>4, <1>11, <2>1, RowBecomes DEF StartStream
  <2> QED BY <1>1, <2>1, <2>2, WorkingBooks DEF Early, Within, Job, Status, Stream
<1>12. CASE StartModule(j)
  <2>1. job[j].pc \in Late /\ job'[j] = [job[j] EXCEPT !.pc = "started"]
        /\ job[j].todo # <<>>
    BY <1>1, <1>12 DEF StartModule, Late
  <2>2. /\ runs'[j][Stream(j)].status = "running"
        /\ \A s \in AllStreams : s # Stream(j) => runs'[j][s] = runs[j][s]
    BY <1>3, <1>4, <1>12, <2>1, RowBecomes DEF StartModule
  <2> QED BY <1>1, <2>1, <2>2, WorkingBooks DEF Late, Within, Job, Status, Stream
<1>13. CASE CommitStream(j) \/ FailStream(j) \/ FailUnrecorded(j) \/ CommitModule(j)
  <2>1. /\ job[j].pc \in Within \cup Between /\ job[j].todo # <<>>
        /\ job[j].pc \in Early \cup Late
    BY <1>1, <1>13 DEF CommitStream, FailStream, FailUnrecorded, CommitModule,
       Within, Between, Agenda, Early, Late
  <2>2. Stream(j) \in AllStreams /\ job[j].summary[Stream(j)] = "none"
        /\ Status(j, Stream(j)) # "succeeded"
    BY <1>1, <1>3, <2>1 DEF Agenda
  <2>3. PICK a \in {"succeeded", "failed"} :
            /\ job' = [job EXCEPT ![j] = Answered(j, a)]
            /\ \/ runs' = runs /\ a = "failed"
               \/ \E row : RunBecomes(j, Stream(j), row) /\ row.status = a
    BY <1>4, <1>13 DEF CommitStream, FailStream, FailUnrecorded, CommitModule, RunStatus
  <2>4. job'[j] = Answered(j, a)
    BY <1>1, <2>3
  <2>5. /\ a = "succeeded" <=> runs'[j][Stream(j)].status = "succeeded"
        /\ \A s \in AllStreams \ {Stream(j)} : runs'[j][s].status = Status(j, s)
    BY <2>2, <2>3, RowBecomes DEF Status
  <2> QED BY <2>1, <2>4, <2>5, AnsweredBooks
<1>14. CASE EnterReadonly(j)
  <2>1. /\ job'[j] = [job[j] EXCEPT !.pc = "reading", !.todo = Order,
                                   !.scope = UNION Range(managed)]
        /\ runs' = runs /\ job[j].pc = "procuring" /\ job[j].todo = <<>>
        /\ Range(<<>>) = {}
    BY <1>1, <1>14 DEF EnterReadonly, Range
  <2>2. /\ job'[j].pc = "reading" /\ job'[j].todo = Order
        /\ job'[j].summary = job[j].summary /\ job'[j].plan = job[j].plan
        /\ job'[j].exit = job[j].exit
    BY <1>1, <2>1 DEF Job
  <2>3. /\ Order \in Seq(Modules) /\ IsInjective(Order) /\ Range(Order) = Modules
    BY WorkspaceAssumption
  <2>4. "reading" \in Late \ (Early \cup Within) /\ "procuring" \in Early
    BY DEF Early, Late, Within
  <2>5. Agenda(j)'
    BY <1>1, <2>1, <2>2, <2>3, <2>4 DEF Agenda, ModulesWait, Todo, Status
  <2>6. ModulesWait(j)' /\ Answers(j)'
    BY <1>1, <2>1, <2>2, <2>3, <2>4 DEF ModulesWait, Answers, Todo, Status
  <2>7. RunsAreOver(j)'
    BY <1>1, <2>1, <2>2 DEF RunsAreOver, Status, Within
  <2> QED BY <2>5, <2>6, <2>7 DEF Books
<1>15. CASE FailLoginRun(j)
  <2>1. job[j].pc \in Early \ Within /\ job'[j] = Over(j, "done", "lost")
    BY <1>1, <1>15 DEF FailLoginRun, Early, Within
  <2>2. \A s \in AllStreams : runs'[j][s] = runs[j][s]
    BY <1>2, <1>15, RowBecomes DEF FailLoginRun
  <2> QED BY <1>1, <1>2, <2>1, <2>2, OverBooks DEF ModulesWait, Status
<1>16. CASE PortalFails(j) \/ LoginUnrecorded(j)
  <2>1. /\ job[j].pc \in Early \ Within /\ runs' = runs
        /\ job'[j] = Over(j, "done", "lost")
    BY <1>1, <1>16 DEF PortalFails, LoginUnrecorded, Early, Within
  <2> QED BY <1>1, <2>1, OverBooks DEF ModulesWait, Status
<1>17. CASE LoseSession(j)
  <2>1. job[j].pc \in Early /\ job'[j] = Over(j, "done", "lost") /\ job[j].todo # <<>>
    BY <1>1, <1>17 DEF LoseSession, Early, Within, Agenda
  <2>2. /\ Stream(j) \in Todo(j) /\ runs'[j][Stream(j)].status = "failed"
        /\ \A s \in AllStreams : s # Stream(j) => runs'[j][s] = runs[j][s]
    BY <1>3, <1>4, <1>17, <2>1, RowBecomes DEF LoseSession
  <2>3. Stream(j) \notin Modules
    BY <1>1, <2>1, <2>2, WorkspaceAssumption DEF Agenda, Todo, Range
  <2>4. job[j].pc # "killed"
    BY <1>17 DEF LoseSession
  <2>5. \A s \in AllStreams : runs'[j][s].status = "running" =>
                                  job[j].summary[s] = "failed"
    BY <1>1, <2>2, <2>4 DEF RunsAreOver, Status
  <2> QED
    BY <1>1, <1>2, <2>1, <2>2, <2>3, <2>5, OverBooks DEF ModulesWait, Status
<1>18. CASE Finish(j)
  <2>1. /\ job[j].pc \in (Early \cup Late) \ Within /\ job[j].todo = <<>>
        /\ runs' = runs
        /\ job[j].pc \in Early => j \notin Tools
    BY <1>18 DEF Finish, Between, Within, Early, Late
  <2>2. job'[j] = Over(j, "done", IF AllSucceeded(j) THEN "ok" ELSE "error")
    BY <1>1, <1>18 DEF Finish
  <2>3. \A s \in job[j].plan : job[j].summary[s] # "none"
    BY <1>1, <2>1 DEF Answers, Todo, Range
  <2> QED BY <2>1, <2>2, <2>3, OverBooks DEF Status
<1>19. CASE SummaryFails(j)
  <2>1. /\ job[j].pc \in Late \ Within /\ job[j].todo = <<>> /\ runs' = runs
        /\ job'[j] = Over(j, "done", "error") /\ Early \cap Late = {}
    BY <1>1, <1>19 DEF SummaryFails, Late, Early, Within
  <2>2. \A s \in job[j].plan : job[j].summary[s] # "none"
    BY <1>1, <2>1 DEF Answers, Todo, Range
  <2> QED BY <2>1, <2>2, OverBooks DEF Status
<1>20. CASE Kill(j)
  <2>1. job[j].pc \in Early \cup Late /\ runs' = runs
        /\ job'[j] = Over(j, "killed", "none")
    BY <1>1, <1>20 DEF Kill, Job, Phases, Between, Within, Early, Late
  <2> QED BY <2>1, OverBooks DEF Status
<1>21. CASE RowsUnread(j)
  <2>1. /\ job[j].pc \in Early \ Within /\ job[j].todo = <<>> /\ runs' = runs
        /\ job'[j] = Over(j, "done", "unread")
    BY <1>1, <1>21 DEF RowsUnread, Early, Within
  <2>2. \A s \in job[j].plan \ Modules : job[j].summary[s] # "none"
    BY <1>1, <2>1 DEF Answers, Todo, Range
  <2> QED BY <1>1, <2>1, <2>2, OverBooks DEF ModulesWait, Status
<1>22. CASE ScopeUnread(j)
  <2>1. PICK batch \in Batches :
            /\ job' = [job EXCEPT ![j] = [NoJob EXCEPT !.pc = "done",
                            !.plan = Range(batch), !.exit = "unread"]]
            /\ Range(batch) \subseteq Modules
    <3>1. PICK batch \in Batches :
              /\ Head(batch) \in Modules
              /\ job' = [job EXCEPT ![j] = [NoJob EXCEPT !.pc = "done",
                              !.plan = Range(batch), !.exit = "unread"]]
      BY <1>22 DEF ScopeUnread
    <3>2. batch \in Seq(Modules)
      BY <3>1, BatchIsOneKind
    <3>3. Range(batch) \subseteq Modules
      BY <3>2 DEF Range
    <3> QED BY <3>1, <3>3
  <2>2. /\ job[j] = NoJob /\ runs' = runs
        /\ \A s \in AllStreams : Status(j, s) = "none"
    BY <1>1, <1>22 DEF ScopeUnread, Agenda
  <2>3. /\ job'[j].pc = "done" /\ job'[j].todo = <<>> /\ job'[j].exit = "unread"
        /\ \A s \in AllStreams : job'[j].summary[s] = "none"
        /\ job'[j].plan = Range(batch) /\ Range(batch) \subseteq Modules
    BY <1>1, <2>1 DEF NoJob
  <2>4. IsInjective(<<>>) /\ Range(<<>>) = {}
    BY DEF IsInjective, Range
  <2>5. "done" \notin Early \cup Late \cup Within
    BY DEF Early, Late, Within
  <2>6. Agenda(j)' /\ ModulesWait(j)'
    BY <2>2, <2>3, <2>4, <2>5 DEF Agenda, ModulesWait, Todo
  <2>7. Answers(j)' /\ RunsAreOver(j)'
    BY <1>2, <2>2, <2>3, <2>5 DEF Answers, RunsAreOver, Status
  <2> QED BY <2>6, <2>7 DEF Books
<1> QED BY <1>5, <1>6, <1>7, <1>8, <1>9, <1>10, <1>11, <1>12, <1>13, <1>14,
           <1>15, <1>16, <1>17, <1>18, <1>19, <1>20, <1>21, <1>22
           DEF JobStep, Work

-----------------------------------------------------------------------------
\* Types.

LEMMA JobEdited ==
    ASSUME NEW w \in Job
    PROVE  /\ \A p \in Phases : [w EXCEPT !.pc = p] \in Job
           /\ \A n \in Nat : [w EXCEPT !.observed = n] \in Job
           /\ \A q \in Seq(AllStreams) : [w EXCEPT !.todo = q] \in Job
           /\ \A x \in SUBSET Projects : [w EXCEPT !.scope = x] \in Job
           /\ \A i \in {"known", "unknown"} : [w EXCEPT !.identity = i] \in Job
           /\ \A m \in Measurement : [w EXCEPT !.m = m] \in Job
           /\ \A b \in [Docs -> Row(RunIds) \cup {None}] :
                 [w EXCEPT !.before = b] \in Job
           /\ \A m \in Measurement : [w EXCEPT !.prev = m] \in Job
           /\ \A d \in Docs \cup {None} : [w EXCEPT !.first = d] \in Job
           /\ \A b \in BOOLEAN : [w EXCEPT !.known = b] \in Job
           /\ \A x \in SUBSET AllStreams : [w EXCEPT !.plan = x] \in Job
           /\ \A e \in {"none", "ok", "error", "lost", "unread"} : [w EXCEPT !.exit = e] \in Job
<1> USE DEF Job
<1>1. \A p \in Phases : [w EXCEPT !.pc = p] \in Job
  OBVIOUS
<1>2. \A n \in Nat : [w EXCEPT !.observed = n] \in Job
  OBVIOUS
<1>3. \A q \in Seq(AllStreams) : [w EXCEPT !.todo = q] \in Job
  OBVIOUS
<1>4. \A x \in SUBSET Projects : [w EXCEPT !.scope = x] \in Job
  OBVIOUS
<1>5. \A i \in {"known", "unknown"} : [w EXCEPT !.identity = i] \in Job
  OBVIOUS
<1>6. \A m \in Measurement : [w EXCEPT !.m = m] \in Job
  OBVIOUS
<1>7. \A b \in [Docs -> Row(RunIds) \cup {None}] : [w EXCEPT !.before = b] \in Job
  OBVIOUS
<1>8. \A m \in Measurement : [w EXCEPT !.prev = m] \in Job
  OBVIOUS
<1>9. \A d \in Docs \cup {None} : [w EXCEPT !.first = d] \in Job
  OBVIOUS
<1>10. \A b \in BOOLEAN : [w EXCEPT !.known = b] \in Job
  OBVIOUS
<1>11. \A x \in SUBSET AllStreams : [w EXCEPT !.plan = x] \in Job
  OBVIOUS
<1>12. \A e \in {"none", "ok", "error", "lost", "unread"} : [w EXCEPT !.exit = e] \in Job
  OBVIOUS
<1> QED BY <1>1, <1>2, <1>3, <1>4, <1>5, <1>6, <1>7, <1>8, <1>9, <1>10, <1>11, <1>12

LEMMA NoDocsType == NoDocs \in Measurement /\ NoDocs \in [Docs -> Row(RunIds) \cup {None}]
BY DEF NoDocs, Measurement

LEMMA NoJobType == NoJob \in Job
<1>1. [s \in AllStreams |-> "none"] \in [AllStreams -> {"none", "succeeded", "failed"}]
  OBVIOUS
<1>2. <<>> \in Seq(AllStreams)
  OBVIOUS
<1>3. "idle" \in Phases
  BY DEF Phases
<1> QED BY <1>1, <1>2, <1>3, NoDocsType DEF NoJob, Job

LEMMA AnsweredType ==
    ASSUME NEW j \in Jobs, job[j] \in Job, NEW a \in {"succeeded", "failed"},
           job[j].todo # <<>>
    PROVE  Answered(j, a) \in Job
<1>1. /\ Tail(job[j].todo) \in Seq(AllStreams)
      /\ job[j].summary \in [AllStreams -> {"none", "succeeded", "failed"}]
  BY DEF Job
<1>2. [job[j].summary EXCEPT ![Stream(j)] = a]
         \in [AllStreams -> {"none", "succeeded", "failed"}]
  BY <1>1
<1>3. (IF Stream(j) \in Modules THEN "reading" ELSE "procuring") \in Phases
  BY DEF Phases, Between
<1> QED BY <1>1, <1>2, <1>3, NoDocsType DEF Answered, Job

LEMMA OverType ==
    ASSUME NEW j \in Jobs, job[j] \in Job, NEW p \in {"done", "killed"},
           NEW e \in {"none", "ok", "error", "lost", "unread"}
    PROVE  Over(j, p, e) \in Job
<1>1. p \in Phases
  BY DEF Phases
<1> QED BY <1>1, NoJobType DEF Over, Job

LEMMA JobTyped ==
    ASSUME TypeOK, NEW j \in Jobs, NEW w \in Job, Becomes(j, w)
    PROVE  job' \in [Jobs -> Job]
BY DEF TypeOK, Becomes

LEMMA RunStatusType ==
    ASSUME NEW s \in {"none", "running", "succeeded", "failed"}
    PROVE  RunStatus(s) \in RunRow
BY DEF RunStatus, RunRow

LEMMA RowTyped ==
    ASSUME TypeOK, NEW j \in Jobs, NEW s \in AllStreams \cup {"login"},
           NEW row \in RunRow, RunBecomes(j, s, row)
    PROVE  runs' \in [Jobs -> [AllStreams \cup {"login"} -> RunRow]]
BY DEF TypeOK, RunBecomes

\* A measurement holds what is said of finitely many documents.
LEMMA PresentIsFinite ==
    ASSUME NEW m
    PROVE  /\ IsFiniteSet(Present(m)) /\ Cardinality(Present(m)) \in Nat
           /\ \A x \in SUBSET Docs : Cardinality(x) \in Nat
BY ReadonlyAssumption, FS_Subset, FS_CardinalityType DEF Present

LEMMA SnapshotsType ==
    ASSUME NEW s, NEW listing \in Listings, NEW x
    PROVE  Snapshots(s, listing, x) \in Measurement
BY WorkspaceAssumption DEF Snapshots, Measurement, Payload, Reasons

\* The stream under way is a module in the late phases, a procurement stream
\* in the early ones.
LEMMA StreamUnderWay ==
    ASSUME NEW j \in Jobs, Agenda(j), job[j].todo # <<>>
    PROVE  /\ job[j].pc \in Late => Stream(j) \in Modules
           /\ job[j].pc \in Early => Stream(j) \in Range(Streams)
           /\ job[j].pc \in Within \cup Between =>
                 Stream(j) \in AllStreams /\ Status(j, Stream(j)) # "succeeded"
<1>1. /\ job[j].pc \in Late => Stream(j) \in Modules
      /\ job[j].pc \in Early => Stream(j) \in Range(Streams)
  BY TailKeeps DEF Agenda, Stream
<1>2. job[j].pc \in Within \cup Between =>
         job[j].pc \in Early \cup Late /\ Stream(j) \in Todo(j)
  BY TailKeeps DEF Agenda, Stream, Within, Between, Early, Late, Todo
<1> QED BY <1>1, <1>2 DEF Agenda, AllStreams

\* The snapshots that a commit adds.
New(j) ==
    LET w == job[j] IN
    {[module |-> Stream(j), doc |-> d, observed |-> w.observed,
      run |-> <<j, Stream(j)>>, payload |-> w.m[d]] :
        d \in {e \in Present(w.m) :
                  IF e = w.first THEN ~w.known
                  ELSE KnownAt(Stream(j), e, w.observed) = {}}}

LEMMA NewSnapshots ==
    ASSUME TypeOK, NEW j \in Jobs, Stream(j) \in Modules
    PROVE  /\ New(j) \subseteq Snapshot(RunIds)
           /\ IsFiniteSet(New(j)) /\ Cardinality(New(j)) \in Nat
           /\ \A s, t \in New(j) : s.doc = t.doc => s = t
           /\ \A s \in New(j) : /\ s.module = Stream(j) /\ s.observed = job[j].observed
                                /\ s.run = <<j, Stream(j)>>
                                /\ s.doc \in Present(job[j].m)
                                /\ s.payload = job[j].m[s.doc]
<1> DEFINE f == [d \in Docs |-> [module |-> Stream(j), doc |-> d,
                                 observed |-> job[j].observed,
                                 run |-> <<j, Stream(j)>>, payload |-> job[j].m[d]]]
           T == {f[d] : d \in Docs}
<1>1. job[j] \in Job /\ <<j, Stream(j)>> \in RunIds
  BY DEF TypeOK, RunIds
<1>2. /\ job[j].m \in Measurement /\ job[j].observed \in Nat
      /\ \A d \in Present(job[j].m) : d \in Docs /\ job[j].m[d] \in Payload
  BY <1>1 DEF Job, Measurement, Present
<1>3. New(j) \subseteq T
  BY DEF New, Present
<1>4. IsFiniteSet(T)
  <2>1. f \in Surjection(Docs, T)
    BY DEF Surjection
  <2> HIDE DEF f, T
  <2> QED BY <2>1, ReadonlyAssumption, FS_Surjection
<1>5. IsFiniteSet(New(j)) /\ Cardinality(New(j)) \in Nat
  <2> HIDE DEF T
  <2> QED BY <1>3, <1>4, FS_Subset, FS_CardinalityType
<1>6. New(j) \subseteq Snapshot(RunIds)
  BY <1>1, <1>2 DEF New, Snapshot
<1>7. \A s \in New(j) : /\ s.module = Stream(j) /\ s.observed = job[j].observed
                        /\ s.run = <<j, Stream(j)>>
                        /\ s.doc \in Present(job[j].m)
                        /\ s.payload = job[j].m[s.doc]
  BY DEF New
<1>8. \A s, t \in New(j) : s.doc = t.doc => s = t
  BY DEF New
<1> HIDE DEF f
<1> QED BY <1>5, <1>6, <1>7, <1>8

\* What a commit does to the tables.
LEMMA CommitDoes ==
    ASSUME TypeOK, NEW j \in Jobs, Books(j), CommitModule(j)
    PROVE  /\ job[j].todo # <<>> /\ Stream(j) \in Modules
           /\ job[j].pc \in {"compared", "first_read"}
           /\ job[j].pc = "first_read" \/ Present(job[j].m) = {}
           /\ \A d \in Present(job[j].m) \ {job[j].first} : NoConflict(j, d)
           /\ Unique(New(j))
           /\ history' = history \cup New(j)
           /\ current' = [current EXCEPT ![Stream(j)] =
                             Replaced(<<j, Stream(j)>>, job[j].m, job[j].observed,
                                      current[Stream(j)])]
           /\ RunBecomes(j, Stream(j),
                [status |-> "succeeded", observed |-> job[j].observed,
                 count |-> Cardinality(Present(job[j].m)),
                 inserted |-> Cardinality(New(j)),
                 changed |-> Cardinality(Changed(job[j].m, job[j].prev))])
           /\ Becomes(j, Answered(j, "succeeded"))
           /\ UNCHANGED <<clock, managed>>
<1>1. job[j].pc \in {"compared", "first_read"}
  BY DEF CommitModule, At
<1>2. job[j].todo # <<>> /\ Stream(j) \in Modules
  BY <1>1, StreamUnderWay DEF Books, Agenda, Within, Late
<1> QED BY <1>1, <1>2 DEF CommitModule, New, At

LEMMA ReplacedType ==
    ASSUME NEW r \in RunIds, NEW m \in Measurement, NEW t \in Nat, NEW rows
    PROVE  Replaced(r, m, t, rows) \in [Docs -> Row(RunIds) \cup {None}]
BY DEF Replaced, Row, Measurement

LEMMA StepTyped ==
    ASSUME TypeOK, NEW j \in Jobs, Books(j), JobStep(j)
    PROVE  TypeOK'
<1> USE DEF storeVars, At
<1>1. /\ job[j] \in Job /\ Agenda(j) /\ clock \in Nat
      /\ UNION Range(managed) \subseteq Projects
  <2>1. UNION Range(managed) \subseteq Projects
    BY DEF TypeOK, Range
  <2>2. clock \in Nat
    BY WorkspaceAssumption DEF TypeOK
  <2> QED BY <2>1, <2>2 DEF TypeOK, Books
<1>2. /\ Streams \in Seq(AllStreams) /\ Order \in Seq(AllStreams)
      /\ Range(Streams) \subseteq AllStreams /\ Modules \subseteq AllStreams
  BY WorkspaceAssumption DEF AllStreams
<1>3. ASSUME UNCHANGED <<managed, runs, current, history, clock>>,
             NEW w \in Job, Becomes(j, w)
      PROVE  TypeOK'
  BY <1>3, JobTyped DEF TypeOK
<1>4. ASSUME UNCHANGED <<managed, current, history, clock>>,
             NEW w \in Job, Becomes(j, w), NEW s \in AllStreams \cup {"login"},
             NEW row \in RunRow, RunBecomes(j, s, row)
      PROVE  TypeOK'
  BY <1>4, JobTyped, RowTyped DEF TypeOK
<1>5. CASE BeginTool(j)
  <2>1. [NoJob EXCEPT !.pc = "login", !.todo = Streams, !.plan = AllStreams] \in Job
    BY <1>2, NoJobType, JobEdited DEF Phases
  <2> QED BY <1>3, <1>5, <2>1 DEF BeginTool
<1>6. CASE BeginRequest(j)
  <2>1. PICK batch \in Batches :
            Becomes(j, [NoJob EXCEPT
                    !.pc = IF Head(batch) \in Modules THEN "reading" ELSE "procuring",
                    !.observed = clock, !.todo = batch, !.plan = Range(batch),
                    !.scope = IF Head(batch) \in Modules THEN UNION Range(managed)
                              ELSE {}])
    BY <1>6 DEF BeginRequest
  <2>2. batch \in Seq(AllStreams) /\ Range(batch) \subseteq AllStreams
    BY BatchIsOneKind DEF AllStreams
  <2> DEFINE p == IF Head(batch) \in Modules THEN "reading" ELSE "procuring"
             x == IF Head(batch) \in Modules THEN UNION Range(managed) ELSE {}
  <2>3. p \in Phases /\ x \in SUBSET Projects
    BY <1>1 DEF Phases, Between
  <2> HIDE DEF p, x
  <2>4. [NoJob EXCEPT !.pc = p, !.observed = clock, !.todo = batch,
                      !.plan = Range(batch), !.scope = x] \in Job
    BY <1>1, <2>2, <2>3, NoJobType, JobEdited
  <2> QED BY <1>3, <1>6, <2>1, <2>4 DEF BeginRequest, p, x
<1>7. CASE Login(j) \/ LoginFails(j)
  <2>1. /\ [job[j] EXCEPT !.pc = "procuring", !.observed = clock] \in Job
        /\ [job[j] EXCEPT !.pc = "refused"] \in Job
    BY <1>1, JobEdited DEF Phases, Between
  <2> QED BY <1>3, <1>7, <2>1 DEF Login, LoginFails
<1>8. CASE StartLoginRun(j) \/ StartStream(j) \/ StartModule(j)
  <2>1. \A p \in {"recording", "measuring", "started"} :
            [job[j] EXCEPT !.pc = p] \in Job
    BY <1>1, JobEdited DEF Phases, Within
  <2>2. StartStream(j) \/ StartModule(j) => Stream(j) \in AllStreams
    BY <1>1, StreamUnderWay DEF StartStream, StartModule, Between
  <2> QED BY <1>4, <1>8, <2>1, <2>2, RunStatusType
             DEF StartLoginRun, StartStream, StartModule
<1>9. CASE FailLoginRun(j) \/ LoseSession(j)
  <2>1. LoseSession(j) => Stream(j) \in AllStreams
    BY <1>1, StreamUnderWay DEF LoseSession, Within, Agenda
  <2> QED BY <1>1, <1>4, <1>9, <2>1, RunStatusType, OverType
             DEF FailLoginRun, LoseSession
<1>10. CASE PortalFails(j) \/ Finish(j) \/ SummaryFails(j) \/ Kill(j)
            \/ LoginUnrecorded(j) \/ RowsUnread(j)
  BY <1>1, <1>3, <1>10, OverType
     DEF PortalFails, Finish, SummaryFails, Kill, LoginUnrecorded, RowsUnread
<1>11. CASE FailStream(j) \/ FailUnrecorded(j)
  <2>1. job[j].todo # <<>> /\ Stream(j) \in AllStreams
    BY <1>1, <1>11, StreamUnderWay DEF FailStream, FailUnrecorded, Agenda
  <2>2. Answered(j, "failed") \in Job
    BY <1>1, <2>1, AnsweredType
  <2> QED BY <1>3, <1>4, <1>11, <2>1, <2>2, RunStatusType
             DEF FailStream, FailUnrecorded
<1>12. CASE CommitStream(j)
  <2>1. job[j].todo # <<>> /\ Stream(j) \in Range(Streams)
    BY <1>1, <1>12, StreamUnderWay DEF CommitStream, Agenda, Within, Early
  <2>2. Answered(j, "succeeded") \in Job
    BY <1>1, <2>1, AnsweredType
  <2>3. [RunStatus("succeeded") EXCEPT !.observed = job[j].observed] \in RunRow
    BY <1>1, RunStatusType DEF RunRow, Job
  <2>4. job' \in [Jobs -> Job]
    BY <1>12, <2>2, JobTyped DEF CommitStream
  <2>5. runs' \in [Jobs -> [AllStreams \cup {"login"} -> RunRow]]
    BY <1>2, <1>12, <2>1, <2>3, RowTyped DEF CommitStream
  <2>6. managed' \in [Range(Streams) -> SUBSET Projects]
    BY <1>12, <2>1 DEF CommitStream, TypeOK
  <2> QED BY <1>12, <2>4, <2>5, <2>6 DEF CommitStream, TypeOK
<1>13. CASE EnterReadonly(j)
  <2>1. [job[j] EXCEPT !.pc = "reading", !.todo = Order,
                       !.scope = UNION Range(managed)] \in Job
    BY <1>1, <1>2, JobEdited DEF Phases, Between
  <2> QED BY <1>3, <1>13, <2>1 DEF EnterReadonly
<1>14. CASE AskIdentity(j)
  BY <1>1, <1>3, <1>14, JobEdited DEF AskIdentity
<1>15. CASE ReadList(j)
  <2>1. PICK listing \in Listings :
            Becomes(j, [job[j] EXCEPT !.pc = "listed",
                    !.m = Snapshots(Stream(j), listing, job[j].scope)])
    BY <1>15 DEF ReadList
  <2>2. [job[j] EXCEPT !.pc = "listed",
                       !.m = Snapshots(Stream(j), listing, job[j].scope)] \in Job
    BY <1>1, SnapshotsType, JobEdited DEF Phases, Within
  <2> QED BY <1>3, <1>15, <2>1, <2>2 DEF ReadList
<1>16. CASE Guard(j) \/ ReadPrevious(j)
  <2>1. Rows(j) \in [Docs -> Row(RunIds) \cup {None}]
    BY <1>1, <1>16, StreamUnderWay
       DEF Guard, ReadPrevious, Agenda, Within, Late, Rows, TypeOK
  <2>2. [d \in Docs |-> IF Rows(j)[d] = None THEN None
                        ELSE Rows(j)[d].payload] \in Measurement
    BY <2>1 DEF Measurement, Row
  <2> DEFINE prev == [d \in Docs |-> IF Rows(j)[d] = None THEN None
                                     ELSE Rows(j)[d].payload]
  <2> HIDE DEF prev
  <2>3. /\ [job[j] EXCEPT !.pc = "guarded", !.before = Rows(j)] \in Job
        /\ prev \in Measurement => [job[j] EXCEPT !.pc = "compared", !.prev = prev] \in Job
    BY <1>1, <2>1, JobEdited DEF Phases, Within
  <2> QED BY <1>3, <1>16, <2>2, <2>3 DEF Guard, ReadPrevious, prev
<1>17. CASE ReadFirst(j)
  <2>1. PICK d \in Present(job[j].m), b \in BOOLEAN :
            Becomes(j, [job[j] EXCEPT !.pc = "first_read", !.first = d, !.known = b])
    BY <1>17 DEF ReadFirst
  <2>2. [job[j] EXCEPT !.pc = "first_read", !.first = d, !.known = b] \in Job
    BY <1>1, JobEdited DEF Phases, Within, Present
  <2> QED BY <1>3, <1>17, <2>1, <2>2 DEF ReadFirst
<1>18. CASE CommitModule(j)
  <2>1. /\ Stream(j) \in Modules /\ <<j, Stream(j)>> \in RunIds
        /\ job[j].m \in Measurement /\ job[j].observed \in Nat
        /\ Answered(j, "succeeded") \in Job
    BY <1>1, <1>18, CommitDoes, AnsweredType DEF RunIds, Job
  <2>2. Cardinality(Changed(job[j].m, job[j].prev)) \in Nat
    BY PresentIsFinite DEF Changed
  <2>3. [status |-> "succeeded", observed |-> job[j].observed,
         count |-> Cardinality(Present(job[j].m)),
         inserted |-> Cardinality(New(j)),
         changed |-> Cardinality(Changed(job[j].m, job[j].prev))] \in RunRow
    BY <2>1, <2>2, NewSnapshots, PresentIsFinite DEF RunRow
  <2>4. job' \in [Jobs -> Job]
    BY <1>18, <2>1, CommitDoes, JobTyped
  <2>5. runs' \in [Jobs -> [AllStreams \cup {"login"} -> RunRow]]
    BY <1>2, <1>18, <2>1, <2>3, CommitDoes, RowTyped
  <2>6. history' \subseteq Snapshot(RunIds)
    BY <1>18, <2>1, CommitDoes, NewSnapshots DEF TypeOK
  <2>7. current' \in [Modules -> [Docs -> Row(RunIds) \cup {None}]]
    <3>1. Replaced(<<j, Stream(j)>>, job[j].m, job[j].observed,
                   current[Stream(j)]) \in [Docs -> Row(RunIds) \cup {None}]
      BY <2>1, ReplacedType
    <3>2. current' = [current EXCEPT ![Stream(j)] =
              Replaced(<<j, Stream(j)>>, job[j].m, job[j].observed,
                       current[Stream(j)])]
      BY <1>18, CommitDoes
    <3> QED BY <3>1, <3>2 DEF TypeOK
  <2>8. UNCHANGED <<clock, managed>>
    BY <1>18, CommitDoes
  <2> QED BY <2>4, <2>5, <2>6, <2>7, <2>8 DEF TypeOK
<1>19. CASE ScopeUnread(j)
  <2>1. PICK batch \in Batches :
            Becomes(j, [NoJob EXCEPT !.pc = "done", !.plan = Range(batch),
                                     !.exit = "unread"])
    BY <1>19 DEF ScopeUnread
  <2>2. Range(batch) \subseteq AllStreams /\ "done" \in Phases
    BY BatchIsOneKind DEF Phases
  <2>3. [NoJob EXCEPT !.pc = "done", !.plan = Range(batch), !.exit = "unread"]
            \in Job
    BY <2>2, NoJobType, JobEdited
  <2> QED BY <1>3, <1>19, <2>1, <2>3 DEF ScopeUnread
<1> QED BY <1>5, <1>6, <1>7, <1>8, <1>9, <1>10, <1>11, <1>12, <1>13, <1>14,
           <1>15, <1>16, <1>17, <1>18, <1>19 DEF JobStep, Work

-----------------------------------------------------------------------------
\* What a run carries, and what is stored.

\* A step that is no commit leaves the rows and the history of the modules,
\* and no run row of a module that has succeeded.
LEMMA QuietSteps ==
    ASSUME TypeOK, NEW j \in Jobs, Books(j), JobStep(j), ~CommitModule(j)
    PROVE  /\ UNCHANGED <<current, history>>
           /\ \A s \in Modules :
                 \/ runs'[j][s] = runs[j][s]
                 \/ /\ Status(j, s) # "succeeded"
                    /\ runs'[j][s] \in {RunStatus("running"), RunStatus("failed")}
<1> USE DEF storeVars, At
<1>1. Agenda(j) /\ "login" \notin Modules /\ Range(Streams) \cap Modules = {}
      /\ Modules \subseteq AllStreams /\ Range(Streams) \subseteq AllStreams
  BY WorkspaceAssumption DEF Books, AllStreams
<1>2. CASE runs' = runs /\ UNCHANGED <<current, history>>
  BY <1>2
<1>3. CASE StartLoginRun(j) \/ FailLoginRun(j)
  BY <1>1, <1>3, RowBecomes DEF StartLoginRun, FailLoginRun
<1>4. CASE StartStream(j) \/ StartModule(j)
  <2>1. Stream(j) \in AllStreams /\ Status(j, Stream(j)) # "succeeded"
    BY <1>1, <1>4, StreamUnderWay DEF StartStream, StartModule, Between
  <2> QED BY <1>1, <1>4, <2>1, RowBecomes DEF StartStream, StartModule
<1>5. CASE LoseSession(j) \/ FailStream(j)
  <2>1. Stream(j) \in AllStreams /\ Status(j, Stream(j)) # "succeeded"
    BY <1>1, <1>5, StreamUnderWay DEF LoseSession, FailStream, Within, Agenda
  <2> QED BY <1>1, <1>5, <2>1, RowBecomes DEF LoseSession, FailStream
<1>6. CASE CommitStream(j)
  <2>1. Stream(j) \in Range(Streams)
    BY <1>1, <1>6, StreamUnderWay DEF CommitStream, Within, Agenda, Early
  <2> QED BY <1>1, <1>6, <2>1, RowBecomes DEF CommitStream
<1>7. \/ runs' = runs /\ UNCHANGED <<current, history>>
      \/ StartLoginRun(j) \/ FailLoginRun(j) \/ StartStream(j) \/ StartModule(j)
      \/ LoseSession(j) \/ FailStream(j) \/ CommitStream(j)
  <2>1. BeginTool(j) \/ BeginRequest(j) \/ ScopeUnread(j) \/ Kill(j)
            \/ Login(j) \/ LoginFails(j) \/ LoginUnrecorded(j)
            \/ PortalFails(j) \/ FailUnrecorded(j) \/ RowsUnread(j)
            \/ EnterReadonly(j)
        => runs' = runs /\ UNCHANGED <<current, history>>
    BY DEF BeginTool, BeginRequest, ScopeUnread, Kill, Login, LoginFails,
           LoginUnrecorded, PortalFails, FailUnrecorded, RowsUnread,
           EnterReadonly
  <2>2. AskIdentity(j) \/ ReadList(j) \/ Guard(j) \/ ReadPrevious(j)
            \/ ReadFirst(j) \/ Finish(j) \/ SummaryFails(j)
        => runs' = runs /\ UNCHANGED <<current, history>>
    BY DEF AskIdentity, ReadList, Guard, ReadPrevious, ReadFirst, Finish,
           SummaryFails
  <2> QED BY <2>1, <2>2 DEF JobStep, Work
<1> QED BY <1>2, <1>3, <1>4, <1>5, <1>6, <1>7

LEMMA HistoryGrows ==
    ASSUME TypeOK, NEW j \in Jobs, Books(j), JobStep(j)
    PROVE  history \subseteq history'
BY QuietSteps, CommitDoes

LEMMA OthersCarry ==
    ASSUME NEW j \in Jobs, Own(j), history \subseteq history',
           NEW u \in Jobs \ {j}, Carries(u)
    PROVE  Carries(u)'
BY DEF Own, Carries, Stream, KnownAt

LEMMA StepCarries ==
    ASSUME TypeOK, NEW j \in Jobs, Books(j), Carries(j), JobStep(j)
    PROVE  Carries(j)'
<1> USE DEF storeVars, At, Becomes, Carries, Stream
<1>1. job \in [Jobs -> Job] /\ job[j] \in Job
  BY DEF TypeOK
<1>2. CASE job'[j].pc \notin {"listed", "guarded", "compared", "first_read"}
  BY <1>2
<1>3. CASE ReadList(j)
  <2>1. PICK listing \in Listings :
            /\ AllScoped(Stream(j), listing, job[j].scope)
            /\ job'[j] = [job[j] EXCEPT
                   !.pc = "listed", !.m = Snapshots(Stream(j), listing, job[j].scope)]
    BY <1>1, <1>3 DEF ReadList
  <2> DEFINE m == Snapshots(Stream(j), listing, job[j].scope)
  <2>2. \A d \in Present(m) : d \in Present(listing)
            /\ m[d].scope = Reasons(Stream(j), d, job[j].scope)
    BY DEF Snapshots, Present
  <2>3. /\ job'[j].pc = "listed" /\ job'[j].m = m /\ job'[j].todo = job[j].todo
    BY <1>1, <2>1 DEF Job
  <2> HIDE DEF m
  <2> QED BY <2>1, <2>2, <2>3 DEF AllScoped
<1>4. CASE Guard(j)
  <2>1. /\ job'[j].pc = "guarded" /\ job'[j].m = job[j].m
        /\ job'[j].todo = job[j].todo /\ job'[j].before = Rows(j)
        /\ job'[j].observed = job[j].observed
    BY <1>1, <1>4 DEF Guard, Job
  <2> QED BY <1>4, <2>1 DEF Guard
<1>5. CASE ReadPrevious(j)
  <2>1. /\ job'[j].pc = "compared" /\ job'[j].m = job[j].m
        /\ job'[j].todo = job[j].todo /\ job'[j].before = job[j].before
        /\ job'[j].observed = job[j].observed
    BY <1>1, <1>5 DEF ReadPrevious, Job
  <2> QED BY <1>5, <2>1 DEF ReadPrevious
<1>6. CASE ReadFirst(j)
  <2>1. PICK d \in Present(job[j].m) :
            /\ NoConflict(j, d)
            /\ job'[j] = [job[j] EXCEPT
                   !.pc = "first_read", !.first = d,
                   !.known = KnownAt(Stream(j), d, job[j].observed) # {}]
    BY <1>1, <1>6 DEF ReadFirst
  <2>2. /\ job'[j].pc = "first_read" /\ job'[j].m = job[j].m
        /\ job'[j].todo = job[j].todo /\ job'[j].before = job[j].before
        /\ job'[j].observed = job[j].observed /\ job'[j].first = d
        /\ job'[j].known = (KnownAt(Stream(j), d, job[j].observed) # {})
    BY <1>1, <2>1 DEF Job
  <2>3. history' = history
    BY <1>6 DEF ReadFirst
  <2>4. job'[j].known => \E s \in KnownAt(Stream(j), d, job[j].observed) :
                             s.payload = job[j].m[d]
    BY <2>1, <2>2 DEF NoConflict
  <2> QED BY <1>6, <2>2, <2>3, <2>4 DEF ReadFirst, KnownAt
<1>7. \/ ReadList(j) \/ Guard(j) \/ ReadPrevious(j) \/ ReadFirst(j)
      \/ job'[j].pc \notin {"listed", "guarded", "compared", "first_read"}
  <2>1. BeginTool(j) => job'[j].pc = "login"
    BY <1>1 DEF BeginTool, NoJob
  <2>2. BeginRequest(j) => job'[j].pc \in {"reading", "procuring"}
    BY <1>1 DEF BeginRequest, NoJob
  <2>3. Login(j) => job'[j].pc = "procuring"
    BY <1>1 DEF Login, Job
  <2>4. LoginFails(j) => job'[j].pc = "refused"
    BY <1>1 DEF LoginFails, Job
  <2>5. StartLoginRun(j) => job'[j].pc = "recording"
    BY <1>1 DEF StartLoginRun, Job
  <2>6. EnterReadonly(j) => job'[j].pc = "reading"
    BY <1>1 DEF EnterReadonly, Job
  <2>7. StartStream(j) => job'[j].pc = "measuring"
    BY <1>1 DEF StartStream, Job
  <2>8. StartModule(j) => job'[j].pc = "started"
    BY <1>1 DEF StartModule, Job
  <2>9. AskIdentity(j) => job'[j].pc = "started"
    BY <1>1 DEF AskIdentity, Job
  <2>10. \A a : Answered(j, a).pc \in {"reading", "procuring"}
    BY <1>1 DEF Answered, Job
  <2>11. CommitStream(j) \/ FailStream(j) \/ FailUnrecorded(j) \/ CommitModule(j) =>
            job'[j].pc \in {"reading", "procuring"}
    <3>1. CommitStream(j) \/ CommitModule(j) => job'[j] = Answered(j, "succeeded")
      BY <1>1 DEF CommitStream, CommitModule
    <3>2. FailStream(j) \/ FailUnrecorded(j) => job'[j] = Answered(j, "failed")
      BY <1>1 DEF FailStream, FailUnrecorded
    <3> QED BY <2>10, <3>1, <3>2
  <2>12. FailLoginRun(j) \/ PortalFails(j) \/ LoseSession(j) \/ Finish(j)
            \/ SummaryFails(j) \/ Kill(j) => job'[j].pc \in {"done", "killed"}
    BY <1>1 DEF FailLoginRun, PortalFails, LoseSession, Finish, SummaryFails,
                Kill, Over, NoJob
  <2>13. ScopeUnread(j) \/ LoginUnrecorded(j) \/ RowsUnread(j) =>
             job'[j].pc = "done"
    BY <1>1 DEF ScopeUnread, LoginUnrecorded, RowsUnread, Over, NoJob
  <2> QED BY <2>1, <2>2, <2>3, <2>4, <2>5, <2>6, <2>7, <2>8, <2>9, <2>11, <2>12,
              <2>13
           DEF JobStep, Work
<1> QED BY <1>2, <1>3, <1>4, <1>5, <1>6, <1>7

-----------------------------------------------------------------------------
\* The tables.

\* Only the run row of a run that has not succeeded moves, and not to success.
RunsKeepSuccess ==
    \A r \in RunIds :
        \/ RunOf(r)' = RunOf(r)
        \/ /\ RunOf(r).status # "succeeded"
           /\ RunOf(r)' \in {RunStatus("running"), RunStatus("failed")}

LEMMA QuietRuns ==
    ASSUME TypeOK, NEW j \in Jobs, Books(j), JobStep(j), ~CommitModule(j)
    PROVE  RunsKeepSuccess
<1>1. Own(j)
  BY StepIsOwn
<1>2. ASSUME NEW u \in Jobs, NEW s \in Modules
      PROVE  \/ runs'[u][s] = runs[u][s]
             \/ /\ runs[u][s].status # "succeeded"
                /\ runs'[u][s] \in {RunStatus("running"), RunStatus("failed")}
  BY <1>1, QuietSteps DEF Own, Status
<1> QED BY <1>2 DEF RunsKeepSuccess, RunOf, RunIds

LEMMA KeptTables ==
    ASSUME TypeOK, Tables, UNCHANGED <<current, history>>, RunsKeepSuccess
    PROVE  Tables'
<1>1. \A m \in Modules : \A d \in Present(current[m]) :
          current[m][d].run \in RunIds
  BY DEF TypeOK, Present, Row
<1>2. \A r \in RunIds : RunOf(r).status = "succeeded" => RunOf(r)' = RunOf(r)
  BY DEF RunsKeepSuccess
<1>3. \A m, d, t : KnownAt(m, d, t)' = KnownAt(m, d, t)
  BY DEF KnownAt
<1>4. ModuleIsOneMeasurement'
  <2> SUFFICES ASSUME NEW m \in Modules, NEW d \in Present(current[m])
               PROVE  LET row == current[m][d] IN
                      /\ RunOf(row.run)' = RunOf(row.run)
                      /\ RunOf(row.run).status = "succeeded" /\ row.run[2] = m
                      /\ \A e \in Present(current[m]) : current[m][e].run = row.run
                      /\ Cardinality(Present(current[m])) = RunOf(row.run).count
                      /\ row.seen = RunOf(row.run).observed
                      /\ \E s \in KnownAt(m, d, row.seen) : s.payload = row.payload
    BY <1>3 DEF ModuleIsOneMeasurement, RunOf
  <2> QED BY <1>1, <1>2 DEF Tables, ModuleIsOneMeasurement
<1>5. \A r \in RunIds : RunOf(r)' = RunOf(r) \/
          (RunOf(r)'.inserted = 0 /\ \A s \in history : s.run # r)
  BY DEF Tables, NothingBefore, RunsKeepSuccess, RunStatus
<1>6. RunsAccountForHistory'
  <2>1. ASSUME NEW r \in RunIds
        PROVE  Cardinality({s \in history : s.run = r}) = RunOf(r)'.inserted
    <3>1. CASE RunOf(r)' = RunOf(r)
      BY <3>1 DEF Tables, RunsAccountForHistory
    <3>2. CASE RunOf(r)' # RunOf(r)
      <4>1. {s \in history : s.run = r} = {} /\ RunOf(r)'.inserted = 0
        BY <1>5, <3>2
      <4> QED BY <4>1, FS_EmptySet
    <3> QED BY <3>1, <3>2
  <2>2. \A s, t \in history :
          s.module = t.module /\ s.doc = t.doc /\ s.observed = t.observed => s = t
    BY DEF Tables, RunsAccountForHistory
  <2> QED BY <2>1, <2>2 DEF RunsAccountForHistory, RunIds
<1>7. OnlyPersonalRows'
  BY DEF Tables, OnlyPersonalRows
<1>8. NothingBefore'
  BY <1>5 DEF Tables, NothingBefore, RunIds
<1> QED BY <1>4, <1>6, <1>7, <1>8 DEF Tables

\* The run row of r after the step.
RunAfter(r) == runs'[r[1]][r[2]]

LEMMA CommitTables ==
    ASSUME TypeOK, Tables, NEW j \in Jobs, Books(j), Carries(j), CommitModule(j)
    PROVE  Tables'
<1> PICK S : S = Stream(j)
  OBVIOUS
<1> PICK w : w = job[j]
  OBVIOUS
<1> PICK r : r = <<j, S>>
  OBVIOUS
<1> PICK rows : rows = Replaced(r, w.m, w.observed, current[S])
  OBVIOUS
<1>1. /\ S \in Modules /\ r \in RunIds /\ r[1] = j /\ r[2] = S
      /\ w.m \in Measurement /\ w.observed \in Nat
      /\ S \in AllStreams \cup {"login"}
  BY CommitDoes DEF TypeOK, Job, RunIds, AllStreams
<1>2. RunOf(r).status # "succeeded"
  BY <1>1, CommitDoes, StreamUnderWay
     DEF Books, Agenda, Within, RunOf, Status
<1>3. /\ RunAfter(r).status = "succeeded" /\ RunAfter(r).observed = w.observed
      /\ RunAfter(r).count = Cardinality(Present(w.m))
      /\ RunAfter(r).inserted = Cardinality(New(j))
  <2>1. runs'[j][S] =
            [status |-> "succeeded", observed |-> w.observed,
             count |-> Cardinality(Present(w.m)), inserted |-> Cardinality(New(j)),
             changed |-> Cardinality(Changed(w.m, w.prev))]
    BY <1>1, CommitDoes, RowBecomes
  <2> QED BY <1>1, <2>1 DEF RunAfter
<1>4. \A q \in RunIds : q # r => RunAfter(q) = RunOf(q)
  <2> SUFFICES ASSUME NEW u \in Jobs, NEW s \in Modules, <<u, s>> # r
               PROVE  runs'[u][s] = runs[u][s]
    BY DEF RunIds, RunOf, RunAfter
  <2>1. CASE u = j
    <3>1. s # S /\ s \in AllStreams \cup {"login"}
      BY <2>1 DEF AllStreams
    <3>2. PICK row : RunBecomes(j, S, row)
      BY CommitDoes
    <3> QED BY <1>1, <2>1, <3>1, <3>2, RowBecomes
  <2>2. CASE u # j
    BY <2>2, StepIsOwn DEF Own, JobStep, Work
  <2> QED BY <2>1, <2>2
<1>5. /\ \A s \in history : s.run # r
      /\ \A m \in Modules : \A d \in Present(current[m]) :
            current[m][d].run \in RunIds /\ current[m][d].run # r
  <2>1. \A s \in history : s.run # r
    BY <1>1, <1>2 DEF Tables, NothingBefore
  <2>2. \A m \in Modules : \A d \in Present(current[m]) :
            current[m][d].run \in RunIds /\ current[m][d].run # r
    <3> SUFFICES ASSUME NEW m \in Modules, NEW d \in Present(current[m])
                 PROVE  current[m][d].run \in RunIds /\ current[m][d].run # r
      OBVIOUS
    <3>1. current[m][d] \in Row(RunIds)
      BY DEF TypeOK, Present
    <3>2. RunOf(current[m][d].run).status = "succeeded"
      BY DEF Tables, ModuleIsOneMeasurement
    <3> QED BY <1>2, <3>1, <3>2 DEF Row
  <2> QED BY <2>1, <2>2
<1>6. /\ history' = history \cup New(j) /\ current'[S] = rows
      /\ \A m \in Modules : m # S => current'[m] = current[m]
  BY <1>1, CommitDoes DEF TypeOK
<1>7. /\ Present(rows) = Present(w.m)
      /\ \A d \in Present(rows) : /\ rows[d].payload = w.m[d]
                                  /\ rows[d].seen = w.observed
                                  /\ rows[d].run = r
  <2>1. \A d \in Docs : w.m[d] # None =>
            [payload |-> w.m[d], seen |-> w.observed, run |-> r] # None
    BY <1>1, RowAssumption DEF Row, Measurement
  <2> QED BY <2>1 DEF Present, Replaced
<1>8. \A s \in New(j) : /\ s.module = S /\ s.observed = w.observed /\ s.run = r
                        /\ s.doc \in Present(w.m) /\ s.payload = w.m[s.doc]
  BY <1>1, NewSnapshots
<1>9. ASSUME NEW d \in Present(w.m)
      PROVE  \E s \in history' : /\ s.module = S /\ s.doc = d
                                 /\ s.observed = w.observed
                                 /\ s.payload = w.m[d]
  <2> DEFINE x == [module |-> S, doc |-> d, observed |-> w.observed,
                   run |-> r, payload |-> w.m[d]]
  <2>1. w.pc = "first_read" /\ w.first \in Present(w.m)
    BY CommitDoes DEF Carries
  <2>2. CASE d = w.first /\ w.known
    <3>1. \E s \in KnownAt(S, d, w.observed) : s.payload = w.m[d]
      BY <2>1, <2>2 DEF Carries
    <3> QED BY <1>6, <3>1 DEF KnownAt
  <2>3. CASE d # w.first /\ KnownAt(S, d, w.observed) # {}
    <3>1. NoConflict(j, d)
      BY <2>3, CommitDoes
    <3> QED BY <1>6, <2>3, <3>1 DEF KnownAt, NoConflict
  <2>4. CASE IF d = w.first THEN ~w.known ELSE KnownAt(S, d, w.observed) = {}
    <3>1. x \in New(j)
      BY <2>4 DEF New
    <3> QED BY <1>6, <3>1
  <2> QED BY <2>2, <2>3, <2>4
<1>10. ModuleIsOneMeasurement'
  <2> SUFFICES ASSUME NEW m \in Modules, NEW d \in Present(current'[m])
               PROVE  LET row == current'[m][d] IN
                      /\ RunAfter(row.run).status = "succeeded" /\ row.run[2] = m
                      /\ \A e \in Present(current'[m]) : current'[m][e].run = row.run
                      /\ Cardinality(Present(current'[m])) = RunAfter(row.run).count
                      /\ row.seen = RunAfter(row.run).observed
                      /\ \E s \in history' :
                            /\ s.module = m /\ s.doc = d /\ s.observed = row.seen
                            /\ s.payload = row.payload
    BY DEF ModuleIsOneMeasurement, RunOf, RunAfter, KnownAt
  <2>1. CASE m = S
    <3>1. current'[m] = rows
      BY <1>6, <2>1
    <3>2. d \in Present(rows) /\ Present(current'[m]) = Present(rows)
      BY <3>1
    <3>3. /\ d \in Present(w.m) /\ Present(current'[m]) = Present(w.m)
          /\ current'[m][d].payload = w.m[d]
          /\ current'[m][d].seen = w.observed
      BY <1>7, <3>1, <3>2
    <3>4. \A e \in Present(current'[m]) : current'[m][e].run = r
      BY <1>7, <3>1, <3>2
    <3> QED BY <1>1, <1>3, <1>9, <2>1, <3>3, <3>4
  <2>2. CASE m # S
    <3>1. current'[m] = current[m] /\ d \in Present(current[m])
      BY <1>6, <2>2
    <3>2. RunAfter(current[m][d].run) = RunOf(current[m][d].run)
      BY <1>4, <1>5, <3>1
    <3>3. \E s \in history : /\ s.module = m /\ s.doc = d
                             /\ s.observed = current[m][d].seen
                             /\ s.payload = current[m][d].payload
      BY <3>1 DEF Tables, ModuleIsOneMeasurement, KnownAt
    <3> QED BY <1>6, <3>1, <3>2, <3>3 DEF Tables, ModuleIsOneMeasurement
  <2> QED BY <2>1, <2>2
<1>11. RunsAccountForHistory'
  <2>1. ASSUME NEW q \in RunIds
        PROVE  Cardinality({s \in history' : s.run = q}) = RunAfter(q).inserted
    <3>1. CASE q = r
      <4>1. {s \in history' : s.run = q} = New(j)
        BY <1>5, <1>6, <1>8, <3>1
      <4> QED BY <1>3, <3>1, <4>1
    <3>2. CASE q # r
      <4>1. {s \in history' : s.run = q} = {s \in history : s.run = q}
        BY <1>6, <1>8, <3>2
      <4> QED BY <1>4, <3>2, <4>1 DEF Tables, RunsAccountForHistory
    <3> QED BY <3>1, <3>2
  <2>2. ASSUME NEW s \in history', NEW t \in history',
               s.module = t.module, s.doc = t.doc, s.observed = t.observed
        PROVE  s = t
    <3>1. CASE s \in history /\ t \in history
      BY <2>2, <3>1 DEF Tables, RunsAccountForHistory
    <3>2. CASE s \in New(j) /\ t \in New(j)
      BY <1>1, <2>2, <3>2, NewSnapshots
    <3>3. \A x \in New(j), y \in history :
             ~(x.module = y.module /\ x.doc = y.doc /\ x.observed = y.observed)
      BY CommitDoes DEF Unique, KnownAt
    <3> QED BY <1>6, <2>2, <3>1, <3>2, <3>3
  <2> QED BY <2>1, <2>2 DEF RunsAccountForHistory, RunIds, RunOf, RunAfter
<1>12. OnlyPersonalRows'
  <2> SUFFICES ASSUME NEW m \in ByIdentity, NEW d \in Present(current'[m])
               PROVE  current'[m][d].payload.scope # {}
    BY DEF OnlyPersonalRows
  <2>1. m \in Modules
    BY ReadonlyAssumption
  <2>2. CASE m = S
    <3>1. d \in Present(w.m) /\ current'[m][d].payload = w.m[d]
      <4>1. current'[m] = rows
        BY <1>6, <2>2
      <4>2. d \in Present(rows)
        BY <4>1
      <4>3. d \in Present(w.m) /\ rows[d].payload = w.m[d]
        BY <1>7, <4>2
      <4> QED BY <4>1, <4>3
    <3>2. w.m[d].scope # {}
      BY <2>2, <3>1, CommitDoes DEF Carries
    <3> QED BY <3>1, <3>2
  <2>3. CASE m # S
    BY <1>6, <2>1, <2>3 DEF Tables, OnlyPersonalRows
  <2> QED BY <2>2, <2>3
<1>13. NothingBefore'
  BY <1>3, <1>4, <1>6, <1>8 DEF Tables, NothingBefore, RunIds, RunOf, RunAfter
<1> QED BY <1>10, <1>11, <1>12, <1>13 DEF Tables

-----------------------------------------------------------------------------
\* The inductive invariant.

LEMMA InitHolds == Init => IInv
<1> SUFFICES ASSUME Init
             PROVE  IInv
  OBVIOUS
<1> USE DEF Init
<1>1. TypeOK
  <2>1. RunStatus("none") \in RunRow
    BY RunStatusType
  <2>2. clock \in 0..MaxClock
    BY WorkspaceAssumption
  <2> QED BY <2>1, <2>2, NoDocsType, NoJobType DEF TypeOK
<1>2. \A m \in Modules : Present(current[m]) = {}
  BY DEF Present, NoDocs
<1>3. \A r \in RunIds : RunOf(r).status = "none" /\ RunOf(r).inserted = 0
  BY DEF RunIds, RunOf, RunStatus, AllStreams
<1>4. Tables
  <2>1. \A r : {s \in history : s.run = r} = {}
    OBVIOUS
  <2>2. RunsAccountForHistory
    BY <1>3, <2>1, FS_EmptySet DEF RunsAccountForHistory
  <2>3. ModuleIsOneMeasurement /\ OnlyPersonalRows
    BY <1>2, ReadonlyAssumption DEF ModuleIsOneMeasurement, OnlyPersonalRows
  <2> QED BY <1>3, <2>2, <2>3 DEF Tables, NothingBefore
<1>5. ASSUME NEW j \in Jobs
      PROVE  Books(j) /\ Carries(j)
  <2>1. /\ job[j] = NoJob /\ job[j].pc = "idle" /\ job[j].todo = <<>>
        /\ job[j].plan = {} /\ job[j].exit = "none"
        /\ \A s \in AllStreams : job[j].summary[s] = "none"
    BY DEF NoJob
  <2>2. \A s \in AllStreams : Status(j, s) = "none"
    BY DEF Status, RunStatus
  <2>3. IsInjective(<<>>) /\ Range(<<>>) = {}
    BY DEF IsInjective, Range
  <2>4. "idle" \notin Early \cup Late \cup Within
    BY DEF Early, Late, Within
  <2>5. Agenda(j)
    BY <2>1, <2>2, <2>3, <2>4 DEF Agenda, Todo
  <2>6. ModulesWait(j) /\ Answers(j) /\ RunsAreOver(j)
    BY <2>1, <2>2, <2>4 DEF ModulesWait, Answers, RunsAreOver
  <2>7. Carries(j)
    BY <2>1 DEF Carries
  <2> QED BY <2>5, <2>6, <2>7 DEF Books
<1> QED BY <1>1, <1>4, <1>5 DEF IInv

LEMMA IdleStepHolds ==
    ASSUME IInv, UNCHANGED <<storeVars, job>>, clock' = clock \/ Tick
    PROVE  IInv'
<1> USE DEF storeVars
<1>1. TypeOK'
  <2>1. clock' \in 0..MaxClock
    BY WorkspaceAssumption DEF IInv, TypeOK, Tick
  <2> QED BY <2>1 DEF IInv, TypeOK
<1>2. RunsKeepSuccess
  BY DEF RunsKeepSuccess, RunOf
<1>3. Tables'
  BY <1>2, KeptTables DEF IInv
<1>4. ASSUME NEW j \in Jobs
      PROVE  Books(j)' /\ Carries(j)'
  <2>1. Books(j)'
    BY DEF IInv, Books, Agenda, ModulesWait, Answers, RunsAreOver, Todo,
           Status, Stream
  <2>2. Carries(j)'
    BY DEF IInv, Carries, Stream, KnownAt
  <2> QED BY <2>1, <2>2
<1> QED BY <1>1, <1>3, <1>4 DEF IInv

LEMMA StepHolds == IInv /\ [Next]_vars => IInv'
<1> SUFFICES ASSUME IInv, [Next]_vars
             PROVE  IInv'
  OBVIOUS
<1>1. CASE Tick
  BY <1>1, IdleStepHolds DEF Tick
<1>2. CASE UNCHANGED vars
  BY <1>2, IdleStepHolds DEF vars
<1>3. ASSUME NEW j \in Jobs, JobStep(j)
      PROVE  IInv'
  <2>1. TypeOK /\ Tables /\ Books(j) /\ Carries(j) /\ Own(j)
    BY <1>3, StepIsOwn DEF IInv
  <2>2. TypeOK' /\ history \subseteq history'
    BY <1>3, <2>1, StepTyped, HistoryGrows
  <2>3. Tables'
    <3>1. CASE CommitModule(j)
      BY <2>1, <3>1, CommitTables
    <3>2. CASE ~CommitModule(j)
      BY <1>3, <2>1, <3>2, QuietSteps, QuietRuns, KeptTables
    <3> QED BY <3>1, <3>2
  <2>4. Books(j)' /\ Carries(j)'
    BY <1>3, <2>1, StepBooks, StepCarries
  <2>5. \A u \in Jobs \ {j} : Books(u)' /\ Carries(u)'
    BY <2>1, <2>2, OthersBooks, OthersCarry DEF IInv
  <2> QED BY <2>2, <2>3, <2>4, <2>5 DEF IInv
<1> QED BY <1>1, <1>2, <1>3 DEF Next, JobStep

LEMMA Invariance == Spec => []IInv
BY InitHolds, StepHolds, PTL DEF Spec

-----------------------------------------------------------------------------
\* Tables and jobs hold values of their types.
THEOREM TypesHold == Spec => []TypeOK
<1>1. IInv => TypeOK
  BY DEF IInv
<1> QED BY <1>1, Invariance, PTL

\* The rows of a module are always the complete measurement of one run that
\* succeeded, and history holds each of them: complete_readonly_run, whose
\* checks run outside its transaction, under any number of overlapping jobs.
THEOREM OneMeasurement == Spec => []ModuleIsOneMeasurement
<1>1. IInv => ModuleIsOneMeasurement
  BY DEF IInv, Tables
<1> QED BY <1>1, Invariance, PTL

\* Each run row counts the snapshots that carry its id, and no document has
\* two snapshots of one time.
THEOREM HistoryIsAccountedFor == Spec => []RunsAccountForHistory
<1>1. IInv => RunsAccountForHistory
  BY DEF IInv, Tables
<1> QED BY <1>1, Invariance, PTL

\* What is stored of a list that was asked for by the user's name belongs to
\* the user: the scope found when the list was read is the one committed.
THEOREM RowsArePersonal == Spec => []OnlyPersonalRows
<1>1. IInv => OnlyPersonalRows
  BY DEF IInv, Tables
<1> QED BY <1>1, Invariance, PTL

\* What a job tells its caller is what its run rows say, and no run of a job
\* that ended by itself says that it is running but those whose failure could
\* not be recorded.
THEOREM SummaryIsTrue == Spec => []SummaryTellsRuns
<1>1. IInv => SummaryTellsRuns
  BY DEF IInv, Books, Answers, RunsAreOver, SummaryTellsRuns, Status
<1> QED BY <1>1, Invariance, PTL

\* A job that got to its end has an answer for every stream of its plan; one
\* that could not read the rows has one for every procurement stream; that
\* one and one that lost its session have begun no read-only module.
THEOREM EveryStreamIsTried == Spec => []NothingSkipped
<1>1. IInv => NothingSkipped
  BY DEF IInv, Books, Answers, NothingSkipped, Status
<1> QED BY <1>1, Invariance, PTL

\* A row that is newer than the measurement that replaces it was written by
\* another run after the guard was read.
THEOREM GuardHolds == Spec => NeverAnOlderMeasurement
<1>1. ASSUME IInv, NEW j \in Jobs, CommitModule(j), NEW d \in Present(Rows(j)),
             Rows(j)[d].seen > job[j].observed
      PROVE  Rows(j)[d] # job[j].before[d]
  <2> SUFFICES ASSUME Rows(j)[d] = job[j].before[d]
               PROVE  FALSE
    OBVIOUS
  <2>1. /\ Books(j) /\ Carries(j) /\ TypeOK
        /\ job[j].pc \in {"compared", "first_read"}
    BY <1>1, CommitDoes DEF IInv
  <2>2. Stream(j) \in Modules
    BY <1>1, <2>1, CommitDoes
  <2>3. d \in Present(job[j].before)
    BY DEF Present
  <2>4. job[j].before[d].seen <= job[j].observed
    BY <2>1, <2>3 DEF Carries
  <2>5. /\ job[j].before[d] \in Row(RunIds) /\ job[j] \in Job
    BY <2>1, <2>3 DEF TypeOK, Job, Present
  <2>6. job[j].before[d].seen \in Nat /\ job[j].observed \in Nat
    BY <2>5 DEF Job, Row
  <2> QED BY <1>1, <2>4, <2>6
<1>2. IInv /\ [Next]_vars =>
          [\A j \in Jobs : CommitModule(j) =>
              \A d \in Present(Rows(j)) :
                  Rows(j)[d].seen > job[j].observed =>
                      Rows(j)[d] # job[j].before[d]]_vars
  BY <1>1
<1> QED BY <1>2, Invariance, PTL DEF Spec, NeverAnOlderMeasurement

\* changed_count is the number of documents that look different after the
\* run, unless another run changed them after they were read.
THEOREM ChangedIsCounted == Spec => ChangesCounted
<1>1. ASSUME IInv, NEW j \in Jobs, CommitModule(j),
             job[j].prev = Payloads(Rows(j))
      PROVE  runs'[j][Stream(j)].changed =
                Cardinality({d \in Docs : Payloads(current[Stream(j)])[d] #
                                          Payloads(current'[Stream(j)])[d]})
  <2>1. Books(j) /\ TypeOK
    BY <1>1 DEF IInv
  <2> PICK S : S = Stream(j)
    OBVIOUS
  <2> PICK m : m = job[j].m
    OBVIOUS
  <2> PICK prev : prev = job[j].prev
    OBVIOUS
  <2>2. /\ S \in Modules /\ <<j, S>> \in RunIds
        /\ m \in Measurement /\ job[j].observed \in Nat
    BY <1>1, <2>1, CommitDoes DEF TypeOK, Job, RunIds
  <2>3. current'[S] = Replaced(<<j, S>>, m, job[j].observed, current[S])
    BY <1>1, <2>1, <2>2, CommitDoes DEF TypeOK
  <2>4. \A d \in Docs : m[d] # None =>
            [payload |-> m[d], seen |-> job[j].observed, run |-> <<j, S>>] # None
    BY <2>2, RowAssumption DEF Row, Measurement
  <2>5. \A d \in Docs : Payloads(current'[S])[d] = m[d]
    BY <2>3, <2>4 DEF Payloads, Replaced
  <2>6. runs'[j][S].changed = Cardinality(Changed(m, prev))
    <3>1. S \in AllStreams \cup {"login"}
      BY <2>2 DEF AllStreams
    <3>2. PICK row : row = [status |-> "succeeded", observed |-> job[j].observed,
                            count |-> Cardinality(Present(job[j].m)),
                            inserted |-> Cardinality(New(j)),
                            changed |-> Cardinality(Changed(m, prev))]
      OBVIOUS
    <3>3. RunBecomes(j, S, row)
      BY <1>1, <2>1, <3>2, CommitDoes
    <3> QED BY <2>1, <3>1, <3>2, <3>3, RowBecomes
  <2>7. {d \in Docs : Payloads(current[S])[d] # Payloads(current'[S])[d]} =
            Changed(m, prev)
    BY <1>1, <2>5 DEF Changed, Rows
  <2> QED BY <2>6, <2>7
<1>2. IInv /\ [Next]_vars =>
          [\A j \in Jobs : CommitModule(j) =>
              \/ job[j].prev # Payloads(Rows(j))
              \/ runs'[j][Stream(j)].changed =
                    Cardinality({d \in Docs : Payloads(current[Stream(j)])[d] #
                                              Payloads(current'[Stream(j)])[d]})]_vars
  BY <1>1
<1> QED BY <1>2, Invariance, PTL DEF Spec, ChangesCounted


-----------------------------------------------------------------------------
(***************************************************************************)
(* What JobsEnd rests on besides fairness: nothing is tried twice.         *)
(***************************************************************************)

\* The steps that the stream under way may still take, seven at most.
Stage(j) ==
    CASE At(j, "reading")    -> 7
      [] At(j, "started")    -> IF job[j].identity = "unasked" THEN 6 ELSE 5
      [] At(j, "login")      -> 5
      [] At(j, "listed")     -> 4
      [] At(j, "procuring")  -> 4
      [] At(j, "guarded")    -> 3
      [] At(j, "compared")   -> 2
      [] At(j, "refused")    -> 2
      [] At(j, "first_read") -> 1
      [] At(j, "measuring")  -> 1
      [] At(j, "recording")  -> 1
      [] OTHER               -> 0

\* The read-only batch of a tool is not yet among the streams to come.
BatchToCome(j) ==
    IF job[j].pc \in {"login", "procuring", "measuring"} /\ j \in Tools
    THEN 8 * Len(Order) + 8 ELSE 0

\* The steps a job may still take, its death counted as one.
StepsLeft(j) == Stage(j) + 8 * Len(job[j].todo) + BatchToCome(j)


\* Seven steps of one stream weigh less than a stream.
LEMMA Weights ==
    ASSUME NEW a \in 0..7, NEW b \in Nat, NEW n \in Nat
    PROVE  /\ a + 8 * n + b \in Nat
           /\ a > 0 => 0 < a + 8 * n + b
           /\ \A c \in 0..7 : a > 0 /\ n > 0 =>
                 c + 8 * (n - 1) + b < a + 8 * n + b
           /\ \A c \in Nat : c < a =>
                 /\ c + 8 * n + b < a + 8 * n + b
                 /\ c + 8 * n + 0 < a + 8 * n + b
OBVIOUS

\* The parts of the measure are numbers.
LEMMA LeftIsNat ==
    ASSUME TypeOK, NEW j \in Jobs
    PROVE  /\ Len(job[j].todo) \in Nat /\ Len(Order) \in Nat
           /\ Stage(j) \in 0..7 /\ BatchToCome(j) \in Nat
           /\ StepsLeft(j) \in Nat
           /\ job[j].pc \in Early \cup Late => Stage(j) > 0
<1>1. job[j] \in Job /\ Len(job[j].todo) \in Nat
  BY DEF TypeOK, Job
<1>2. Len(Order) \in Nat
  BY WorkspaceAssumption
<1>3. Stage(j) \in 0..7
  BY DEF Stage
<1>4. BatchToCome(j) \in Nat
  BY <1>2 DEF BatchToCome
<1>5. job[j].pc \in Early \cup Late => Stage(j) > 0
  BY DEF Stage, At, Early, Late
<1>6. StepsLeft(j) \in Nat
  BY <1>1, <1>3, <1>4, Weights DEF StepsLeft
<1> QED BY <1>1, <1>2, <1>3, <1>4, <1>5, <1>6

\* A step that answers for a stream takes it off the list.
LEMMA AnsweredIsLess ==
    ASSUME TypeOK, TypeOK', NEW j \in Jobs, Agenda(j),
           NEW a \in {"succeeded", "failed"},
           job[j].pc \in Within \cup Between, job[j].todo # <<>>,
           job'[j] = Answered(j, a)
    PROVE  StepsLeft(j)' < StepsLeft(j)
<1>1. job[j] \in Job
  BY DEF TypeOK
<1>2. /\ job'[j].pc = IF Stream(j) \in Modules THEN "reading" ELSE "procuring"
      /\ job'[j].todo = Tail(job[j].todo)
  BY <1>1 DEF Answered, Job
<1>3. /\ job[j].todo \in Seq(AllStreams)
      /\ Len(job'[j].todo) = Len(job[j].todo) - 1 /\ Len(job[j].todo) > 0
  BY <1>1, <1>2 DEF Job
<1>4. /\ job[j].pc \in {"procuring", "measuring"} => job'[j].pc = "procuring"
      /\ job[j].pc \notin {"procuring", "measuring"} => job'[j].pc = "reading"
  <2>1. /\ {"procuring", "measuring"} \subseteq Early
        /\ job[j].pc \notin {"procuring", "measuring"} => job[j].pc \in Late
    BY DEF Within, Between, Early, Late
  <2> QED BY <1>2, <2>1, StreamUnderWay, WorkspaceAssumption
<1>5. BatchToCome(j)' = BatchToCome(j)
  BY <1>4 DEF BatchToCome, Within, Between
<1>6. /\ Stage(j)' \in 0..7 /\ Stage(j) \in 0..7 /\ BatchToCome(j) \in Nat
      /\ Len(job[j].todo) \in Nat /\ Stage(j) > 0
  <2>1. job[j].pc \in Early \cup Late
    BY DEF Within, Between, Early, Late
  <2>2. Stage(j)' \in 0..7
    BY DEF Stage
  <2> QED BY <2>1, <2>2, LeftIsNat
<1>7. StepsLeft(j)' = Stage(j)' + 8 * Len(job'[j].todo) + BatchToCome(j)
  BY <1>5 DEF StepsLeft
<1> QED BY <1>3, <1>6, <1>7, Weights DEF StepsLeft

\* A step that ends the job leaves it nothing.
LEMMA OverIsLess ==
    ASSUME TypeOK, NEW j \in Jobs, job[j].pc \in Early \cup Late,
           NEW phase \in {"done", "killed"}, NEW exit,
           job'[j] = Over(j, phase, exit)
    PROVE  StepsLeft(j)' < StepsLeft(j)
<1>1. job'[j].pc = phase /\ job'[j].todo = <<>>
  BY DEF Over, NoJob
<1>2. Stage(j)' = 0 /\ BatchToCome(j)' = 0 /\ Len(job'[j].todo) = 0
  BY <1>1 DEF Stage, At, BatchToCome
<1>3. StepsLeft(j)' = 0
  BY <1>2 DEF StepsLeft
<1>4. /\ Stage(j) \in 0..7 /\ Stage(j) > 0 /\ BatchToCome(j) \in Nat
      /\ Len(job[j].todo) \in Nat
  BY LeftIsNat
<1> QED BY <1>3, <1>4, Weights DEF StepsLeft

\* A step within the stream under way brings it nearer to its answer.
LEMMA WorkIsLess ==
    ASSUME TypeOK, NEW j \in Jobs, job'[j].todo = job[j].todo,
           Stage(j)' < Stage(j), Stage(j)' \in Nat,
           \/ BatchToCome(j)' = BatchToCome(j)
           \/ BatchToCome(j)' = 0
    PROVE  StepsLeft(j)' < StepsLeft(j)
<1>1. /\ Stage(j) \in 0..7 /\ BatchToCome(j) \in Nat
      /\ Len(job[j].todo) \in Nat
  BY LeftIsNat
<1>2. StepsLeft(j)' = Stage(j)' + 8 * Len(job[j].todo) + BatchToCome(j)'
  BY DEF StepsLeft
<1> QED BY <1>1, <1>2, Weights DEF StepsLeft

LEMMA StepIsLess ==
    ASSUME TypeOK, TypeOK', NEW j \in Jobs, Agenda(j), Work(j) \/ Kill(j)
    PROVE  ~At(j, "idle") /\ StepsLeft(j)' < StepsLeft(j)
<1> USE DEF Becomes, At
<1>1. job \in [Jobs -> Job] /\ job[j] \in Job
  BY DEF TypeOK
<1>2. CASE Login(j) \/ LoginFails(j) \/ StartLoginRun(j)
  <2>1. /\ job[j].pc \in {"login", "refused"}
        /\ job'[j].todo = job[j].todo
        /\ \/ job[j].pc = "login" /\ job'[j].pc \in {"procuring", "refused"}
           \/ job[j].pc = "refused" /\ job'[j].pc = "recording"
    <3>1. CASE Login(j)
      BY <1>1, <3>1 DEF Login, Job
    <3>2. CASE LoginFails(j)
      BY <1>1, <3>2 DEF LoginFails, Job
    <3>3. CASE StartLoginRun(j)
      BY <1>1, <3>3 DEF StartLoginRun, Job
    <3> QED BY <1>2, <3>1, <3>2, <3>3
  <2>2. Stage(j)' < Stage(j) /\ Stage(j)' \in Nat
    BY <2>1 DEF Stage
  <2>3. BatchToCome(j)' = BatchToCome(j) \/ BatchToCome(j)' = 0
    BY <2>1 DEF BatchToCome
  <2> QED BY <2>1, <2>2, <2>3, WorkIsLess
<1>3. CASE FailLoginRun(j) \/ LoginUnrecorded(j) \/ PortalFails(j)
           \/ LoseSession(j) \/ RowsUnread(j) \/ Finish(j) \/ SummaryFails(j)
           \/ Kill(j)
  <2>1. \E phase \in {"done", "killed"},
           exit \in {"none", "ok", "error", "lost", "unread"} :
            job'[j] = Over(j, phase, exit)
    BY <1>1, <1>3 DEF FailLoginRun, LoginUnrecorded, PortalFails, LoseSession,
                      RowsUnread, Finish, SummaryFails, Kill
  <2>2. job[j].pc \in Early \cup Late
    BY <1>1, <1>3 DEF FailLoginRun, LoginUnrecorded, PortalFails, LoseSession,
                      RowsUnread, Finish, SummaryFails, Kill, Job, Phases, Between, Within, Early,
                      Late
  <2> QED BY <2>1, <2>2, OverIsLess DEF Early, Late
<1>4. CASE CommitStream(j) \/ FailStream(j) \/ FailUnrecorded(j)
           \/ CommitModule(j)
  <2>1. job[j].pc \in Within \cup Between
    BY <1>4 DEF CommitStream, FailStream, FailUnrecorded, CommitModule, Within,
                Between
  <2>2. job[j].todo # <<>>
    BY <1>4 DEF CommitStream, FailStream, FailUnrecorded, CommitModule, Within,
                Agenda
  <2>3. \E a \in {"succeeded", "failed"} : job'[j] = Answered(j, a)
    BY <1>1, <1>4 DEF CommitStream, FailStream, FailUnrecorded, CommitModule
  <2> QED BY <2>1, <2>2, <2>3, AnsweredIsLess DEF Within, Between
<1>5. CASE EnterReadonly(j)
  <2>1. /\ job[j].pc = "procuring" /\ job[j].todo = <<>> /\ j \in Tools
        /\ job'[j].pc = "reading" /\ job'[j].todo = Order
    BY <1>1, <1>5 DEF EnterReadonly, Job
  <2>2. /\ Stage(j) = 4 /\ Stage(j)' = 7 /\ Len(job[j].todo) = 0
        /\ BatchToCome(j) = 8 * Len(Order) + 8 /\ BatchToCome(j)' = 0
    BY <2>1 DEF Stage, BatchToCome
  <2>3. Len(Order) \in Nat
    BY WorkspaceAssumption
  <2>4. StepsLeft(j)' = 7 + 8 * Len(Order)
    BY <2>1, <2>2, <2>3 DEF StepsLeft
  <2> QED BY <2>1, <2>2, <2>3, <2>4 DEF StepsLeft
<1>6. CASE StartStream(j) \/ StartModule(j) \/ AskIdentity(j) \/ ReadList(j)
           \/ Guard(j) \/ ReadPrevious(j) \/ ReadFirst(j)
  <2>2. /\ job'[j].todo = job[j].todo
        /\ \/ job[j].pc = "procuring" /\ job'[j].pc = "measuring"
           \/ job[j].pc = "reading" /\ job'[j].pc = "started"
           \/ /\ job[j].pc = "started" /\ job'[j].pc = "started"
              /\ job[j].identity = "unasked" /\ job'[j].identity # "unasked"
           \/ job[j].pc = "started" /\ job'[j].pc = "listed"
           \/ job[j].pc = "listed" /\ job'[j].pc = "guarded"
           \/ job[j].pc = "guarded" /\ job'[j].pc = "compared"
           \/ job[j].pc = "compared" /\ job'[j].pc = "first_read"
    <3>1. CASE StartStream(j)
      BY <1>1, <3>1 DEF StartStream, Job
    <3>2. CASE StartModule(j)
      BY <1>1, <3>2 DEF StartModule, Job
    <3>3. CASE AskIdentity(j)
      BY <1>1, <3>3 DEF AskIdentity, Job
    <3>4. CASE ReadList(j)
      BY <1>1, <3>4 DEF ReadList, Job
    <3>5. CASE Guard(j)
      BY <1>1, <3>5 DEF Guard, Job
    <3>6. CASE ReadPrevious(j)
      BY <1>1, <3>6 DEF ReadPrevious, Job
    <3>7. CASE ReadFirst(j)
      BY <1>1, <3>7 DEF ReadFirst, Job
    <3> QED BY <1>6, <3>1, <3>2, <3>3, <3>4, <3>5, <3>6, <3>7
  <2>3. Stage(j)' < Stage(j) /\ Stage(j)' \in Nat
    BY <2>2 DEF Stage
  <2>4. BatchToCome(j)' = BatchToCome(j)
    BY <2>2 DEF BatchToCome
  <2>5. job[j].pc # "idle"
    BY <2>2
  <2> QED BY <2>2, <2>3, <2>4, <2>5, WorkIsLess
<1> QED BY <1>2, <1>3, <1>4, <1>5, <1>6 DEF Work

\* No job goes back: once it has begun, whatever it does, its death included,
\* leaves it fewer steps to take, and no step of another job gives it more.
\* A stream that failed is not tried again, and a batch is not extended.
THEOREM JobsAreShort ==
    Spec => [][\A j \in Jobs : ~At(j, "idle") /\ job'[j] # job[j] =>
                  /\ StepsLeft(j) \in Nat
                  /\ StepsLeft(j)' < StepsLeft(j)]_vars
<1> DEFINE Less(j) == /\ StepsLeft(j) \in Nat
                      /\ StepsLeft(j)' < StepsLeft(j)
<1>1. ASSUME IInv, IInv', [Next]_vars, NEW j \in Jobs, ~At(j, "idle"),
             job'[j] # job[j]
      PROVE  Less(j)
  <2>1. TypeOK /\ TypeOK' /\ Agenda(j)
    BY <1>1 DEF IInv, Books
  <2>2. PICK u \in Jobs : JobStep(u)
    BY <1>1 DEF Next, JobStep, Tick, vars
  <2>3. u = j
    BY <1>1, <2>1, <2>2, StepIsOwn DEF Own
  <2>4. Work(j) \/ Kill(j)
    BY <1>1, <2>2, <2>3 DEF JobStep, BeginTool, BeginRequest, ScopeUnread
  <2> QED BY <2>1, <2>4, LeftIsNat, StepIsLess
<1> HIDE DEF Less
<1>2. IInv /\ IInv' /\ [Next]_vars =>
          [\A j \in Jobs : ~At(j, "idle") /\ job'[j] # job[j] => Less(j)]_vars
  BY <1>1
<1>3. Spec => [][\A j \in Jobs : ~At(j, "idle") /\ job'[j] # job[j] =>
                    Less(j)]_vars
  BY <1>2, Invariance, PTL DEF Spec
<1> QED BY <1>3 DEF Less
=============================================================================
