------------------------- MODULE DraftReview_proofs -------------------------
(***************************************************************************)
(* Proofs about DraftReview for any number of reviewers and fields and any *)
(* bound on the version.                                                   *)
(*                                                                         *)
(* The argument rests on what an unchanged version vouches for.  Every     *)
(* commit raises the version and appends the event of that number, so that *)
(* version counts the events; hence a handler whose version is still the   *)
(* stored one remembers what is still stored (MemoryIsFresh).  A commit is *)
(* only possible with such a version, and so what its handler judged, read *)
(* as previous or passed as a gate holds of the rows it commits over.      *)
(***************************************************************************)
EXTENDS DraftReview, TLAPS

\* The rows a draft starts from, and every row a review writes, are rows.
LEMMA RowTypes ==
    /\ InitialRows \in [Fields -> FieldRow]
    /\ ReviewRow \subseteq FieldRow
  BY DEF InitialRows, FieldRow, ReviewRow

\* A handler that ended remembers nothing.
LEMMA IdleType == Idle \in Handler
  BY RowTypes DEF Idle, Handler, Phases, DraftStates, OpenStates

\* What a validation finds are issues.
LEMMA IssuesType ==
    ASSUME NEW rows, NEW flag
    PROVE  IssuesOf(rows, flag) \subseteq Issues
  BY RulesAssumption
     DEF IssuesOf, Issues, IssueCodes, Undecided, Unmet, Unsupported

\* Events are well typed.
LEMMA DraftEventType ==
    ASSUME NEW seq \in Nat \ {0}, NEW type \in EventTypes,
           NEW from \in DraftStates, NEW to \in DraftStates \ {"none"}
    PROVE  DraftEvent(seq, type, from, to) \in Event
  BY DEF DraftEvent, Event

LEMMA FieldEventType ==
    ASSUME NEW seq \in Nat \ {0}, NEW f \in Fields,
           NEW at \in DraftStates \ {"none"},
           NEW prev \in FieldRow, NEW row \in FieldRow
    PROVE  FieldEvent(seq, f, at, prev, row) \in Event
  BY DEF FieldEvent, Event, EventTypes

-----------------------------------------------------------------------------
\* What a handler carries by the phase it has reached.
CarriesItsTask ==
    \A r \in Reviewers : LET h == handler[r] IN
        /\ h.pc = "creating" =>
              /\ h.at = extraction
              /\ extraction \in {"succeeded", "needs_review"}
        /\ h.pc \in {"reviewing", "review_read"} =>
              /\ h.at \in OpenStates
              /\ h.field \in Fields
              /\ h.row \in ReviewRow
        /\ h.pc = "review_read" => h.prev \in FieldRow
        /\ h.pc = "applying" => h.at \in OpenStates
        /\ h.pc \in {"readying", "ready_read"} => h.at = "validated"

Typed == TypeOK /\ CarriesItsTask

LEMMA TypedInit == Init => Typed
  <1> SUFFICES ASSUME Init PROVE Typed
    OBVIOUS
  <1>1. TypeOK
    BY RowTypes, IdleType, RulesAssumption
       DEF Init, TypeOK, ExtractionStatuses, DraftStates, Issues
  <1>2. CarriesItsTask
    BY DEF Init, CarriesItsTask, Idle
  <1> QED BY <1>1, <1>2 DEF Typed

\* A reviewer's memory may be replaced by any well-typed one.
LEMMA GotoTyped ==
    ASSUME TypeOK, NEW r \in Reviewers, NEW h \in Handler, Goto(r, h)
    PROVE  /\ handler' \in [Reviewers -> Handler]
           /\ handler'[r] = h
           /\ \A q \in Reviewers : q # r => handler'[q] = handler[q]
  BY DEF TypeOK, Goto

\* The same when the draft is only read.
LEMMA ReadsTyped ==
    ASSUME Typed, NEW r \in Reviewers, NEW h \in Handler, Reads(r, h),
           h.pc = "creating" => /\ h.at = extraction
                                /\ extraction \in {"succeeded", "needs_review"},
           h.pc \in {"reviewing", "review_read"} =>
              h.at \in OpenStates /\ h.field \in Fields /\ h.row \in ReviewRow,
           h.pc = "review_read" => h.prev \in FieldRow,
           h.pc = "applying" => h.at \in OpenStates,
           h.pc \in {"readying", "ready_read"} => h.at = "validated"
    PROVE  Typed'
  <1>1. TypeOK'
    BY GotoTyped DEF Typed, Reads, draftVars, TypeOK
  <1>2. CarriesItsTask'
    BY GotoTyped DEF Typed, Reads, CarriesItsTask
  <1> QED BY <1>1, <1>2 DEF Typed

\* The same when a handler ends, whatever happens to the rest of the draft.
LEMMA EndsTyped ==
    ASSUME Typed, NEW r \in Reviewers, Goto(r, Idle), extraction' = extraction
    PROVE  /\ handler' \in [Reviewers -> Handler]
           /\ CarriesItsTask'
  BY GotoTyped, IdleType DEF Typed, CarriesItsTask, Idle

\* Every step keeps the types.
LEMMA TypedStep == Typed /\ [Next]_vars => Typed'
  <1> SUFFICES ASSUME Typed, [Next]_vars PROVE Typed'
    OBVIOUS
  <1> USE RulesAssumption DEF Handler
  <1>a. handler \in [Reviewers -> Handler]
    BY DEF Typed, TypeOK
  <1>1. ASSUME NEW status \in ExtractionStatuses \ {"running"},
               FinishExtraction(status)
        PROVE  Typed'
    BY <1>1 DEF FinishExtraction, Typed, TypeOK, CarriesItsTask, draftVars
  <1>2. ASSUME NEW r \in Reviewers, CreateCheck(r)
        PROVE  Typed'
    <2> DEFINE h == [Idle EXCEPT !.pc = "creating", !.at = extraction]
    <2>1. h \in Handler
      BY <1>2, IdleType DEF CreateCheck, Phases, ExtractionStatuses, Idle
    <2>2. h.pc = "creating" /\ h.at = extraction
      BY DEF Idle
    <2> QED BY <1>2, <2>1, <2>2, ReadsTyped DEF CreateCheck
  <1>3. ASSUME NEW r \in Reviewers, CreateNew(r)
        PROVE  Typed'
    <2>1. state' \in OpenStates /\ state' \in DraftStates \ {"none"}
      BY <1>3 DEF CreateNew, InitialState, OpenStates, DraftStates
    <2>2. audit' \in Seq(Event)
      BY <1>3, <2>1, DraftEventType
         DEF CreateNew, Typed, TypeOK, EventTypes, DraftStates
    <2>3. handler' \in [Reviewers -> Handler] /\ CarriesItsTask'
      BY <1>3, EndsTyped DEF CreateNew
    <2> QED
      BY <1>3, <2>1, <2>2, <2>3, RowTypes DEF CreateNew, Typed, TypeOK
  <1>4. ASSUME NEW r \in Reviewers, CreateExisting(r) \/ Abandon(r)
        PROVE  Typed'
    <2>1. handler' \in [Reviewers -> Handler] /\ CarriesItsTask'
      BY <1>4, EndsTyped DEF CreateExisting, Abandon
    <2> QED
      BY <1>4, <2>1 DEF CreateExisting, Abandon, Typed, TypeOK, draftVars
  <1>5. ASSUME NEW r \in Reviewers, LoadRow(r)
        PROVE  Typed'
    <2> DEFINE h == [Idle EXCEPT !.pc = "loading", !.version = version]
    <2>1. h \in Handler
      BY IdleType DEF Phases, Idle, Typed, TypeOK
    <2>2. h.pc = "loading"
      BY DEF Idle
    <2> QED BY <1>5, <2>1, <2>2, ReadsTyped DEF LoadRow
  <1>6. ASSUME NEW r \in Reviewers, LoadFields(r)
        PROVE  Typed'
    <2> DEFINE h == [handler[r] EXCEPT !.pc = "viewing", !.rows = fields]
    <2>1. h \in Handler /\ h.pc = "viewing"
      BY <1>a DEF Phases, Typed, TypeOK
    <2> QED BY <1>6, <2>1, ReadsTyped DEF LoadFields
  <1>7. ASSUME NEW r \in Reviewers, ReviewCheck(r)
        PROVE  Typed'
    <2>1. PICK f \in Fields, row \in ReviewRow :
             Reads(r, [handler[r] EXCEPT !.pc = "reviewing", !.at = state,
                                         !.field = f, !.row = row])
      BY <1>7 DEF ReviewCheck
    <2> DEFINE h == [handler[r] EXCEPT !.pc = "reviewing", !.at = state,
                                       !.field = f, !.row = row]
    <2>2. h \in Handler /\ h.pc = "reviewing" /\ h.at = state
          /\ h.field = f /\ h.row = row
      BY <1>a DEF Phases, Typed, TypeOK
    <2> QED BY <1>7, <2>1, <2>2, ReadsTyped DEF ReviewCheck
  <1>8. ASSUME NEW r \in Reviewers, ReviewReadField(r)
        PROVE  Typed'
    <2> DEFINE h == [handler[r] EXCEPT !.pc = "review_read",
                                       !.prev = fields[handler[r].field]]
    <2>0. /\ handler[r].at \in OpenStates
          /\ handler[r].field \in Fields
          /\ handler[r].row \in ReviewRow
      BY <1>8 DEF ReviewReadField, At, Typed, CarriesItsTask
    <2>1. fields[handler[r].field] \in FieldRow
      BY <2>0 DEF Typed, TypeOK
    <2>2. h \in Handler /\ h.pc = "review_read" /\ h.prev \in FieldRow
          /\ h.at = handler[r].at /\ h.field = handler[r].field
          /\ h.row = handler[r].row
      BY <1>a, <2>1 DEF Phases
    <2> QED BY <1>8, <2>0, <2>2, ReadsTyped DEF ReviewReadField
  <1>9. ASSUME NEW r \in Reviewers, ReviewCommit(r)
        PROVE  Typed'
    <2> DEFINE h == handler[r]
    <2>1. h.at \in OpenStates /\ h.field \in Fields /\ h.row \in ReviewRow
          /\ h.prev \in FieldRow /\ h.version \in Nat
      BY <1>9, <1>a DEF ReviewCommit, At, Typed, CarriesItsTask
    <2>2. FieldEvent(h.version + 1, h.field, h.at, h.prev, h.row) \in Event
      BY <2>1, RowTypes, FieldEventType DEF OpenStates, DraftStates
    <2>3. audit' \in Seq(Event) /\ version' \in Nat
      BY <1>9, <2>1, <2>2 DEF ReviewCommit, Typed, TypeOK
    <2>4. /\ fields' \in [Fields -> FieldRow]
          /\ source' \in [Proposed -> FieldRow]
      BY <1>9, <2>1, RowTypes DEF ReviewCommit, SourceAfter, Typed, TypeOK
    <2>5. handler' \in [Reviewers -> Handler] /\ CarriesItsTask'
      BY <1>9, EndsTyped DEF ReviewCommit
    <2> QED
      BY <1>9, <2>3, <2>4, <2>5 DEF ReviewCommit, Typed, TypeOK
  <1>10. ASSUME NEW r \in Reviewers, ValidateRow(r)
         PROVE  Typed'
    <2> DEFINE h == [handler[r] EXCEPT !.pc = "validating"]
    <2>1. h \in Handler /\ h.pc = "validating"
      BY <1>a DEF Phases
    <2> QED BY <1>10, <2>1, ReadsTyped DEF ValidateRow
  <1>11. ASSUME NEW r \in Reviewers, ValidateFields(r)
         PROVE  Typed'
    <2> DEFINE h == [handler[r] EXCEPT !.pc = "judged", !.rows = fields]
    <2>1. h \in Handler /\ h.pc = "judged"
      BY <1>a DEF Phases, Typed, TypeOK
    <2> QED BY <1>11, <2>1, ReadsTyped DEF ValidateFields
  <1>12. ASSUME NEW r \in Reviewers, ApplyCheck(r)
         PROVE  Typed'
    <2> DEFINE h == [handler[r] EXCEPT !.pc = "applying", !.at = state]
    <2>1. h \in Handler /\ h.pc = "applying" /\ h.at = state
      BY <1>a DEF Phases, Typed, TypeOK
    <2> QED BY <1>12, <2>1, ReadsTyped DEF ApplyCheck
  <1>13. ASSUME NEW r \in Reviewers, ApplyCommit(r)
         PROVE  Typed'
    <2> DEFINE h == handler[r]
               found == IssuesOf(h.rows, flagged)
               target == IF found = {} THEN "validated" ELSE "needs_review"
               type == IF found = {} THEN "validation_passed"
                       ELSE "validation_failed"
    <2>1. h.at \in OpenStates /\ h.version \in Nat
      BY <1>13, <1>a DEF ApplyCommit, At, Typed, CarriesItsTask
    <2>2. /\ target \in DraftStates \ {"none"}
          /\ type \in EventTypes
          /\ h.at \in DraftStates
      BY <2>1 DEF DraftStates, OpenStates, EventTypes
    <2>3. DraftEvent(h.version + 1, type, h.at, target) \in Event
      BY <2>1, <2>2, DraftEventType
    <2>4. /\ state' = target
          /\ version' = h.version + 1
          /\ issues' = found
          /\ audit' = Append(audit, DraftEvent(h.version + 1, type, h.at,
                                               target))
          /\ UNCHANGED <<extraction, flagged, fields, source>>
      BY <1>13 DEF ApplyCommit
    <2>5. handler' \in [Reviewers -> Handler] /\ CarriesItsTask'
      BY <1>13, EndsTyped DEF ApplyCommit
    <2>6. issues' \subseteq Issues
      BY <2>4, IssuesType
    <2> HIDE DEF target, type, found, h
    <2>7. audit' \in Seq(Event)
      BY <2>3, <2>4 DEF Typed, TypeOK
    <2> QED BY <2>1, <2>2, <2>4, <2>5, <2>6, <2>7 DEF Typed, TypeOK
  <1>14. ASSUME NEW r \in Reviewers, ReadyCheck(r)
         PROVE  Typed'
    <2> DEFINE h == [handler[r] EXCEPT !.pc = "readying", !.at = state]
    <2>1. h \in Handler /\ h.pc = "readying" /\ h.at = state
      BY <1>a DEF Phases, Typed, TypeOK
    <2> QED BY <1>14, <2>1, ReadsTyped DEF ReadyCheck
  <1>15. ASSUME NEW r \in Reviewers, ReadyFields(r)
         PROVE  Typed'
    <2> DEFINE h == [handler[r] EXCEPT !.pc = "ready_read"]
    <2>1. h \in Handler /\ h.pc = "ready_read" /\ h.at = handler[r].at
      BY <1>a DEF Phases
    <2>2. handler[r].at = "validated"
      BY <1>15 DEF ReadyFields, At, Typed, CarriesItsTask
    <2> QED BY <1>15, <2>1, <2>2, ReadsTyped DEF ReadyFields
  <1>16. ASSUME NEW r \in Reviewers, ReadyCommit(r)
         PROVE  Typed'
    <2> DEFINE h == handler[r]
    <2>1. h.at = "validated" /\ h.version \in Nat
      BY <1>16, <1>a DEF ReadyCommit, At, Typed, CarriesItsTask
    <2>2. DraftEvent(h.version + 1, "draft_ready", h.at, "ready") \in Event
      BY <2>1, DraftEventType DEF DraftStates, EventTypes
    <2>3. audit' \in Seq(Event) /\ version' \in Nat
          /\ state' \in DraftStates
      BY <1>16, <2>1, <2>2 DEF ReadyCommit, Typed, TypeOK, DraftStates
    <2>4. handler' \in [Reviewers -> Handler] /\ CarriesItsTask'
      BY <1>16, EndsTyped DEF ReadyCommit
    <2> QED BY <1>16, <2>3, <2>4 DEF ReadyCommit, Typed, TypeOK
  <1>17. CASE UNCHANGED vars
    BY <1>17 DEF vars, draftVars, Typed, TypeOK, CarriesItsTask
  <1> QED
    BY <1>1, <1>2, <1>3, <1>4, <1>5, <1>6, <1>7, <1>8, <1>9, <1>10, <1>11,
       <1>12, <1>13, <1>14, <1>15, <1>16, <1>17 DEF Next, Handle

\* Types hold for ever, whatever the reviewers do.
THEOREM TypesHold == Spec => []Typed
  BY TypedInit, TypedStep, PTL DEF Spec

\* Type correctness: every column holds what the schema allows.
THEOREM TypeCorrect == Spec => []TypeOK
  <1>1. Typed => TypeOK
    BY DEF Typed
  <1> QED BY <1>1, TypesHold, PTL

-----------------------------------------------------------------------------
(***************************************************************************)
(* The inductive invariant.  None of its parts is inductive alone: commits *)
(* keep the trail (AuditAccountsForState) and the verdict (ReadyIsSound)   *)
(* only because the version they compare vouches for what the handler      *)
(* remembers (MemoryIsFresh), and a version vouches for the memory because *)
(* it counts the events of the trail.                                      *)
(***************************************************************************)

\* Until the draft is created its rows are the initial ones, and a field
\* that neither the extraction nor the profile asks about is never pending.
StoredRows ==
    /\ state = "none" => fields = InitialRows /\ issues = {}
    /\ \A f \in Fields \ (Required \cup Proposed) :
          fields[f].decision # "pending"

IInv ==
    /\ Typed
    /\ AuditAccountsForState
    /\ MemoryIsFresh
    /\ StoredRows
    /\ SourceAgrees
    /\ ReadyIsSound

LEMMA InitIInv == Init => IInv
  <1> SUFFICES ASSUME Init PROVE IInv
    OBVIOUS
  <1>1. Typed
    BY TypedInit
  <1>2. AuditAccountsForState
    BY DEF Init, AuditAccountsForState
  <1>3. MemoryIsFresh
    BY DEF Init, MemoryIsFresh, Fresh, Idle, ShowsRows, ReadState
  <1>4. StoredRows /\ SourceAgrees /\ ReadyIsSound
    BY RulesAssumption
       DEF Init, StoredRows, SourceAgrees, ReadyIsSound, InitialRows
  <1> QED BY <1>1, <1>2, <1>3, <1>4 DEF IInv

\* A draft without a row has no version and no trail.
LEMMA NoDraftNoTrail ==
    ASSUME Typed, AuditAccountsForState, state = "none"
    PROVE  audit = <<>> /\ version = 0
  <1>1. audit \in Seq(Event)
    BY DEF Typed, TypeOK
  <1>2. ASSUME audit # <<>> PROVE FALSE
    <2>1. Len(audit) \in 1..Len(audit) /\ audit[Len(audit)] \in Event
      BY <1>1, <1>2
    <2> QED BY <1>2, <2>1 DEF AuditAccountsForState, Event
  <1> QED BY <1>2 DEF AuditAccountsForState

\* Who passes the comparison of versions remembers what is stored.
LEMMA StillFresh ==
    ASSUME IInv, NEW r \in Reviewers, VersionStill(r)
    PROVE  /\ handler[r].version = version
           /\ version = Len(audit)
           /\ handler[r].pc \in ShowsRows => handler[r].rows = fields
           /\ handler[r].pc \in ReadState => handler[r].at = state
           /\ handler[r].pc = "review_read" =>
                 handler[r].prev = fields[handler[r].field]
  BY DEF IInv, VersionStill, MemoryIsFresh, Fresh, AuditAccountsForState

\* Reads keep memories fresh if what they read is what is stored.
LEMMA ReadsFresh ==
    ASSUME Typed, MemoryIsFresh, NEW r \in Reviewers, NEW h \in Handler,
           Reads(r, h), Fresh(h)
    PROVE  MemoryIsFresh'
  BY GotoTyped DEF Typed, Reads, MemoryIsFresh, Fresh, draftVars

\* A write that moves the version on leaves no memory that claims to be
\* fresh.
LEMMA CommitOutdates ==
    ASSUME Typed, MemoryIsFresh, NEW r \in Reviewers, Goto(r, Idle),
           version' \in Nat, version' > version
    PROVE  MemoryIsFresh'
  <1>1. ASSUME NEW q \in Reviewers
        PROVE  handler'[q].version \in Nat /\ handler'[q].version < version'
    <2>1. CASE q = r
      BY <2>1, GotoTyped, IdleType DEF Typed, TypeOK, Idle
    <2>2. CASE q # r
      <3>1. handler'[q] = handler[q]
        BY <2>2, GotoTyped, IdleType DEF Typed
      <3>2. handler[q].version <= version /\ handler[q].version \in Nat
        BY DEF MemoryIsFresh, Fresh, Typed, TypeOK, Handler
      <3> QED BY <3>1, <3>2 DEF Typed, TypeOK
    <2> QED BY <2>1, <2>2
  <1>2. ASSUME NEW q \in Reviewers
        PROVE  handler'[q].version <= version' /\ handler'[q].version # version'
    BY <1>1
  <1> QED BY <1>2 DEF MemoryIsFresh, Fresh

\* The trail stays closed when one event that starts in the stored state is
\* appended.
LEMMA TrailGrows ==
    ASSUME Typed, AuditAccountsForState, NEW e \in Event,
           e.seq = Len(audit) + 1, e.from = state,
           audit' = Append(audit, e), version' = Len(audit) + 1,
           state' = e.to
    PROVE  AuditAccountsForState'
  <1>1. audit \in Seq(Event)
    BY DEF Typed, TypeOK
  <1>2. Len(audit') = Len(audit) + 1 /\ audit' # <<>>
    BY <1>1
  <1>3. \A i \in 1..Len(audit) : audit'[i] = audit[i]
    BY <1>1
  <1>4. audit'[Len(audit) + 1] = e
    BY <1>1
  <1>5. ASSUME NEW i \in 1..Len(audit')
        PROVE  /\ audit'[i].seq = i
               /\ audit'[i].from = IF i = 1 THEN "none" ELSE audit'[i - 1].to
    <2>1. CASE i \in 1..Len(audit)
      BY <2>1, <1>1, <1>3 DEF AuditAccountsForState
    <2>2. CASE i = Len(audit) + 1
      BY <2>2, <1>1, <1>3, <1>4 DEF AuditAccountsForState
    <2> QED BY <2>1, <2>2, <1>1, <1>2
  <1> QED BY <1>1, <1>2, <1>4, <1>5 DEF AuditAccountsForState

\* The part of IInv that is about the stored draft alone.
Stored == AuditAccountsForState /\ StoredRows /\ SourceAgrees /\ ReadyIsSound

LEMMA UntouchedDraft ==
    ASSUME Stored, UNCHANGED draftVars, UNCHANGED flagged
    PROVE  Stored'
  BY DEF draftVars, Stored, AuditAccountsForState, StoredRows, SourceAgrees,
         ReadyIsSound, IssuesOf, Undecided, Unmet, Unsupported,
         PassesReadyGate

LEMMA CreateKeepsIInv ==
    ASSUME IInv, Typed', NEW r \in Reviewers, CreateNew(r)
    PROVE  IInv'
  <1> DEFINE e == DraftEvent(1, "draft_created", "none", state')
  <1>1. audit = <<>> /\ version = 0
    BY NoDraftNoTrail DEF IInv, CreateNew
  <1>2. state' \in OpenStates
    BY DEF CreateNew, InitialState, OpenStates
  <1>3. e \in Event
    BY <1>2, DraftEventType DEF OpenStates, DraftStates, EventTypes
  <1>4. AuditAccountsForState'
    <2>1. e.seq = 1 /\ e.from = "none" /\ e.to = state'
      BY DEF DraftEvent
    <2>2. audit' = Append(audit, e) /\ version' = 1 /\ state = "none"
      BY DEF CreateNew
    <2> HIDE DEF e
    <2>3. Len(audit) = 0
      BY <1>1
    <2> QED BY <1>3, <2>1, <2>2, <2>3, TrailGrows DEF IInv
  <1>5. MemoryIsFresh'
    BY <1>1, CommitOutdates DEF CreateNew, IInv
  <1>6. StoredRows' /\ SourceAgrees' /\ ReadyIsSound'
    BY <1>2, RulesAssumption
       DEF CreateNew, IInv, StoredRows, SourceAgrees, ReadyIsSound,
           OpenStates, InitialRows
  <1> QED BY <1>4, <1>5, <1>6 DEF IInv

LEMMA ReviewKeepsIInv ==
    ASSUME IInv, Typed', NEW r \in Reviewers, ReviewCommit(r)
    PROVE  IInv'
  <1> DEFINE h == handler[r]
             e == FieldEvent(h.version + 1, h.field, h.at, h.prev, h.row)
  <1>1. /\ h.version = version /\ version = Len(audit)
        /\ h.at = state /\ state \in OpenStates
        /\ h.field \in Fields /\ h.row \in ReviewRow /\ h.prev \in FieldRow
    BY StillFresh
       DEF ReviewCommit, At, ReadState, IInv, Typed, CarriesItsTask
  <1>2. Len(audit) \in Nat
    BY DEF IInv, Typed, TypeOK
  <1>3. e \in Event
    BY <1>1, <1>2, RowTypes, FieldEventType DEF OpenStates, DraftStates
  <1>4. AuditAccountsForState'
    <2>1. e.seq = Len(audit) + 1 /\ e.from = state /\ e.to = state'
      BY <1>1 DEF FieldEvent, ReviewCommit
    <2>2. audit' = Append(audit, e) /\ version' = Len(audit) + 1
      BY <1>1 DEF ReviewCommit
    <2> HIDE DEF e
    <2> QED BY <1>3, <2>1, <2>2, TrailGrows DEF IInv
  <1>5. MemoryIsFresh'
    BY <1>1, <1>2, CommitOutdates DEF ReviewCommit, IInv
  <1>6. StoredRows' /\ SourceAgrees'
    BY <1>1, RulesAssumption
       DEF ReviewCommit, SourceAfter, IInv, StoredRows, SourceAgrees,
           OpenStates, ReviewRow, Typed, TypeOK
  <1>7. ReadyIsSound'
    BY <1>1 DEF ReviewCommit, ReadyIsSound, OpenStates
  <1> QED BY <1>4, <1>5, <1>6, <1>7 DEF IInv

\* An empty list of issues is all that mark_ready's own gate asks for.
LEMMA NoIssuesPassGate ==
    ASSUME StoredRows, IssuesOf(fields, flagged) = {}
    PROVE  PassesReadyGate(fields)
  <1>1. ASSUME NEW f \in Undecided(fields) PROVE FALSE
    <2>1. <<"review_pending", f>> \in IssuesOf(fields, flagged)
      BY DEF IssuesOf
    <2> QED BY <2>1
  <1>2. ASSUME NEW f \in Unmet(fields) PROVE FALSE
    <2>1. <<"missing_required", f>> \in IssuesOf(fields, flagged)
      BY DEF IssuesOf
    <2> QED BY <2>1
  <1>3. \A f \in Fields : fields[f].decision # "pending"
    BY <1>1, RulesAssumption DEF StoredRows, Undecided
  <1> QED BY <1>2, <1>3 DEF PassesReadyGate

LEMMA ApplyKeepsIInv ==
    ASSUME IInv, Typed', NEW r \in Reviewers, ApplyCommit(r)
    PROVE  IInv'
  <1> DEFINE h == handler[r]
             found == IssuesOf(h.rows, flagged)
             target == IF found = {} THEN "validated" ELSE "needs_review"
             type == IF found = {} THEN "validation_passed"
                     ELSE "validation_failed"
             e == DraftEvent(h.version + 1, type, h.at, target)
  <1>1. /\ h.version = version /\ version = Len(audit)
        /\ h.rows = fields
        /\ h.at = state /\ state \in OpenStates
    BY StillFresh
       DEF ApplyCommit, At, ReadState, ShowsRows, Phases, IInv, Typed,
           CarriesItsTask
  <1>2. Len(audit) \in Nat
    BY DEF IInv, Typed, TypeOK
  <1>3. /\ state' = target /\ version' = Len(audit) + 1
        /\ issues' = IssuesOf(fields, flagged)
        /\ audit' = Append(audit, e)
        /\ Goto(r, Idle)
        /\ UNCHANGED <<flagged, fields, source>>
    BY <1>1 DEF ApplyCommit
  <1>4. e \in Event /\ e.seq = Len(audit) + 1 /\ e.from = state
        /\ e.to = target /\ target \in {"validated", "needs_review"}
    <2>1. type \in EventTypes /\ target \in {"validated", "needs_review"}
      BY DEF EventTypes
    <2>2. target \in DraftStates \ {"none"} /\ state \in DraftStates
      BY <1>1, <2>1 DEF DraftStates, OpenStates
    <2>3. h.version + 1 \in Nat \ {0} /\ h.at \in DraftStates
      BY <1>1, <1>2, <2>2
    <2> HIDE DEF type, target, h
    <2>4. e \in Event
      BY <2>1, <2>2, <2>3, DraftEventType
    <2>5. e.seq = Len(audit) + 1 /\ e.from = state /\ e.to = target
      BY <1>1 DEF DraftEvent
    <2> QED BY <2>1, <2>4, <2>5
  <1>5. AuditAccountsForState'
    <2> HIDE DEF e, target
    <2> QED BY <1>3, <1>4, TrailGrows DEF IInv
  <1>6. MemoryIsFresh'
    BY <1>1, <1>2, <1>3, CommitOutdates DEF IInv
  <1>7. StoredRows' /\ SourceAgrees'
    BY <1>3, <1>4 DEF IInv, StoredRows, SourceAgrees
  <1>8. ReadyIsSound'
    <2> SUFFICES ASSUME state' \in {"validated", "ready"}
                 PROVE  /\ IssuesOf(fields, flagged) = {}
                        /\ issues' = {}
                        /\ PassesReadyGate(fields)
      BY <1>3 DEF ReadyIsSound, IssuesOf, Undecided, Unmet, Unsupported,
                  PassesReadyGate
    <2>1. IssuesOf(fields, flagged) = {}
      BY <1>1, <1>3
    <2> QED BY <1>3, <2>1, NoIssuesPassGate DEF IInv
  <1> QED BY <1>5, <1>6, <1>7, <1>8 DEF IInv

LEMMA ReadyKeepsIInv ==
    ASSUME IInv, Typed', NEW r \in Reviewers, ReadyCommit(r)
    PROVE  IInv'
  <1> DEFINE h == handler[r]
             e == DraftEvent(h.version + 1, "draft_ready", h.at, "ready")
  <1>1. /\ h.version = version /\ version = Len(audit)
        /\ h.at = state /\ state = "validated"
    BY StillFresh
       DEF ReadyCommit, At, ReadState, IInv, Typed, CarriesItsTask
  <1>2. Len(audit) \in Nat
    BY DEF IInv, Typed, TypeOK
  <1>3. e \in Event
    BY <1>1, <1>2, DraftEventType DEF DraftStates, EventTypes
  <1>4. AuditAccountsForState'
    <2>1. e.seq = Len(audit) + 1 /\ e.from = state /\ e.to = state'
      BY <1>1 DEF DraftEvent, ReadyCommit
    <2>2. audit' = Append(audit, e) /\ version' = Len(audit) + 1
      BY <1>1 DEF ReadyCommit
    <2> HIDE DEF e
    <2> QED BY <1>3, <2>1, <2>2, TrailGrows DEF IInv
  <1>5. MemoryIsFresh'
    BY <1>1, <1>2, CommitOutdates DEF ReadyCommit, IInv
  <1>6. StoredRows' /\ SourceAgrees'
    BY DEF ReadyCommit, IInv, StoredRows, SourceAgrees
  <1>7. ReadyIsSound'
    BY <1>1 DEF ReadyCommit, IInv, ReadyIsSound, IssuesOf, Undecided, Unmet,
                Unsupported, PassesReadyGate
  <1> QED BY <1>4, <1>5, <1>6, <1>7 DEF IInv

\* A step that only reads leaves the stored draft alone, so all there is to
\* show is that what it read is fresh.
LEMMA ReadKeepsIInv ==
    ASSUME IInv, Typed', NEW r \in Reviewers, NEW h \in Handler,
           Reads(r, h), Fresh(h)
    PROVE  IInv'
  <1>1. MemoryIsFresh'
    BY ReadsFresh DEF IInv
  <1>2. Stored'
    BY UntouchedDraft DEF IInv, Stored, Reads
  <1> QED BY <1>1, <1>2 DEF IInv, Stored

LEMMA StepKeepsIInv == IInv /\ [Next]_vars => IInv'
  <1> SUFFICES ASSUME IInv, [Next]_vars PROVE IInv'
    OBVIOUS
  <1>a. Typed'
    BY TypedStep DEF IInv
  <1>b. handler \in [Reviewers -> Handler] /\ version \in Nat
        /\ \A q \in Reviewers : Fresh(handler[q]) /\ handler[q] \in Handler
    BY DEF IInv, Typed, TypeOK, MemoryIsFresh
  <1>1. ASSUME NEW status \in ExtractionStatuses \ {"running"},
               FinishExtraction(status)
        PROVE  IInv'
    <2>1. MemoryIsFresh' /\ Stored'
      BY <1>1, UntouchedDraft
         DEF FinishExtraction, IInv, Stored, MemoryIsFresh, Fresh, draftVars
    <2> QED BY <1>a, <2>1 DEF IInv, Stored
  <1>2. ASSUME NEW r \in Reviewers, CreateCheck(r) PROVE IInv'
    <2> DEFINE h == [Idle EXCEPT !.pc = "creating", !.at = extraction]
    <2>1. h \in Handler
      BY <1>2, IdleType
         DEF CreateCheck, Phases, ExtractionStatuses, Idle, Handler
    <2>2. Fresh(h)
      BY <1>b DEF Fresh, Idle, ShowsRows, ReadState
    <2> QED BY <1>2, <1>a, <2>1, <2>2, ReadKeepsIInv DEF CreateCheck
  <1>3. ASSUME NEW r \in Reviewers, CreateExisting(r) \/ Abandon(r)
        PROVE  IInv'
    <2>1. Reads(r, Idle)
      BY <1>3 DEF CreateExisting, Abandon, Reads
    <2>2. Fresh(Idle)
      BY <1>b DEF Fresh, Idle, ShowsRows, ReadState
    <2> QED BY <1>a, <2>1, <2>2, IdleType, ReadKeepsIInv
  <1>4. ASSUME NEW r \in Reviewers, LoadRow(r) PROVE IInv'
    <2> DEFINE h == [Idle EXCEPT !.pc = "loading", !.version = version]
    <2>1. h \in Handler
      BY <1>b, IdleType DEF Phases, Idle, Handler
    <2>2. Fresh(h)
      BY <1>b DEF Fresh, Idle, ShowsRows, ReadState
    <2> QED BY <1>4, <1>a, <2>1, <2>2, ReadKeepsIInv DEF LoadRow
  <1>5. ASSUME NEW r \in Reviewers, LoadFields(r) PROVE IInv'
    <2> DEFINE h == [handler[r] EXCEPT !.pc = "viewing", !.rows = fields]
    <2>1. h \in Handler
      BY <1>b DEF Phases, Handler, IInv, Typed, TypeOK
    <2>2. h.version = handler[r].version /\ h.rows = fields
          /\ h.pc = "viewing"
      BY <1>b DEF Handler
    <2>3. Fresh(h)
      BY <1>b, <2>2 DEF Fresh, ReadState
    <2> QED BY <1>5, <1>a, <2>1, <2>3, ReadKeepsIInv DEF LoadFields
  <1>6. ASSUME NEW r \in Reviewers, ReviewCheck(r) PROVE IInv'
    <2>1. PICK f \in Fields, row \in ReviewRow :
             Reads(r, [handler[r] EXCEPT !.pc = "reviewing", !.at = state,
                                         !.field = f, !.row = row])
      BY <1>6 DEF ReviewCheck
    <2> DEFINE h == [handler[r] EXCEPT !.pc = "reviewing", !.at = state,
                                       !.field = f, !.row = row]
    <2>2. h \in Handler
      BY <1>b DEF Phases, Handler, IInv, Typed, TypeOK
    <2>3. h.version = handler[r].version /\ h.rows = handler[r].rows
          /\ h.pc = "reviewing" /\ h.at = state
          /\ handler[r].pc = "viewing"
      BY <1>6, <1>b DEF Handler, ReviewCheck, At
    <2>4. Fresh(h)
      BY <1>b, <2>3 DEF Fresh, ShowsRows, Phases
    <2> QED BY <1>a, <2>1, <2>2, <2>4, ReadKeepsIInv
  <1>7. ASSUME NEW r \in Reviewers, ReviewReadField(r) PROVE IInv'
    <2> DEFINE h == [handler[r] EXCEPT !.pc = "review_read",
                                       !.prev = fields[handler[r].field]]
    <2>1. fields[handler[r].field] \in FieldRow
      BY <1>7 DEF ReviewReadField, At, IInv, Typed, CarriesItsTask, TypeOK
    <2>2. h \in Handler
      BY <1>b, <2>1 DEF Phases, Handler
    <2>3. h.version = handler[r].version /\ h.rows = handler[r].rows
          /\ h.pc = "review_read" /\ h.at = handler[r].at
          /\ h.field = handler[r].field /\ h.prev = fields[h.field]
          /\ handler[r].pc = "reviewing"
      BY <1>7, <1>b DEF Handler, ReviewReadField, At
    <2>4. Fresh(h)
      BY <1>b, <2>3 DEF Fresh, ShowsRows, ReadState, Phases
    <2> QED BY <1>7, <1>a, <2>2, <2>4, ReadKeepsIInv DEF ReviewReadField
  <1>8. ASSUME NEW r \in Reviewers, ValidateRow(r) PROVE IInv'
    <2> DEFINE h == [handler[r] EXCEPT !.pc = "validating"]
    <2>1. h \in Handler
      BY <1>b DEF Phases, Handler
    <2>2. h.version = handler[r].version /\ h.rows = handler[r].rows
          /\ h.pc = "validating" /\ handler[r].pc = "viewing"
      BY <1>8, <1>b DEF Handler, ValidateRow, At
    <2>3. Fresh(h)
      BY <1>b, <2>2 DEF Fresh, ShowsRows, ReadState, Phases
    <2> QED BY <1>8, <1>a, <2>1, <2>3, ReadKeepsIInv DEF ValidateRow
  <1>9. ASSUME NEW r \in Reviewers, ValidateFields(r) PROVE IInv'
    <2> DEFINE h == [handler[r] EXCEPT !.pc = "judged", !.rows = fields]
    <2>1. h \in Handler
      BY <1>b DEF Phases, Handler, IInv, Typed, TypeOK
    <2>2. h.version = handler[r].version /\ h.rows = fields
          /\ h.pc = "judged"
      BY <1>b DEF Handler
    <2>3. Fresh(h)
      BY <1>b, <2>2 DEF Fresh, ReadState
    <2> QED BY <1>9, <1>a, <2>1, <2>3, ReadKeepsIInv DEF ValidateFields
  <1>10. ASSUME NEW r \in Reviewers, ApplyCheck(r) PROVE IInv'
    <2> DEFINE h == [handler[r] EXCEPT !.pc = "applying", !.at = state]
    <2>1. h \in Handler
      BY <1>b DEF Phases, Handler, IInv, Typed, TypeOK
    <2>2. h.version = handler[r].version /\ h.rows = handler[r].rows
          /\ h.pc = "applying" /\ h.at = state /\ handler[r].pc = "judged"
      BY <1>10, <1>b DEF Handler, ApplyCheck, At
    <2>3. Fresh(h)
      BY <1>b, <2>2 DEF Fresh, ShowsRows, Phases
    <2> QED BY <1>10, <1>a, <2>1, <2>3, ReadKeepsIInv DEF ApplyCheck
  <1>11. ASSUME NEW r \in Reviewers, ReadyCheck(r) PROVE IInv'
    <2> DEFINE h == [handler[r] EXCEPT !.pc = "readying", !.at = state]
    <2>1. h \in Handler
      BY <1>b DEF Phases, Handler, IInv, Typed, TypeOK
    <2>2. h.version = handler[r].version /\ h.rows = handler[r].rows
          /\ h.pc = "readying" /\ h.at = state /\ handler[r].pc = "viewing"
          /\ issues = {}
      BY <1>11, <1>b DEF Handler, ReadyCheck, At
    <2>3. Fresh(h)
      BY <1>b, <2>2 DEF Fresh, ShowsRows, Phases
    <2> QED BY <1>11, <1>a, <2>1, <2>3, ReadKeepsIInv DEF ReadyCheck
  <1>12. ASSUME NEW r \in Reviewers, ReadyFields(r) PROVE IInv'
    <2> DEFINE h == [handler[r] EXCEPT !.pc = "ready_read"]
    <2>1. h \in Handler
      BY <1>b DEF Phases, Handler
    <2>2. h.version = handler[r].version /\ h.rows = handler[r].rows
          /\ h.pc = "ready_read" /\ h.at = handler[r].at
          /\ handler[r].pc = "readying" /\ PassesReadyGate(fields)
      BY <1>12, <1>b DEF Handler, ReadyFields, At
    <2>3. Fresh(h)
      BY <1>b, <2>2 DEF Fresh, ShowsRows, ReadState, Phases
    <2> QED BY <1>12, <1>a, <2>1, <2>3, ReadKeepsIInv DEF ReadyFields
  <1>13. CASE UNCHANGED vars
    <2>1. MemoryIsFresh' /\ Stored'
      BY <1>13, UntouchedDraft
         DEF vars, IInv, Stored, MemoryIsFresh, Fresh, draftVars
    <2> QED BY <1>a, <2>1 DEF IInv, Stored
  <1> QED
    BY <1>a, <1>1, <1>2, <1>3, <1>4, <1>5, <1>6, <1>7, <1>8, <1>9, <1>10,
       <1>11, <1>12, <1>13, CreateKeepsIInv, ReviewKeepsIInv,
       ApplyKeepsIInv, ReadyKeepsIInv DEF Next, Handle

LEMMA IInvHolds == Spec => []IInv
  BY InitIInv, StepKeepsIInv, PTL DEF Spec

\* The version of a draft counts its audit events, which form one unbroken
\* chain of states from "none" to the stored state.
THEOREM TrailAccountsForState == Spec => []AuditAccountsForState
  <1>1. IInv => AuditAccountsForState
    BY DEF IInv
  <1> QED BY <1>1, IInvHolds, PTL

\* An unchanged version means that nothing was written since it was read.
THEOREM VersionVouches == Spec => []MemoryIsFresh
  <1>1. IInv => MemoryIsFresh
    BY DEF IInv
  <1> QED BY <1>1, IInvHolds, PTL

\* The extraction's review columns never drift from the draft's.
THEOREM SourceFollows == Spec => []SourceAgrees
  <1>1. IInv => SourceAgrees
    BY DEF IInv
  <1> QED BY <1>1, IInvHolds, PTL

\* A validated or ready draft would pass the same validation again.
THEOREM VerdictStands == Spec => []ReadyIsSound
  <1>1. IInv => ReadyIsSound
    BY DEF IInv
  <1> QED BY <1>1, IInvHolds, PTL

-----------------------------------------------------------------------------
(***************************************************************************)
(* What steps do.                                                          *)
(***************************************************************************)

\* No reviewer commits a decision about rows that are not the stored ones.
THEOREM NoUpdateIsLost == Spec => NoBlindCommit
  <1>1. ASSUME IInv, NEW r \in Reviewers, Commits(r)
        PROVE  handler[r].rows = fields
    <2>1. VersionStill(r) /\ handler[r].pc \in ShowsRows
      BY <1>1 DEF Commits, ReviewCommit, ApplyCommit, ReadyCommit, At,
                  ShowsRows, Phases
    <2> QED BY <1>1, <2>1, StillFresh
  <1>2. IInv => \A r \in Reviewers : Commits(r) => handler[r].rows = fields
    BY <1>1
  <1> QED BY <1>2, IInvHolds, PTL DEF NoBlindCommit

\* Steps other than commits leave the draft alone.
ReadsOnly(r) ==
    \/ CreateCheck(r) \/ CreateExisting(r) \/ LoadRow(r) \/ LoadFields(r)
    \/ ReviewCheck(r) \/ ReviewReadField(r)
    \/ ValidateRow(r) \/ ValidateFields(r) \/ ApplyCheck(r)
    \/ ReadyCheck(r) \/ ReadyFields(r) \/ Abandon(r)

LEMMA ReadsOnlyStutters ==
    ASSUME NEW r \in Reviewers, ReadsOnly(r)
    PROVE  UNCHANGED <<extraction, flagged, state, version, issues, fields,
                       source, audit>>
  BY DEF ReadsOnly, CreateCheck, CreateExisting, LoadRow, LoadFields,
         ReviewCheck, ReviewReadField, ValidateRow, ValidateFields,
         ApplyCheck, ReadyCheck, ReadyFields, Abandon, Reads, draftVars

\* What LockedOnceValidated asks of one step.
StaysLocked ==
    /\ state \in {"validated", "ready"} =>
          /\ fields' = fields
          /\ source' = source
          /\ state' \in {state, "ready"}
    /\ Len(audit') >= Len(audit)
    /\ \A i \in 1..Len(audit) : audit'[i] = audit[i]

\* A step that does not touch rows, state and trail keeps the draft locked.
LEMMA UntouchedStaysLocked ==
    ASSUME Typed, UNCHANGED <<state, fields, source, audit>>
    PROVE  StaysLocked
  <1>1. Len(audit) \in Nat
    BY DEF Typed, TypeOK
  <1> QED BY <1>1 DEF StaysLocked

\* Validation locks rows, source columns and trail for good.
THEOREM ValidatedIsLocked == Spec => LockedOnceValidated
  <1>1. ASSUME IInv, Typed', [Next]_vars PROVE StaysLocked
    <2>0. audit \in Seq(Event) /\ audit' \in Seq(Event)
      BY <1>1 DEF IInv, Typed, TypeOK
    <2>1. ASSUME NEW status, FinishExtraction(status) PROVE StaysLocked
      BY <1>1, <2>1, UntouchedStaysLocked
         DEF FinishExtraction, draftVars, IInv
    <2>2. ASSUME NEW r \in Reviewers, ReadsOnly(r) PROVE StaysLocked
      BY <1>1, <2>2, ReadsOnlyStutters, UntouchedStaysLocked DEF IInv
    <2>3. ASSUME NEW r \in Reviewers, CreateNew(r) PROVE StaysLocked
      <3>1. audit = <<>>
        BY <1>1, <2>3, NoDraftNoTrail DEF IInv, CreateNew
      <3>2. Len(audit) = 0 /\ Len(audit') \in Nat
        BY <3>1, <2>0
      <3>3. state = "none"
        BY <2>3 DEF CreateNew
      <3> QED BY <3>2, <3>3 DEF StaysLocked
    <2>4. ASSUME NEW r \in Reviewers, ReviewCommit(r) PROVE StaysLocked
      <3>1. state \in OpenStates
        BY <1>1, <2>4, StillFresh
           DEF ReviewCommit, At, ReadState, IInv, Typed, CarriesItsTask
      <3>2. /\ Len(audit') >= Len(audit)
            /\ \A i \in 1..Len(audit) : audit'[i] = audit[i]
        BY <2>0, <2>4 DEF ReviewCommit
      <3> QED BY <3>1, <3>2 DEF StaysLocked, OpenStates
    <2>5. ASSUME NEW r \in Reviewers, ApplyCommit(r) PROVE StaysLocked
      <3>1. state \in OpenStates
        BY <1>1, <2>5, StillFresh
           DEF ApplyCommit, At, ReadState, IInv, Typed, CarriesItsTask
      <3>2. /\ Len(audit') >= Len(audit)
            /\ \A i \in 1..Len(audit) : audit'[i] = audit[i]
        BY <2>0, <2>5 DEF ApplyCommit
      <3> QED BY <3>1, <3>2 DEF StaysLocked, OpenStates
    <2>6. ASSUME NEW r \in Reviewers, ReadyCommit(r) PROVE StaysLocked
      <3>1. /\ Len(audit') >= Len(audit)
            /\ \A i \in 1..Len(audit) : audit'[i] = audit[i]
        BY <2>0, <2>6 DEF ReadyCommit
      <3> QED BY <2>6, <3>1 DEF StaysLocked, ReadyCommit
    <2>7. CASE UNCHANGED vars
      BY <1>1, <2>7, UntouchedStaysLocked DEF vars, draftVars, IInv
    <2> QED
      BY <1>1, <2>1, <2>2, <2>3, <2>4, <2>5, <2>6, <2>7
         DEF Next, Handle, ReadsOnly
  <1>2. IInv /\ IInv' /\ [Next]_vars => [StaysLocked]_vars
    BY <1>1 DEF IInv
  <1> QED
    BY <1>2, IInvHolds, PTL DEF Spec, LockedOnceValidated, StaysLocked

-----------------------------------------------------------------------------
(***************************************************************************)
(* The trail accounts for the fields.                                      *)
(***************************************************************************)

\* An append tells nothing new about the reviews before it.
LEMMA OldReviews ==
    ASSUME Typed, NEW e \in Event, audit' = Append(audit, e),
           NEW f \in Fields, NEW n \in 0..Len(audit)
    PROVE  /\ ReviewsOf(audit', f, n) = ReviewsOf(audit, f, n)
           /\ \A row : Leaves(audit', f, n, row) <=> Leaves(audit, f, n, row)
  <1>1. \A i \in 1..n : audit'[i] = audit[i]
    BY DEF Typed, TypeOK
  <1>2. /\ ReviewsOf(audit', f, n) = ReviewsOf(audit, f, n)
        /\ ReviewsOf(audit, f, n) \subseteq 1..n
    BY <1>1 DEF ReviewsOf
  <1> QED BY <1>1, <1>2 DEF Leaves

\* An append that tells a review of one field, or none, keeps the trail an
\* account of the fields.
LEMMA AppendAccounts ==
    ASSUME Typed, AuditAccountsForFields, NEW e \in Event,
           audit' = Append(audit, e),
           \A f \in Fields :
              IF e.field = f THEN e.prev = fields[f] /\ e.row = fields'[f]
              ELSE fields'[f] = fields[f]
    PROVE  AuditAccountsForFields'
  <1> DEFINE n == Len(audit)
  <1>1. audit \in Seq(Event) /\ n \in Nat
    BY DEF Typed, TypeOK
  <1>2. /\ Len(audit') = n + 1
        /\ audit'[n + 1] = e
        /\ \A i \in 1..n : audit'[i] = audit[i]
    BY <1>1
  <1> SUFFICES ASSUME NEW f \in Fields
               PROVE  /\ \A i \in ReviewsOf(audit', f, n + 1) :
                            Leaves(audit', f, i - 1, audit'[i].prev)
                      /\ Leaves(audit', f, n + 1, fields'[f])
    BY <1>2 DEF AuditAccountsForFields
  <1>3. /\ \A i \in ReviewsOf(audit, f, n) : Leaves(audit, f, i - 1, audit[i].prev)
        /\ Leaves(audit, f, n, fields[f])
    BY DEF AuditAccountsForFields
  <1>4. ASSUME NEW i \in ReviewsOf(audit, f, n)
        PROVE  Leaves(audit', f, i - 1, audit'[i].prev)
    <2>1. i \in 1..n /\ i - 1 \in 0..n
      BY <1>1, <1>4 DEF ReviewsOf
    <2>2. audit'[i].prev = audit[i].prev
      BY <1>2, <2>1
    <2> QED BY <1>3, <2>1, <2>2, OldReviews
  <1>5. Leaves(audit', f, n, fields[f])
    BY <1>1, <1>3, OldReviews
  <1>6. CASE e.field # f
    <2>1. ReviewsOf(audit', f, n + 1) = ReviewsOf(audit, f, n)
      BY <1>1, <1>2, <1>6 DEF ReviewsOf
    <2>2. ReviewsOf(audit', f, n + 1) = ReviewsOf(audit', f, n)
      BY <1>1, <1>2, <1>6 DEF ReviewsOf
    <2>3. Leaves(audit', f, n + 1, fields'[f])
      BY <1>5, <1>6, <2>2 DEF Leaves
    <2> QED BY <1>4, <2>1, <2>3
  <1>7. CASE e.field = f
    <2>1. ReviewsOf(audit', f, n + 1) = ReviewsOf(audit, f, n) \cup {n + 1}
      BY <1>1, <1>2, <1>7 DEF ReviewsOf
    <2>2. Leaves(audit', f, (n + 1) - 1, audit'[n + 1].prev)
      BY <1>1, <1>2, <1>5, <1>7
    <2>3. Leaves(audit', f, n + 1, fields'[f])
      <3>1. \A i \in ReviewsOf(audit', f, n + 1) : i <= n + 1
        BY <1>1 DEF ReviewsOf
      <3>2. audit'[n + 1].row = fields'[f]
        BY <1>2, <1>7
      <3> HIDE DEF n
      <3> QED BY <2>1, <3>1, <3>2 DEF Leaves
    <2> QED BY <1>4, <2>1, <2>2, <2>3
  <1> QED BY <1>6, <1>7

\* The audit trail tells everything that happened to the fields.
THEOREM TrailAccountsForFields == Spec => []AuditAccountsForFields
  <1>1. Init => AuditAccountsForFields
    BY DEF Init, AuditAccountsForFields, ReviewsOf, Leaves
  <1>2. ASSUME AuditAccountsForFields, IInv, Typed', [Next]_vars
        PROVE  AuditAccountsForFields'
    <2>1. CASE UNCHANGED <<fields, audit>>
      BY <1>2, <2>1 DEF AuditAccountsForFields
    <2>2. ASSUME NEW r \in Reviewers, CreateNew(r)
          PROVE  AuditAccountsForFields'
      <3> DEFINE e == DraftEvent(1, "draft_created", "none", state')
      <3>1. state' \in DraftStates \ {"none"}
        BY <2>2 DEF CreateNew, InitialState, DraftStates, OpenStates
      <3>2. e \in Event /\ e.field = None
        BY <3>1, DraftEventType DEF DraftStates, EventTypes, DraftEvent
      <3>3. fields' = fields /\ audit' = Append(audit, e)
        BY <1>2, <2>2 DEF CreateNew, IInv, StoredRows
      <3>4. \A f \in Fields : e.field # f
        BY <3>2, RulesAssumption
      <3> HIDE DEF e
      <3> QED BY <1>2, <3>2, <3>3, <3>4, AppendAccounts DEF IInv
    <2>3. ASSUME NEW r \in Reviewers, ReviewCommit(r)
          PROVE  AuditAccountsForFields'
      <3> DEFINE h == handler[r]
                 e == FieldEvent(h.version + 1, h.field, h.at, h.prev, h.row)
      <3>1. /\ h.prev = fields[h.field] /\ h.version \in Nat
            /\ h.at \in OpenStates
            /\ h.field \in Fields /\ h.row \in ReviewRow /\ h.prev \in FieldRow
        BY <1>2, <2>3, StillFresh
           DEF ReviewCommit, At, ReadState, IInv, Typed, TypeOK, Handler,
               CarriesItsTask
      <3>2. e \in Event
        <4>1. h.version + 1 \in Nat \ {0} /\ h.at \in DraftStates \ {"none"}
              /\ h.row \in FieldRow
          BY <3>1, RowTypes DEF OpenStates, DraftStates
        <4> HIDE DEF h
        <4> QED BY <3>1, <4>1, FieldEventType
      <3>3. e.field = h.field /\ e.prev = fields[h.field] /\ e.row = h.row
        BY <3>1 DEF FieldEvent
      <3>4. /\ audit' = Append(audit, e)
            /\ fields' = [fields EXCEPT ![h.field] = h.row]
            /\ fields \in [Fields -> FieldRow]
        BY <1>2, <2>3 DEF ReviewCommit, IInv, Typed, TypeOK
      <3> HIDE DEF e, h
      <3> QED BY <1>2, <3>1, <3>2, <3>3, <3>4, AppendAccounts DEF IInv
    <2>4. ASSUME NEW r \in Reviewers, ApplyCommit(r)
          PROVE  AuditAccountsForFields'
      <3>1. PICK type \in {"validation_passed", "validation_failed"},
                 target \in {"validated", "needs_review"} :
               audit' = Append(audit, DraftEvent(handler[r].version + 1, type,
                                                 handler[r].at, target))
        BY <2>4 DEF ApplyCommit
      <3> DEFINE e == DraftEvent(handler[r].version + 1, type, handler[r].at,
                                 target)
      <3>2. handler[r].version \in Nat /\ handler[r].at \in OpenStates
        BY <1>2, <2>4
           DEF ApplyCommit, At, IInv, Typed, TypeOK, Handler, CarriesItsTask
      <3>3. type \in EventTypes /\ target \in DraftStates \ {"none"}
            /\ handler[r].at \in DraftStates
            /\ handler[r].version + 1 \in Nat \ {0}
        BY <3>2 DEF EventTypes, DraftStates, OpenStates
      <3>4. e \in Event
        BY <3>3, DraftEventType
      <3>5. e.field = None
        BY DEF DraftEvent
      <3>6. fields' = fields /\ audit' = Append(audit, e)
        BY <2>4, <3>1 DEF ApplyCommit
      <3>7. \A f \in Fields : e.field # f
        BY <3>5, RulesAssumption
      <3> HIDE DEF e
      <3> QED BY <1>2, <3>4, <3>6, <3>7, AppendAccounts DEF IInv
    <2>5. ASSUME NEW r \in Reviewers, ReadyCommit(r)
          PROVE  AuditAccountsForFields'
      <3> DEFINE e == DraftEvent(handler[r].version + 1, "draft_ready",
                                 handler[r].at, "ready")
      <3>1. handler[r].version \in Nat /\ handler[r].at = "validated"
        BY <1>2, <2>5
           DEF ReadyCommit, At, IInv, Typed, TypeOK, Handler, CarriesItsTask
      <3>2. e \in Event
        BY <3>1, DraftEventType DEF EventTypes, DraftStates
      <3>3. e.field = None
        BY DEF DraftEvent
      <3>4. fields' = fields /\ audit' = Append(audit, e)
        BY <2>5 DEF ReadyCommit
      <3>5. \A f \in Fields : e.field # f
        BY <3>3, RulesAssumption
      <3> HIDE DEF e
      <3> QED BY <1>2, <3>2, <3>4, <3>5, AppendAccounts DEF IInv
    <2>6. ASSUME NEW status, FinishExtraction(status)
          PROVE  UNCHANGED <<fields, audit>>
      BY <2>6 DEF FinishExtraction, draftVars
    <2>7. ASSUME NEW r \in Reviewers, ReadsOnly(r)
          PROVE  UNCHANGED <<fields, audit>>
      BY <2>7, ReadsOnlyStutters
    <2>8. CASE UNCHANGED vars
      BY <2>1, <2>8 DEF vars, draftVars
    <2> QED
      BY <1>2, <2>1, <2>2, <2>3, <2>4, <2>5, <2>6, <2>7, <2>8
         DEF Next, Handle, ReadsOnly
  <1>3. AuditAccountsForFields /\ IInv /\ IInv' /\ [Next]_vars
           => AuditAccountsForFields'
    BY <1>2 DEF IInv
  <1> QED BY <1>1, <1>3, IInvHolds, PTL DEF Spec

-----------------------------------------------------------------------------
(***************************************************************************)
(* The handlers implement the ledger.  The ledger's vocabulary is the      *)
(* DraftRules of its own instance, with the same constants.                *)
(***************************************************************************)
LEMMA SameRules ==
    /\ Ledger!InitialRows = InitialRows
    /\ Ledger!ReviewRow = ReviewRow
    /\ Ledger!OpenStates = OpenStates
    /\ Ledger!ExtractionStatuses = ExtractionStatuses
    /\ \A status : Ledger!InitialState(status) = InitialState(status)
    /\ \A rows, flag : Ledger!IssuesOf(rows, flag) = IssuesOf(rows, flag)
    /\ \A rows : Ledger!PassesReadyGate(rows) <=> PassesReadyGate(rows)
    /\ \A seq, type, from, to :
          Ledger!DraftEvent(seq, type, from, to) = DraftEvent(seq, type, from, to)
    /\ \A seq, f, at, prev, row :
          Ledger!FieldEvent(seq, f, at, prev, row) = FieldEvent(seq, f, at, prev, row)
  BY DEF Ledger!InitialRows, InitialRows, Ledger!ReviewRow, ReviewRow,
         Ledger!OpenStates, OpenStates, Ledger!ExtractionStatuses,
         ExtractionStatuses, Ledger!InitialState, InitialState,
         Ledger!IssuesOf, IssuesOf, Ledger!Undecided, Undecided,
         Ledger!Unmet, Unmet, Ledger!Unsupported, Unsupported,
         Ledger!PassesReadyGate, PassesReadyGate,
         Ledger!DraftEvent, DraftEvent, Ledger!FieldEvent, FieldEvent

\* Every handler takes effect at one instant, on the rows stored then:
\* reads are stutters of the ledger, commits are its operations.
THEOREM HandlersImplementLedger == Spec => ImplementsLedger
  <1>1. Init => Ledger!Init
    BY SameRules DEF Init, Ledger!Init
  <1>2. ASSUME IInv, [Next]_vars
        PROVE  [Ledger!Next]_(Ledger!ledgerVars)
    <2>0. version = Len(audit) /\ Len(audit) \in Nat
      BY <1>2 DEF IInv, AuditAccountsForState, Typed, TypeOK
    <2>1. ASSUME NEW status \in ExtractionStatuses \ {"running"},
                 FinishExtraction(status)
          PROVE  Ledger!Next
      BY <2>1, SameRules
         DEF FinishExtraction, draftVars, Ledger!Next, Ledger!Finish
    <2>2. ASSUME NEW r \in Reviewers, ReadsOnly(r)
          PROVE  UNCHANGED Ledger!ledgerVars
      BY <2>2, ReadsOnlyStutters DEF Ledger!ledgerVars
    <2>3. ASSUME NEW r \in Reviewers, CreateNew(r)
          PROVE  Ledger!Create
      <3>1. audit = <<>> /\ Len(audit) = 0
        BY <1>2, <2>3, NoDraftNoTrail DEF IInv, CreateNew
      <3>2. handler[r].at = extraction
            /\ extraction \in {"succeeded", "needs_review"}
        BY <1>2, <2>3 DEF IInv, Typed, CarriesItsTask, CreateNew, At
      <3>3. fields' = fields
        BY <1>2, <2>3 DEF IInv, StoredRows, CreateNew
      <3>4. Len(audit) + 1 = 1
        BY <3>1
      <3> QED
        BY <2>3, <3>2, <3>3, <3>4, SameRules DEF CreateNew, Ledger!Create
    <2>4. ASSUME NEW r \in Reviewers, ReviewCommit(r)
          PROVE  \E f \in Fields, row \in ReviewRow : Ledger!Review(f, row)
      <3> DEFINE h == handler[r]
      <3>1. /\ h.version = Len(audit) /\ h.at = state /\ state \in OpenStates
            /\ h.field \in Fields /\ h.row \in ReviewRow
            /\ h.prev = fields[h.field]
        BY <1>2, <2>4, StillFresh
           DEF ReviewCommit, At, ReadState, IInv, Typed, CarriesItsTask
      <3>2. Ledger!Review(h.field, h.row)
        BY <2>4, <3>1, SameRules DEF ReviewCommit, Ledger!Review
      <3> QED BY <3>1, <3>2
    <2>5. ASSUME NEW r \in Reviewers, ApplyCommit(r)
          PROVE  Ledger!Validate
      <3> DEFINE h == handler[r]
      <3>1. /\ h.version = Len(audit) /\ h.rows = fields
            /\ h.at = state /\ state \in OpenStates
        BY <1>2, <2>5, StillFresh
           DEF ApplyCommit, At, ReadState, ShowsRows, Phases, IInv, Typed,
               CarriesItsTask
      <3>2. issues' = IssuesOf(fields, flagged)
            /\ UNCHANGED <<extraction, flagged, fields>>
        BY <2>5, <3>1 DEF ApplyCommit
      <3>3. CASE IssuesOf(fields, flagged) = {}
        <4>1. /\ state' = "validated"
              /\ audit' = Append(audit, DraftEvent(Len(audit) + 1,
                                 "validation_passed", state, "validated"))
          BY <2>5, <3>1, <3>3 DEF ApplyCommit
        <4> QED BY <3>1, <3>2, <3>3, <4>1, SameRules DEF Ledger!Validate
      <3>4. CASE IssuesOf(fields, flagged) # {}
        <4>1. /\ state' = "needs_review"
              /\ audit' = Append(audit, DraftEvent(Len(audit) + 1,
                                 "validation_failed", state, "needs_review"))
          BY <2>5, <3>1, <3>4 DEF ApplyCommit
        <4> QED BY <3>1, <3>2, <3>4, <4>1, SameRules DEF Ledger!Validate
      <3> QED BY <3>3, <3>4
    <2>6. ASSUME NEW r \in Reviewers, ReadyCommit(r)
          PROVE  Ledger!MarkReady
      <3> DEFINE h == handler[r]
      <3>1. /\ h.version = Len(audit) /\ h.at = "validated"
            /\ state = "validated"
        BY <1>2, <2>6, StillFresh
           DEF ReadyCommit, At, ReadState, IInv, Typed, CarriesItsTask
      <3>2. issues = {} /\ PassesReadyGate(fields)
        BY <1>2, <3>1 DEF IInv, ReadyIsSound
      <3> QED
        BY <2>6, <3>1, <3>2, SameRules DEF ReadyCommit, Ledger!MarkReady
    <2>7. CASE UNCHANGED vars
      BY <2>7 DEF vars, draftVars, Ledger!ledgerVars
    <2> QED
      BY <1>2, <2>1, <2>2, <2>3, <2>4, <2>5, <2>6, <2>7, SameRules
         DEF Next, Handle, ReadsOnly, Ledger!Next
  <1>3. IInv /\ [Next]_vars => [Ledger!Next]_(Ledger!ledgerVars)
    BY <1>2
  <1> QED
    BY <1>1, <1>3, IInvHolds, PTL DEF Spec, Ledger!Spec, ImplementsLedger

=============================================================================
