---------------------------- MODULE DraftReview ----------------------------
(***************************************************************************)
(* Human review of one extraction's workflow draft, as the HTTP handlers   *)
(* run it (workflow_state.py over storage.py).  Handlers of several        *)
(* reviewers run at once, each on a connection of its own.  The connection *)
(* opens a transaction only at its first INSERT or UPDATE, so every SELECT *)
(* a handler makes before that is a step of its own, and another handler   *)
(* may commit between it and the write; the writes of a handler and its    *)
(* commit are one step.                                                    *)
(***************************************************************************)
EXTENDS DraftRules

CONSTANTS
    Reviewers,   \* sessions that work on the draft
    MaxVersion   \* bound: no handler commits beyond this draft version

ASSUME ReviewAssumption == MaxVersion \in Nat

VARIABLES
    extraction,  \* status of the extraction run
    flagged,     \* the parser reports an issue with the document
    state,       \* workflow_drafts.state, "none" while there is no row
    version,     \* workflow_drafts.version, 0 while there is no row
    issues,      \* workflow_drafts.validation_issues_json
    fields,      \* draft_fields
    source,      \* the review columns of extracted_fields
    audit,       \* draft_audit_events
    handler      \* what each reviewer's page and handler remember

draftVars == <<state, version, issues, fields, source, audit>>
vars == <<extraction, flagged, draftVars, handler>>

(***************************************************************************)
(* A reviewer's page shows a draft (version, rows), read by two SELECTs.   *)
(* A handler started from it carries that version as expected_version; at  *)
(* is the state its guard read, field and row what it is to write, prev    *)
(* the row the audit event will call previous.                             *)
(***************************************************************************)
Phases ==
    {"idle", "creating", "loading", "viewing", "reviewing", "review_read",
     "validating", "judged", "applying", "readying", "ready_read"}

\* Phases in which rows holds what two SELECTs found, and those in which at
\* holds the state of the draft as a guard found it.
ShowsRows == Phases \ {"idle", "creating", "loading"}

ReadState ==
    {"reviewing", "review_read", "applying", "readying", "ready_read"}

Handler ==
    [pc : Phases, version : Nat, at : DraftStates \cup ExtractionStatuses,
     rows : [Fields -> FieldRow], field : Fields \cup {None},
     row : ReviewRow \cup {None}, prev : FieldRow \cup {None}]

Idle ==
    [pc |-> "idle", version |-> 0, at |-> "none", rows |-> InitialRows,
     field |-> None, row |-> None, prev |-> None]

Init ==
    /\ extraction = "running"
    /\ flagged \in BOOLEAN
    /\ state = "none"
    /\ version = 0
    /\ issues = {}
    /\ fields = InitialRows
    /\ source = [f \in Proposed |-> InitialRows[f]]
    /\ audit = <<>>
    /\ handler = [r \in Reviewers |-> Idle]

\* The extraction run ends; a finished run never changes again.
FinishExtraction(status) ==
    /\ extraction = "running"
    /\ extraction' = status
    /\ UNCHANGED <<flagged, draftVars, handler>>

At(r, phase) == handler[r].pc = phase

Goto(r, h) == handler' = [handler EXCEPT ![r] = h]

\* A read step: only the handler's own memory changes.
Reads(r, h) == Goto(r, h) /\ UNCHANGED <<extraction, flagged, draftVars>>

\* _require_draft_version, on the row the guard has just read.
RequireVersion(r) == version = handler[r].version

\* What a commit hinges on: WHERE version = ? of the UPDATE, and the UNIQUE
\* (draft_id, sequence) of the event it inserts.
VersionStill(r) ==
    /\ version = handler[r].version
    /\ \A i \in 1..Len(audit) : audit[i].seq # handler[r].version + 1

(***************************************************************************)
(* create_workflow_draft.  The run's status is read first; INSERT ... ON   *)
(* CONFLICT DO NOTHING decides who creates the draft.                      *)
(***************************************************************************)
\* Mutant: the status of the extraction run is not looked at.
CreateCheckAnyStatus(r) ==
    /\ At(r, "idle")
    /\ Reads(r, [Idle EXCEPT !.pc = "creating", !.at = extraction])

CreateCheck(r) ==
    /\ At(r, "idle")
    /\ extraction \in {"succeeded", "needs_review"}
    /\ Reads(r, [Idle EXCEPT !.pc = "creating", !.at = extraction])

CreateNew(r) ==
    /\ At(r, "creating")
    /\ state = "none"
    /\ \A f \in Proposed : source[f].decision = "pending"
    /\ state' = InitialState(handler[r].at)
    /\ version' = 1
    /\ fields' = InitialRows
    /\ audit' = Append(audit, DraftEvent(1, "draft_created", "none", state'))
    /\ Goto(r, Idle)
    /\ UNCHANGED <<extraction, flagged, issues, source>>

\* Mutant: ON CONFLICT DO UPDATE puts an existing draft back to its first
\* state.
CreateOverExisting(r) ==
    /\ At(r, "creating")
    /\ state # "none"
    /\ state' = InitialState(handler[r].at)
    /\ Goto(r, Idle)
    /\ UNCHANGED <<extraction, flagged, version, issues, fields, source, audit>>

\* The other request was first: its draft is the answer.
CreateExisting(r) ==
    /\ At(r, "creating")
    /\ state # "none"
    /\ Goto(r, Idle)
    /\ UNCHANGED <<extraction, flagged, draftVars>>

(***************************************************************************)
(* _load_workflow_draft: the draft's row first, its fields afterwards.     *)
(***************************************************************************)
LoadRow(r) ==
    /\ handler[r].pc \in {"idle", "viewing"}
    /\ state # "none"
    /\ Reads(r, [Idle EXCEPT !.pc = "loading", !.version = version])

LoadFields(r) ==
    /\ At(r, "loading")
    /\ Reads(r, [handler[r] EXCEPT !.pc = "viewing", !.rows = fields])

(***************************************************************************)
(* review_workflow_draft_field                                             *)
(***************************************************************************)
\* Mutant: the handler adopts the version it finds instead of requiring the
\* one its page was built from.
ReviewCheckAdopts(r) ==
    /\ At(r, "viewing")
    /\ state \in OpenStates
    /\ \E f \in Fields, row \in ReviewRow :
          Reads(r, [handler[r] EXCEPT !.pc = "reviewing", !.at = state,
                                      !.version = version,
                                      !.field = f, !.row = row])

\* Mutant: a review is accepted in every state.
ReviewCheckAnyState(r) ==
    /\ At(r, "viewing")
    /\ RequireVersion(r)
    /\ \E f \in Fields, row \in ReviewRow :
          Reads(r, [handler[r] EXCEPT !.pc = "reviewing", !.at = state,
                                      !.field = f, !.row = row])

ReviewCheck(r) ==
    /\ At(r, "viewing")
    /\ state \in OpenStates
    /\ RequireVersion(r)
    /\ \E f \in Fields, row \in ReviewRow :
          Reads(r, [handler[r] EXCEPT !.pc = "reviewing", !.at = state,
                                      !.field = f, !.row = row])

\* Mutant: the event's previous row is the one the extraction proposed.
ReviewReadProposal(r) ==
    /\ At(r, "reviewing")
    /\ Reads(r, [handler[r] EXCEPT !.pc = "review_read",
                                   !.prev = InitialRows[handler[r].field]])

ReviewReadField(r) ==
    /\ At(r, "reviewing")
    /\ Reads(r, [handler[r] EXCEPT !.pc = "review_read",
                                   !.prev = fields[handler[r].field]])

\* Mutant: the extraction's columns are told of confirmations only.
SourceAfterConfirmation(h) ==
    IF h.field \in Proposed /\ h.row.decision = "confirmed"
    THEN [source EXCEPT ![h.field] = h.row] ELSE source

\* The second UPDATE, of the field the extraction proposed, if it did.
SourceAfter(h) ==
    IF h.field \in Proposed THEN [source EXCEPT ![h.field] = h.row]
    ELSE source

\* Both UPDATEs of the rows, the UPDATE of the draft and the event.
ReviewCommit(r) ==
    LET h == handler[r] IN
    /\ At(r, "review_read")
    /\ VersionStill(r)
    /\ version < MaxVersion
    /\ fields' = [fields EXCEPT ![h.field] = h.row]
    /\ source' = SourceAfter(h)
    /\ version' = h.version + 1
    /\ issues' = {}
    /\ audit' = Append(audit, FieldEvent(h.version + 1, h.field, h.at,
                                         h.prev, h.row))
    /\ Goto(r, Idle)
    /\ UNCHANGED <<extraction, flagged, state>>

(***************************************************************************)
(* validate_draft: the service loads the draft again (row, then fields),   *)
(* parses the material, judges the fields it loaded, and only then calls   *)
(* apply_workflow_draft_validation.                                        *)
(***************************************************************************)
ValidateRow(r) ==
    /\ At(r, "viewing")
    /\ state \in OpenStates
    /\ RequireVersion(r)
    /\ Reads(r, [handler[r] EXCEPT !.pc = "validating"])

ValidateFields(r) ==
    /\ At(r, "validating")
    /\ Reads(r, [handler[r] EXCEPT !.pc = "judged", !.rows = fields])

\* Mutant: the verdict is applied to whatever version is stored by now.
ApplyCheckAdopts(r) ==
    /\ At(r, "judged")
    /\ state \in OpenStates
    /\ Reads(r, [handler[r] EXCEPT !.pc = "applying", !.at = state,
                                   !.version = version])

ApplyCheck(r) ==
    /\ At(r, "judged")
    /\ state \in OpenStates
    /\ RequireVersion(r)
    /\ Reads(r, [handler[r] EXCEPT !.pc = "applying", !.at = state])

\* The issues come from the rows the service loaded.
ApplyCommit(r) ==
    LET h      == handler[r]
        found  == IssuesOf(h.rows, flagged)
        target == IF found = {} THEN "validated" ELSE "needs_review"
        type   == IF found = {} THEN "validation_passed"
                  ELSE "validation_failed"
    IN
    /\ At(r, "applying")
    /\ VersionStill(r)
    /\ version < MaxVersion
    /\ state' = target
    /\ version' = h.version + 1
    /\ issues' = found
    /\ audit' = Append(audit, DraftEvent(h.version + 1, type, h.at, target))
    /\ Goto(r, Idle)
    /\ UNCHANGED <<extraction, flagged, fields, source>>

(***************************************************************************)
(* mark_workflow_draft_ready                                               *)
(***************************************************************************)
ReadyCheck(r) ==
    /\ At(r, "viewing")
    /\ state = "validated"
    /\ RequireVersion(r)
    /\ issues = {}
    /\ Reads(r, [handler[r] EXCEPT !.pc = "readying", !.at = state])

ReadyFields(r) ==
    /\ At(r, "readying")
    /\ PassesReadyGate(fields)
    /\ Reads(r, [handler[r] EXCEPT !.pc = "ready_read"])

ReadyCommit(r) ==
    LET h == handler[r] IN
    /\ At(r, "ready_read")
    /\ VersionStill(r)
    /\ version < MaxVersion
    /\ state' = "ready"
    /\ version' = h.version + 1
    /\ audit' = Append(audit, DraftEvent(h.version + 1, "draft_ready", h.at,
                                         "ready"))
    /\ Goto(r, Idle)
    /\ UNCHANGED <<extraction, flagged, issues, fields, source>>

(***************************************************************************)
(* Any handler may end early: a guard raised a conflict, the material no   *)
(* longer parses, the UPDATE matched no row and was rolled back, or the    *)
(* process died.  Nothing of it stays in the database.                     *)
(* The reviewer goes on from the draft loaded again; a page kept instead   *)
(* is the same as that while its version is stored (MemoryIsFresh).        *)
(***************************************************************************)
Abandon(r) ==
    /\ ~At(r, "idle")
    /\ Goto(r, Idle)
    /\ UNCHANGED <<extraction, flagged, draftVars>>

Handle(r) ==
    \/ CreateCheck(r) \/ CreateNew(r) \/ CreateExisting(r)
    \/ LoadRow(r) \/ LoadFields(r)
    \/ ReviewCheck(r) \/ ReviewReadField(r) \/ ReviewCommit(r)
    \/ ValidateRow(r) \/ ValidateFields(r) \/ ApplyCheck(r) \/ ApplyCommit(r)
    \/ ReadyCheck(r) \/ ReadyFields(r) \/ ReadyCommit(r)
    \/ Abandon(r)

Next ==
    \/ \E status \in ExtractionStatuses \ {"running"} :
          FinishExtraction(status)
    \/ \E r \in Reviewers : Handle(r)

Spec == Init /\ [][Next]_vars

-----------------------------------------------------------------------------
(***************************************************************************)
(* Properties                                                              *)
(***************************************************************************)

\* Every column holds what the schema and the row mappers allow, and no
\* handler carries anything else.
TypeOK ==
    /\ extraction \in ExtractionStatuses
    /\ flagged \in BOOLEAN
    /\ state \in DraftStates
    /\ version \in Nat
    /\ issues \subseteq Issues
    /\ fields \in [Fields -> FieldRow]
    /\ source \in [Proposed -> FieldRow]
    /\ audit \in Seq(Event)
    /\ handler \in [Reviewers -> Handler]

\* The audit trail accounts for the draft: version counts its events, they
\* are numbered without a gap, each begins in the state the one before it
\* ended in, and the last one ends in the stored state.  Two reviewers whose
\* guards passed together would break the numbering or the chain.
AuditAccountsForState ==
    /\ version = Len(audit)
    /\ \A i \in 1..Len(audit) :
          /\ audit[i].seq = i
          /\ audit[i].from = IF i = 1 THEN "none" ELSE audit[i - 1].to
    /\ state = IF audit = <<>> THEN "none" ELSE audit[Len(audit)].to

\* The reviews of field f among the first n events; they leave row there.
ReviewsOf(trail, f, n) == {i \in 1..n : trail[i].field = f}

Leaves(trail, f, n, row) ==
    IF ReviewsOf(trail, f, n) = {} THEN row = InitialRows[f]
    ELSE \E last \in ReviewsOf(trail, f, n) :
            /\ \A i \in ReviewsOf(trail, f, n) : i <= last
            /\ trail[last].row = row

\* Nothing happened to the fields that the trail does not tell: read
\* forward, each review's previous row is the row the review before it
\* wrote (or the initial one), and the last review's row is the stored one.
AuditAccountsForFields ==
    \A f \in Fields :
        /\ \A i \in ReviewsOf(audit, f, Len(audit)) :
              Leaves(audit, f, i - 1, audit[i].prev)
        /\ Leaves(audit, f, Len(audit), fields[f])

\* The review columns of extracted_fields say what draft_fields says.
SourceAgrees == \A f \in Proposed : source[f] = fields[f]

\* A draft that is validated or ready has every required field confirmed
\* with a value the document supports, nothing left undecided and no stored
\* issue: what the slow validation judged is still what is stored.
ReadyIsSound ==
    state \in {"validated", "ready"} =>
        /\ IssuesOf(fields, flagged) = {}
        /\ issues = {}
        /\ PassesReadyGate(fields)

\* h is not ahead of the draft and, if the stored version is still the one h
\* carries, then all it remembers is still stored: the rows it shows, the
\* state its guard read, the previous row of its event, the gates of
\* mark_ready it has passed.
Fresh(h) ==
    /\ h.version <= version
    /\ h.version = version =>
          /\ h.pc \in ShowsRows => h.rows = fields
          /\ h.pc \in ReadState => h.at = state
          /\ h.pc = "review_read" => h.prev = fields[h.field]
          /\ h.pc \in {"readying", "ready_read"} => issues = {}
          /\ h.pc = "ready_read" => PassesReadyGate(fields)

\* What every compare-and-set of a version in the code relies on: an
\* unchanged version means that nothing at all was written since.
MemoryIsFresh == \A r \in Reviewers : Fresh(handler[r])

\* A commit by reviewer r.
Commits(r) ==
    \/ ReviewCommit(r) \/ ApplyCommit(r) \/ ReadyCommit(r)

\* No lost update: what a reviewer commits was decided looking at exactly
\* the rows that are stored when it commits, even though page and guards
\* were read in separate statements before.
NoBlindCommit ==
    [][\A r \in Reviewers : Commits(r) => handler[r].rows = fields]_vars

\* The states only move forward, and a draft that passed validation keeps
\* its rows, its source columns and its trail for good: later events are
\* only ever appended.
LockedOnceValidated ==
    [][/\ state \in {"validated", "ready"} =>
            /\ fields' = fields
            /\ source' = source
            /\ state' \in {state, "ready"}
       /\ Len(audit') >= Len(audit)
       /\ \A i \in 1..Len(audit) : audit'[i] = audit[i]]_vars

\* Every handler behaves as if it ran alone, at the instant it commits.
Ledger == INSTANCE DraftLedger

ImplementsLedger == Ledger!Spec
=============================================================================
