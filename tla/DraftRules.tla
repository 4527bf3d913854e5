----------------------------- MODULE DraftRules -----------------------------
(***************************************************************************)
(* The vocabulary of a local workflow draft: what a row of draft_fields    *)
(* holds, which issues a validation raises and which rows pass the gate of *)
(* mark_ready.  A confirmed value stands for the text a reviewer confirmed *)
(* together with the evidence that is checked for it (the reviewer's own,  *)
(* or else the one the extraction proposed); Sound holds the pairs of a    *)
(* field and a value that validate_proposals finds in the parsed document. *)
(***************************************************************************)
EXTENDS Naturals, Sequences

CONSTANTS
    Fields,    \* the field names of the draft's profile
    Required,  \* those a submission cannot do without
    Proposed,  \* those the extraction proposed a value for
    Values,    \* confirmed values, each with its evidence
    Sound,     \* the pairs <<field, value>> the document supports
    None       \* no value, no field

ASSUME RulesAssumption ==
    /\ Required \subseteq Fields
    /\ Proposed \subseteq Fields
    /\ Sound \subseteq Fields \X Values
    /\ None \notin Fields \cup Values

OpenStates == {"extracted", "needs_review"}

DraftStates == {"none"} \cup OpenStates \cup {"validated", "ready"}

ExtractionStatuses == {"running", "succeeded", "needs_review", "failed"}

\* A row of draft_fields: what a human decided about the field, and the value.
FieldRow ==
    [decision : {"not_proposed", "pending", "rejected"}, value : {None}]
        \cup [decision : {"confirmed"}, value : Values]

\* Mutant: a confirmation without a value is accepted.
ReviewRowUnchecked ==
    [decision : {"rejected"}, value : {None}]
        \cup [decision : {"confirmed"}, value : Values \cup {None}]

\* What one call of review_workflow_draft_field may write.
ReviewRow ==
    [decision : {"rejected"}, value : {None}]
        \cup [decision : {"confirmed"}, value : Values]

\* The rows a new draft starts from.
InitialRows ==
    [f \in Fields |->
        [decision |-> IF f \in Proposed \cup Required
                      THEN "pending" ELSE "not_proposed",
         value |-> None]]

Undecided(rows) ==
    {f \in Required \cup Proposed : rows[f].decision = "pending"}

Unmet(rows) == {f \in Required : rows[f].decision # "confirmed"}

Unsupported(rows) ==
    {f \in Fields : /\ rows[f].decision = "confirmed"
                    /\ <<f, rows[f].value>> \notin Sound}

IssueCodes ==
    {"review_pending", "required_rejected", "missing_required",
     "unsupported", "document_issue"}

Issues == IssueCodes \X (Fields \cup {None})

\* The issues validate_draft finds in rows; flagged: the parser itself
\* reported an issue with the document.
IssuesOf(rows, flagged) ==
    ({"review_pending"} \X Undecided(rows))
    \cup ({"required_rejected"}
            \X {f \in Required : rows[f].decision = "rejected"})
    \cup ({"missing_required"} \X Unmet(rows))
    \cup ({"unsupported"} \X Unsupported(rows))
    \cup (IF flagged THEN {<<"document_issue", None>>} ELSE {})

\* mark_workflow_draft_ready's own count of invalid rows is zero.
PassesReadyGate(rows) ==
    /\ \A f \in Fields : rows[f].decision # "pending"
    /\ Unmet(rows) = {}

InitialState(status) ==
    IF status = "succeeded" THEN "extracted" ELSE "needs_review"

EventTypes ==
    {"draft_created", "field_reviewed", "validation_passed",
     "validation_failed", "draft_ready"}

\* A row of draft_audit_events.  Its actor and its timestamp are left out.
Event ==
    [seq : Nat \ {0}, type : EventTypes, field : Fields \cup {None},
     from : DraftStates, to : DraftStates \ {"none"},
     prev : FieldRow \cup {None}, row : FieldRow \cup {None}]

\* An event that is about the draft as a whole.
DraftEvent(seq, type, from, to) ==
    [seq |-> seq, type |-> type, field |-> None, from |-> from, to |-> to,
     prev |-> None, row |-> None]

\* An event that is about one field; the review does not move the state.
FieldEvent(seq, f, at, prev, row) ==
    [seq |-> seq, type |-> "field_reviewed", field |-> f, from |-> at,
     to |-> at, prev |-> prev, row |-> row]
=============================================================================
