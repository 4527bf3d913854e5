---------------------------- MODULE DraftLedger ----------------------------
(***************************************************************************)
(* What the draft service promises: every operation on a draft takes       *)
(* effect at one instant, on the rows that are stored at that instant, and *)
(* leaves exactly one audit event.  There are no versions, no handlers and *)
(* no reads here; DraftReview shows how the code obtains this from reads   *)
(* made outside the transaction and a version it compares on commit.       *)
(***************************************************************************)
EXTENDS DraftRules

VARIABLES
    extraction,  \* status of the extraction run the draft is made from
    flagged,     \* the parser reports an issue with the document
    state,       \* the draft's state, "none" before it is created
    issues,      \* the issues of the last validation, as stored
    fields,      \* the rows of draft_fields
    audit        \* the rows of draft_audit_events, oldest first

ledgerVars == <<extraction, flagged, state, issues, fields, audit>>

Init ==
    /\ extraction = "running"
    /\ flagged \in BOOLEAN
    /\ state = "none"
    /\ issues = {}
    /\ fields = InitialRows
    /\ audit = <<>>

Finish(status) ==
    /\ extraction = "running"
    /\ extraction' = status
    /\ UNCHANGED <<flagged, state, issues, fields, audit>>

Create ==
    /\ extraction \in {"succeeded", "needs_review"}
    /\ state = "none"
    /\ state' = InitialState(extraction)
    /\ audit' = Append(audit, DraftEvent(Len(audit) + 1, "draft_created",
                                         "none", state'))
    /\ UNCHANGED <<extraction, flagged, issues, fields>>

Review(f, row) ==
    /\ state \in OpenStates
    /\ fields' = [fields EXCEPT ![f] = row]
    /\ issues' = {}
    /\ audit' = Append(audit, FieldEvent(Len(audit) + 1, f, state,
                                         fields[f], row))
    /\ UNCHANGED <<extraction, flagged, state>>

\* Judges the rows stored now, not rows read some time ago.
Validate ==
    /\ state \in OpenStates
    /\ issues' = IssuesOf(fields, flagged)
    /\ \/ /\ issues' = {}
          /\ state' = "validated"
          /\ audit' = Append(audit, DraftEvent(Len(audit) + 1,
                             "validation_passed", state, "validated"))
       \/ /\ issues' # {}
          /\ state' = "needs_review"
          /\ audit' = Append(audit, DraftEvent(Len(audit) + 1,
                             "validation_failed", state, "needs_review"))
    /\ UNCHANGED <<extraction, flagged, fields>>

MarkReady ==
    /\ state = "validated"
    /\ issues = {}
    /\ PassesReadyGate(fields)
    /\ state' = "ready"
    /\ audit' = Append(audit, DraftEvent(Len(audit) + 1, "draft_ready",
                                         "validated", "ready"))
    /\ UNCHANGED <<extraction, flagged, issues, fields>>

Next ==
    \/ \E status \in ExtractionStatuses \ {"running"} : Finish(status)
    \/ Create
    \/ \E f \in Fields, row \in ReviewRow : Review(f, row)
    \/ Validate
    \/ MarkReady

Spec == Init /\ [][Next]_ledgerVars
=============================================================================
