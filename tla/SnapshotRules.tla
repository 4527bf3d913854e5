--------------------------- MODULE SnapshotRules ---------------------------
(***************************************************************************)
(* The vocabulary of one synchronised stream (one adapter): what a         *)
(* measurement of the upstream list says about each document, what is      *)
(* stored about it, and which change events a new measurement gives rise   *)
(* to.  The contents of a document are abstracted to its status, which is  *)
(* also its current node, its approver, and whether a detail page or the   *)
(* applicant's name has related it to the account; two contents are equal  *)
(* exactly when their payload hashes are.                                  *)
(***************************************************************************)
EXTENDS Naturals, Sequences, FiniteSets

CONSTANTS
    Docs,            \* external ids of the stream
    Statuses,
    ActiveStatuses,  \* is_purchase_active
    Approvers,
    Runs,            \* ids of synchronisation runs
    None             \* no document, no row

ASSUME SnapshotAssumption ==
    /\ IsFiniteSet(Docs)
    /\ ActiveStatuses \subseteq Statuses
    /\ None \notin Docs

Content == [status : Statuses, approver : Approvers, related : BOOLEAN]

\* One complete reading of the stream, a document that is not listed: None.
Measurement == [Docs -> Content \cup {None}]

NoDocs == [d \in Docs |-> None]

Present(m) == {d \in Docs : m[d] # None}

\* A row of workflow_current, and one of workflow_snapshots.
Row == [content : Content, first : Nat, seen : Nat, run : Runs]

ASSUME RowAssumption == None \notin Row

Snapshot == [doc : Docs, observed : Nat, run : Runs, content : Content]

Active(c) == c.status \in ActiveStatuses

\* Mutant: what earlier runs learned about a document is not carried over.
Forgetful(m, rows) == m

\* What is known to relate a document to the account stays known as long as
\* the document stays listed.
Merge(m, rows) ==
    [d \in Docs |->
        IF m[d] # None /\ rows[d] # None /\ rows[d].content.related
        THEN [m[d] EXCEPT !.related = TRUE] ELSE m[d]]

\* Mutant: a document that ends and is found active again is no change.
ChangesWhileActive(row, c) ==
    IF row = None THEN {"new"}
    ELSE IF row.content = c \/ ~Active(row.content) THEN {}
    ELSE IF ~Active(c) THEN {"completed"}
    ELSE {k \in {"node_changed", "assignee_changed"} :
             \/ k = "node_changed" /\ row.content.status # c.status
             \/ k = "assignee_changed" /\ row.content.approver # c.approver}

\* Mutant: any other difference is an event of a kind the schema excludes.
ChangesOfAnyKind(row, c) ==
    IF row = None THEN {"new"}
    ELSE IF row.content = c THEN {} ELSE {"updated"}

\* The kinds of change from a stored row to a measured content.
Changes(row, c) ==
    IF row = None THEN {"new"}
    ELSE IF row.content = c THEN {}
    ELSE IF Active(row.content) /\ ~Active(c) THEN {"completed"}
    ELSE {k \in {"node_changed", "assignee_changed"} :
             \/ k = "node_changed" /\ row.content.status # c.status
             \/ k = "assignee_changed" /\ row.content.approver # c.approver}

Kinds == {"new", "node_changed", "assignee_changed", "completed"}

\* A row of workflow_events; status is the measured one.
Event == [run : Runs, doc : Docs, kind : Kinds, status : Statuses]

\* The events of run r, which measured m when the rows were those given.
EventsOf(r, m, rows) ==
    UNION {{[run |-> r, doc |-> d, kind |-> k, status |-> m[d].status] :
                k \in Changes(rows[d], m[d])} : d \in Present(m)}

\* The snapshots of run r, which measured m at time t.
SnapshotsOf(r, m, t) ==
    {[doc |-> d, observed |-> t, run |-> r, content |-> m[d]] :
        d \in Present(m)}

\* Mutant: documents that are no longer listed keep their rows.
KeepUnlisted(r, m, t, rows) ==
    [d \in Docs |->
        IF m[d] = None THEN rows[d]
        ELSE [content |-> m[d], seen |-> t, run |-> r,
              first |-> IF rows[d] = None THEN t ELSE rows[d].first]]

\* The rows after the upserts of run r and the DELETE of all the others.
Replaced(r, m, t, rows) ==
    [d \in Docs |->
        IF m[d] = None THEN None
        ELSE [content |-> m[d], seen |-> t, run |-> r,
              first |-> IF rows[d] = None THEN t ELSE rows[d].first]]

\* A row of sync_runs.
RunRow ==
    [status : {"none", "running", "succeeded", "failed"}, observed : Nat,
     snapshots : Nat, inserted : Nat, events : Nat]

RunStatus(status) ==
    [status |-> status, observed |-> 0, snapshots |-> 0, inserted |-> 0,
     events |-> 0]

\* Mutant: all snapshots are counted as new history.
CountAll(t, m, new, told) ==
    [status |-> "succeeded", observed |-> t,
     snapshots |-> Cardinality(Present(m)),
     inserted |-> Cardinality(Present(m)),
     events |-> Cardinality(told)]

\* The row of a run that measured m at t, added the snapshots new and told
\* the events told.
Completed(t, m, new, told) ==
    [status |-> "succeeded", observed |-> t,
     snapshots |-> Cardinality(Present(m)),
     inserted |-> Cardinality(new),
     events |-> Cardinality(told)]
=============================================================================
