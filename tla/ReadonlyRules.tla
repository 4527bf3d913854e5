--------------------------- MODULE ReadonlyRules ---------------------------
(***************************************************************************)
(* The vocabulary of the read-only modules (payment, BizCase and the four  *)
(* fee lists): what a measurement of one list says about each document,    *)
(* what makes a document personal, and what is stored about it.  The       *)
(* payload of a document is abstracted to the revision of what upstream    *)
(* says and the scope reasons written into it; two payloads are equal      *)
(* exactly when their hashes are.                                          *)
(***************************************************************************)
EXTENDS Naturals, Sequences, FiniteSets, SequencesExt

CONSTANTS
    Docs,        \* external ids
    Modules,
    ByIdentity,  \* modules that ask the portal for the user's name
    ByProject,   \* modules whose scope depends on the user's projects
    Projects,    \* numbers of projects that have a manager
    ProjectOf,   \* the project of a document, or None
    Mine,        \* documents whose applicant is the user
    Revisions,
    None

ASSUME ReadonlyAssumption ==
    /\ IsFiniteSet(Docs)
    /\ ByIdentity \subseteq Modules
    /\ ByProject \subseteq Modules
    /\ ProjectOf \in [Docs -> Projects \cup {None}]
    /\ Mine \subseteq Docs
    /\ None \notin Docs \cup Projects \cup Revisions

\* The two reasons the syncs write themselves.
ScopeReasons == {"my_project", "submitted_by_me"}

Payload == [rev : Revisions, scope : SUBSET ScopeReasons]

Measurement == [Docs -> Payload \cup {None}]

NoDocs == [d \in Docs |-> None]

Present(m) == {d \in Docs : m[d] # None}

\* Why document d of module m belongs to the user.
Reasons(m, d, projects) ==
    {r \in ScopeReasons :
        \/ r = "my_project" /\ m \in ByProject /\ ProjectOf[d] \in projects
        \/ r = "submitted_by_me" /\ m \in ByIdentity /\ d \in Mine}

\* Mutant: a record nothing relates to the user is let through.
AnyRecord(m, listing, projects) == TRUE

\* A list that was asked for by the user's name or projects has nothing in
\* it that belongs to neither.
AllScoped(m, listing, projects) ==
    m \in ByIdentity =>
        \A d \in Present(listing) : Reasons(m, d, projects) # {}

\* readonly_snapshots: every record with the reasons found for it.
Snapshots(m, listing, projects) ==
    [d \in Docs |->
        IF listing[d] = None THEN None
        ELSE [rev |-> listing[d], scope |-> Reasons(m, d, projects)]]

\* A row of readonly_module_current (of one module), one of
\* readonly_module_snapshots, one of readonly_module_runs or sync_runs.
Row(runs) == [payload : Payload, seen : Nat, run : runs]

Snapshot(runs) ==
    [module : Modules, doc : Docs, observed : Nat, run : runs,
     payload : Payload]

RunRow ==
    [status : {"none", "running", "succeeded", "failed"}, observed : Nat,
     count : Nat, inserted : Nat, changed : Nat]

RunStatus(status) ==
    [status |-> status, observed |-> 0, count |-> 0, inserted |-> 0,
     changed |-> 0]

\* Mutant: documents that are gone are not counted as changed.
ChangedWhileListed(m, prev) == {d \in Present(m) : m[d] # prev[d]}

\* The documents whose payload is not the previous one, the vanished ones
\* included.
Changed(m, prev) == {d \in Docs : m[d] # prev[d]}

\* Mutant: rows of documents that are not listed any more are kept.
KeepUnlisted(r, m, t, rows) ==
    [d \in Docs |->
        IF m[d] = None THEN rows[d]
        ELSE [payload |-> m[d], seen |-> t, run |-> r]]

Replaced(r, m, t, rows) ==
    [d \in Docs |->
        IF m[d] = None THEN None
        ELSE [payload |-> m[d], seen |-> t, run |-> r]]
=============================================================================
