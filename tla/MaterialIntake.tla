--------------------------- MODULE MaterialIntake ---------------------------
(***************************************************************************)
(* Local materials: MaterialService.ingest_stream copies an upload to a    *)
(* staging file, moves it to the path its hash names and registers it;     *)
(* FieldExtractionService.extract parses a registered original, keeps the  *)
(* document and the result beside it and records the run.  A draft's       *)
(* validation parses the same material again.  The handlers of the API and *)
(* the tools run at the same time, each file operation and each            *)
(* transaction a step; any of them may die between two steps.              *)
(***************************************************************************)
EXTENDS Naturals, Sequences, FiniteSets

CONSTANTS
    Tasks,        \* uploads, extractions and validations
    Contents,     \* what is uploaded; content and its hash are the same here
    Names,        \* original names
    MaxDamage,    \* bound: files that go bad
    None

ASSUME IntakeAssumption == MaxDamage \in Nat /\ None \notin Tasks

VARIABLES
    blob,         \* originals/<sha256>/blob
    document,     \* derived/<material>/documents/<hash>
    result,       \* extractions that have a result.json
    blobRows,     \* material_blobs
    materials,    \* materials
    artifacts,    \* material_artifacts
    run,          \* extraction_runs, by extraction
    task

vars == <<blob, document, result, blobRows, materials, artifacts, run, task>>

Files == {"none", "partial", "whole", "damaged"}

\* A material is one content under one name: UNIQUE (sha256, original_name).
Keys == Contents \X Names
MaterialStatuses == {"ready", "needs_review"}
Material == [key : Keys, status : MaterialStatuses]

\* What _persist registers, in its order, and then the result.
Derived == <<"document_json", "text", "unit">>
Artifact ==
    [key : Keys, kind : {"document_json", "text", "unit"}, run : {None}]
        \cup [key : Keys, kind : {"extraction_result"}, run : Tasks]

\* fields: whether the run has rows in extracted_fields.
Run == [status : {"none", "running", "succeeded", "needs_review", "failed"},
        key : Keys \cup {None}, fields : BOOLEAN]

Phases ==
    {"idle", "copying", "copied", "moving", "placed",
     "starting", "resolving", "parsed", "renaming", "registering",
     "proposing", "persisting", "enrolling", "completing", "failing",
     "done", "refused", "dead"}

\* status: of an upload what its declared type makes of it, of an extraction
\* the verdict on its proposals.  part: the staging file.  next: the artifact
\* to register.  told: what the upload was answered.
Task == [pc : Phases, kind : {"none", "ingest", "extract", "validate"},
         key : Keys \cup {None}, status : {"none", "succeeded"} \cup MaterialStatuses,
         part : Files, next : 1..Len(Derived),
         told : {None} \cup [status : MaterialStatuses,
                             deduplicated : BOOLEAN, created : BOOLEAN]]

Fresh == [pc |-> "idle", kind |-> "none", key |-> None, status |-> "none",
          part |-> "none", next |-> 1, told |-> None]

Init ==
    /\ blob = [c \in Contents |-> "none"]
    /\ document = [k \in Keys |-> "none"]
    /\ result = {}
    /\ blobRows = {} /\ materials = {} /\ artifacts = {}
    /\ run = [t \in Tasks |-> [status |-> "none", key |-> None, fields |-> FALSE]]
    /\ task = [t \in Tasks |-> Fresh]

At(t, phase) == task[t].pc = phase
Key(t) == task[t].key
Content(t) == task[t].key[1]
Goes(t, phase) == task' = [task EXCEPT ![t].pc = phase]

\* The statuses of a material's row: none, or one.
StatusOf(k) == {m.status : m \in {x \in materials : x.key = k}}
MaterialKeys == {m.key : m \in materials}

files == <<blob, document, result>>
rows == <<blobRows, materials, artifacts, run>>

-----------------------------------------------------------------------------
(***************************************************************************)
(* Ingest                                                                  *)
(***************************************************************************)

\* An upload arrives; mkstemp, and the stream is copied.
StartIngest(t) ==
    /\ At(t, "idle")
    /\ \E k \in Keys, s \in MaterialStatuses :
          task' = [task EXCEPT ![t] = [Fresh EXCEPT
              !.pc = "copying", !.kind = "ingest", !.key = k, !.status = s,
              !.part = "partial"]]
    /\ UNCHANGED <<files, rows>>

\* The stream ends, the file is flushed and its hash, type and review
\* reasons are known.
EndCopy(t) ==
    /\ At(t, "copying")
    /\ task' = [task EXCEPT ![t].pc = "copied", ![t].part = "whole"]
    /\ UNCHANGED <<files, rows>>

\* final_blob.exists(): what is there is verified, and refused if it is not
\* what its path says.
LookForBlob(t) ==
    /\ At(t, "copied")
    /\ LET there == blob[Content(t)] IN
       IF there = "damaged"
       THEN task' = [task EXCEPT ![t].pc = "refused", ![t].part = "none"]
       ELSE Goes(t, IF there = "none" THEN "moving" ELSE "placed")
    /\ UNCHANGED <<files, rows>>

\* os.replace: over whatever is there by now.
MoveBlob(t) ==
    /\ At(t, "moving")
    /\ blob' = [blob EXCEPT ![Content(t)] = task[t].part]
    /\ task' = [task EXCEPT ![t].pc = "placed", ![t].part = "none"]
    /\ UNCHANGED <<document, result, rows>>

\* Mutant: a material is taken for new whenever its blob is.
RegisterByBlob(t) ==
    /\ At(t, "placed")
    /\ LET c == Content(t)
           created == c \notin blobRows
           kept == [key |-> Key(t), status |-> task[t].status] IN
       /\ blobRows' = blobRows \cup {c}
       /\ materials' = materials \cup {kept}
       /\ task' = [task EXCEPT ![t].pc = "done", ![t].part = "none",
              ![t].told = [status |-> kept.status,
                           deduplicated |-> ~created, created |-> created]]
    /\ UNCHANGED <<files, artifacts, run>>

\* register_material, one transaction: the blob's row unless it is there, the
\* material's unless there is one of that name, which is then the answer.
Register(t) ==
    /\ At(t, "placed")
    /\ LET c == Content(t)
           old == {m \in materials : m.key = Key(t)}
           kept == IF old # {} THEN CHOOSE m \in old : TRUE
                   ELSE [key |-> Key(t), status |-> task[t].status] IN
       /\ blobRows' = blobRows \cup {c}
       /\ materials' = materials \cup {kept}
       /\ task' = [task EXCEPT ![t].pc = "done", ![t].part = "none",
              ![t].told = [status |-> kept.status,
                           deduplicated |-> old # {},
                           created |-> c \notin blobRows]]
    /\ UNCHANGED <<files, artifacts, run>>

\* The stream breaks off or is too large, or the disk or the database fails:
\* the staging file is unlinked.
FailIngest(t) ==
    /\ task[t].pc \in {"copying", "copied", "moving", "placed"}
    /\ task' = [task EXCEPT ![t].pc = "refused", ![t].part = "none"]
    /\ UNCHANGED <<files, rows>>

-----------------------------------------------------------------------------
(***************************************************************************)
(* Extraction and the parse of a draft's validation                        *)
(***************************************************************************)

\* The material is looked up and, by an extraction, the run started.
StartParse(t) ==
    /\ At(t, "idle")
    /\ \E k \in MaterialKeys, kind \in {"extract", "validate"} :
          /\ kind = "validate" =>
                \E u \in Tasks : run[u].key = k
                    /\ run[u].status \in {"succeeded", "needs_review"}
          /\ task' = [task EXCEPT ![t] = [Fresh EXCEPT
                 !.pc = "resolving", !.kind = kind, !.key = k]]
          /\ run' = IF kind = "validate" THEN run
                    ELSE [run EXCEPT ![t] = [status |-> "running", key |-> k,
                                             fields |-> FALSE]]
    /\ UNCHANGED <<files, blobRows, materials, artifacts>>

\* An exception: an extraction goes on to record it.
Raises(t) == Goes(t, IF task[t].kind = "extract" THEN "failing" ELSE "refused")

\* resolve_original verifies the blob; the extractor reads it and refuses
\* what it cannot parse.
Resolve(t) ==
    /\ At(t, "resolving")
    /\ \/ blob[Content(t)] = "whole" /\ Goes(t, "parsed")
       \/ Raises(t)
    /\ UNCHANGED <<files, rows>>

\* Mutant: a directory that is there is not compared.
LookForDocumentTrusting(t) ==
    /\ At(t, "parsed")
    /\ Goes(t, IF document[Key(t)] = "none" THEN "renaming" ELSE "registering")
    /\ UNCHANGED <<files, rows>>

\* final_directory.exists(): what is there is compared byte by byte with the
\* document that was just staged.
LookForDocument(t) ==
    /\ At(t, "parsed")
    /\ \/ document[Key(t)] = "none" /\ Goes(t, "renaming")
       \/ document[Key(t)] = "whole" /\ Goes(t, "registering")
       \/ document[Key(t)] = "damaged" /\ Raises(t)
    /\ UNCHANGED <<files, rows>>

\* os.rename of the staged directory.  Over a directory that has files it
\* raises an OSError (ENOTEMPTY) that is no FileExistsError, so the branch
\* that would compare is not taken.
RenameDocument(t) ==
    /\ At(t, "renaming")
    /\ IF document[Key(t)] = "none"
       THEN /\ document' = [document EXCEPT ![Key(t)] = "whole"]
            /\ Goes(t, "registering")
       ELSE Raises(t) /\ UNCHANGED document
    /\ UNCHANGED <<blob, result, rows>>

\* register_material_artifact, an upsert, for one artifact after another.
RegisterDerived(t) ==
    /\ At(t, "registering")
    /\ artifacts' = artifacts \cup
           {[key |-> Key(t), kind |-> Derived[task[t].next], run |-> None]}
    /\ task' =
          IF task[t].next < Len(Derived)
          THEN [task EXCEPT ![t].next = @ + 1]
          ELSE [task EXCEPT ![t].pc =
                  IF task[t].kind = "extract" THEN "proposing" ELSE "done"]
    /\ UNCHANGED <<files, blobRows, materials, run>>

\* The provider answers and validate_proposals judges: a document with an
\* issue, and that of a material to review has one, cannot advance.
Propose(t) ==
    /\ At(t, "proposing")
    /\ \E verdict \in {"succeeded", "needs_review"} :
          /\ verdict = "succeeded" => "needs_review" \notin StatusOf(Key(t))
          /\ task' = [task EXCEPT ![t].pc = "persisting", ![t].status = verdict]
    /\ UNCHANGED <<files, rows>>

PersistResult(t) ==
    /\ At(t, "persisting")
    /\ result' = result \cup {t}
    /\ Goes(t, "enrolling")
    /\ UNCHANGED <<blob, document, rows>>

RegisterResult(t) ==
    /\ At(t, "enrolling")
    /\ artifacts' = artifacts \cup
           {[key |-> Key(t), kind |-> "extraction_result", run |-> t]}
    /\ Goes(t, "completing")
    /\ UNCHANGED <<files, blobRows, materials, run>>

\* Mutant: the run is completed before its result is kept.
CompleteEarly(t) ==
    /\ task[t].pc \in {"persisting", "enrolling", "completing"}
    /\ run[t].status = "running"
    /\ run' = [run EXCEPT ![t].status = task[t].status, ![t].fields = TRUE]
    /\ Goes(t, "done")
    /\ UNCHANGED <<files, blobRows, materials, artifacts>>

\* complete_extraction: the fields and the status in one transaction.
Complete(t) ==
    /\ At(t, "completing") /\ run[t].status = "running"
    /\ run' = [run EXCEPT ![t].status = task[t].status, ![t].fields = TRUE]
    /\ Goes(t, "done")
    /\ UNCHANGED <<files, blobRows, materials, artifacts>>

\* The provider, the disk or the database fails.
FailParse(t) ==
    /\ task[t].pc \in {"parsed", "renaming", "registering", "proposing",
                       "persisting", "enrolling", "completing"}
    /\ Raises(t)
    /\ UNCHANGED <<files, rows>>

\* fail_extraction; it may fail itself, and the run stays as it is.
FailExtraction(t) ==
    /\ At(t, "failing")
    /\ \/ run' = [run EXCEPT ![t].status = "failed"]
       \/ UNCHANGED run
    /\ Goes(t, "refused")
    /\ UNCHANGED <<files, blobRows, materials, artifacts>>

-----------------------------------------------------------------------------
(***************************************************************************)
(* The world                                                               *)
(***************************************************************************)

Active(t) == task[t].pc \notin {"idle", "done", "refused", "dead"}

\* The process dies; what it had staged stays where it is, unnamed.
Die(t) ==
    /\ Active(t)
    /\ Goes(t, "dead")
    /\ UNCHANGED <<files, rows>>

Damaged ==
    {c \in Contents : blob[c] = "damaged"}
        \cup {k \in Keys : document[k] = "damaged"}

\* A file goes bad while nothing runs.
Damage ==
    /\ \A t \in Tasks : ~Active(t)
    /\ Cardinality(Damaged) < MaxDamage
    /\ \/ \E c \in Contents :
             /\ blob[c] = "whole"
             /\ blob' = [blob EXCEPT ![c] = "damaged"]
             /\ UNCHANGED document
       \/ \E k \in Keys :
             /\ document[k] = "whole"
             /\ document' = [document EXCEPT ![k] = "damaged"]
             /\ UNCHANGED blob
    /\ UNCHANGED <<result, rows, task>>

Step(t) ==
    \/ StartIngest(t) \/ EndCopy(t) \/ LookForBlob(t) \/ MoveBlob(t)
    \/ Register(t) \/ FailIngest(t)
    \/ StartParse(t) \/ Resolve(t) \/ LookForDocument(t) \/ RenameDocument(t)
    \/ RegisterDerived(t) \/ Propose(t) \/ PersistResult(t)
    \/ RegisterResult(t) \/ Complete(t) \/ FailParse(t) \/ FailExtraction(t)
    \/ Die(t)

Next == Damage \/ \E t \in Tasks : Step(t)

Spec == Init /\ [][Next]_vars

-----------------------------------------------------------------------------
(***************************************************************************)
(* Properties                                                              *)
(***************************************************************************)

\* Variables hold values of their types.
TypeOK ==
    /\ blob \in [Contents -> Files]
    /\ document \in [Keys -> Files]
    /\ result \subseteq Tasks
    /\ blobRows \subseteq Contents
    /\ materials \subseteq Material
    /\ artifacts \subseteq Artifact
    /\ run \in [Tasks -> Run]
    /\ task \in [Tasks -> Task]

Completed(r) == r.status \in {"succeeded", "needs_review"}

\* Whatever broke off or died, a row never points to a file that is missing
\* or half written: a material has its blob, an artifact its document or
\* result, and a run that was completed all of them, its fields and the
\* rights its material allows.
RowsHaveTheirFiles ==
    /\ \A m \in materials :
          /\ m.key[1] \in blobRows
          /\ Cardinality(StatusOf(m.key)) = 1
    /\ \A c \in blobRows : blob[c] \in {"whole", "damaged"}
    /\ \A a \in artifacts :
          /\ a.key \in MaterialKeys
          /\ IF a.run = None THEN document[a.key] \in {"whole", "damaged"}
             ELSE a.run \in result
    /\ \A t \in Tasks :
          /\ run[t].fields = Completed(run[t])
          /\ Completed(run[t]) =>
                /\ \A i \in 1..Len(Derived) :
                      [key |-> run[t].key, kind |-> Derived[i], run |-> None]
                          \in artifacts
                /\ [key |-> run[t].key, kind |-> "extraction_result",
                    run |-> t] \in artifacts
          /\ run[t].status = "succeeded" => StatusOf(run[t].key) = {"ready"}

\* A file that went bad is never overwritten and never accepted: no upload
\* of its content and no run on it succeeds from then on.
DamageIsNoticed ==
    [][/\ \A c \in Contents : blob[c] # "none" => blob'[c] \in {blob[c], "damaged"}
       /\ \A k \in Keys : document[k] = "damaged" => document'[k] = "damaged"
       /\ \A t \in Tasks :
             task'[t].pc = "done" /\ task[t].pc # "done" =>
                /\ blob[Content(t)] = "whole"
                /\ task[t].kind # "ingest" => document[Key(t)] = "whole"]_vars

Answered(k) == {t \in Tasks : task[t].told # None /\ Key(t) = k}

\* However uploads of one content overlap, at most one of them is told that
\* it created the blob, at most one of the same name that it is not a
\* duplicate, and all of the same name are answered with the same material.
IngestsAgree ==
    \A k \in Keys :
        /\ \A t, u \in Answered(k) :
              /\ StatusOf(k) = {task[t].told.status}
              /\ ~task[t].told.deduplicated /\ ~task[u].told.deduplicated => t = u
        /\ \A l \in Keys : l[1] = k[1] =>
              \A t \in Answered(k), u \in Answered(l) :
                 task[t].told.created /\ task[u].told.created => t = u
=============================================================================
