----------------------- MODULE MaterialIntake_proofs -----------------------
(***************************************************************************)
(* Rows, files and answers of the material store, for any tasks, contents  *)
(* and names.                                                              *)
(***************************************************************************)
EXTENDS MaterialIntake, FiniteSetTheorems, TLAPS

Uploading == {"copying", "copied", "moving", "placed"}
Judged == {"persisting", "enrolling", "completing"}
Proposing == {"proposing"} \cup Judged
Registered == {"registering"} \cup Proposing
Parsed == {"parsed", "renaming"} \cup Registered
Parsing == {"resolving", "failing"} \cup Parsed

HasRow(k, s) == [key |-> k, status |-> s] \in materials
HasDerived(k, i) ==
    [key |-> k, kind |-> Derived[i], run |-> None] \in artifacts
HasResult(k, t) ==
    [key |-> k, kind |-> "extraction_result", run |-> t] \in artifacts

\* A material has one row.
Keyed == \A m, n \in materials : m.key = n.key => m = n

\* Files are in place as a whole or not at all, and rows follow files.
FilesFirst ==
    /\ \A c \in Contents : blob[c] # "partial"
    /\ \A k \in Keys : document[k] # "partial"
    /\ \A c \in blobRows : blob[c] # "none"
    /\ \A m \in materials : m.key[1] \in blobRows
    /\ \A a \in artifacts :
          /\ a.key \in MaterialKeys
          /\ a.run = None => document[a.key] # "none"
          /\ a.run # None => a.run \in result

\* What an upload has done so far.
UploadCarries(t) ==
    /\ task[t].pc \in Uploading => /\ Key(t) \in Keys
                                   /\ task[t].kind = "ingest"
                                   /\ task[t].status \in MaterialStatuses
    /\ task[t].pc \in {"copied", "moving"} => task[t].part = "whole"
    /\ task[t].pc = "moving" => blob[Content(t)] \in {"none", "whole"}
    /\ task[t].pc = "placed" => blob[Content(t)] = "whole"

\* What a parse has done so far.
ParseCarries(t) ==
    /\ task[t].pc \in Parsing =>
          /\ Key(t) \in MaterialKeys
          /\ task[t].kind \in {"extract", "validate"}
          /\ task[t].kind = "extract" =>
                run[t] = [status |-> "running", key |-> Key(t),
                          fields |-> FALSE]
    /\ task[t].pc \in Proposing \cup {"failing"} => task[t].kind = "extract"
    /\ task[t].pc \in Parsed => blob[Content(t)] = "whole"
    /\ task[t].pc \in {"resolving", "parsed", "renaming"} => task[t].next = 1
    /\ task[t].pc \in Registered => document[Key(t)] = "whole"

\* What a parse has recorded so far.
ParseRecords(t) ==
    /\ task[t].pc = "registering" =>
          \A i \in 1..3 : i < task[t].next => HasDerived(Key(t), i)
    /\ task[t].pc \in Proposing => \A i \in 1..3 : HasDerived(Key(t), i)
    /\ task[t].pc \in Judged =>
          /\ task[t].status \in {"succeeded", "needs_review"}
          /\ task[t].status = "succeeded" => HasRow(Key(t), "ready")
    /\ task[t].pc \in {"enrolling", "completing"} => t \in result
    /\ task[t].pc = "completing" => HasResult(Key(t), t)

\* What a run's row says.
RunTells(t) ==
    /\ IF Completed(run[t]) THEN run[t].fields = TRUE ELSE run[t].fields = FALSE
    /\ Completed(run[t]) =>
          /\ \A i \in 1..3 : HasDerived(run[t].key, i)
          /\ HasResult(run[t].key, t)
    /\ run[t].status = "succeeded" => HasRow(run[t].key, "ready")

\* What an upload was told.
ToldIsKept(t) ==
    task[t].told # None =>
        /\ task[t].pc = "done"
        /\ Key(t) \in Keys
        /\ Content(t) \in blobRows
        /\ HasRow(Key(t), task[t].told.status)

\* The answers of two uploads.
ToldApart(t, u) ==
    task[t].told # None /\ task[u].told # None /\ t # u =>
        /\ Key(t) = Key(u) =>
              task[t].told.deduplicated \/ task[u].told.deduplicated
        /\ Content(t) = Content(u) =>
              ~task[t].told.created \/ ~task[u].told.created

Carries(t) ==
    /\ UploadCarries(t) /\ ParseCarries(t) /\ ParseRecords(t)
    /\ RunTells(t) /\ ToldIsKept(t)

IInv ==
    /\ TypeOK /\ Keyed /\ FilesFirst
    /\ \A t \in Tasks : Carries(t)
    /\ \A t, u \in Tasks : ToldApart(t, u)

LEMMA DerivedIs ==
    /\ Len(Derived) = 3
    /\ \A i \in 1..3 : Derived[i] \in {"document_json", "text", "unit"}
BY DEF Derived

LEMMA FreshIsTask == Fresh \in Task
BY DerivedIs DEF Fresh, Task, Phases, Files

LEMMA InitHolds == Init => IInv
<1> SUFFICES ASSUME Init PROVE IInv
  OBVIOUS
<1>1. TypeOK
  BY FreshIsTask DEF Init, TypeOK, Files, Run
<1>2. ASSUME NEW t \in Tasks PROVE Carries(t)
  <2>1. task[t].pc = "idle" /\ task[t].told = None
    BY DEF Init, Fresh
  <2>2. run[t].status = "none" /\ run[t].fields = FALSE
    BY DEF Init
  <2>3. UploadCarries(t) /\ ToldIsKept(t)
    BY <2>1 DEF UploadCarries, ToldIsKept, Uploading
  <2>4. ParseCarries(t) /\ ParseRecords(t)
    BY <2>1 DEF ParseCarries, ParseRecords, Parsing, Parsed, Registered, Proposing,
                Judged
  <2>5. RunTells(t)
    BY <2>2 DEF RunTells, Completed
  <2> QED BY <2>3, <2>4, <2>5 DEF Carries
<1>3. \A t, u \in Tasks : ToldApart(t, u)
  BY DEF Init, Fresh, ToldApart
<1>4. Keyed /\ FilesFirst
  BY DEF Init, Keyed, FilesFirst
<1> QED BY <1>1, <1>2, <1>3, <1>4 DEF IInv

-----------------------------------------------------------------------------
\* What any step of t leaves alone, and in which direction things move.
Kept(t) ==
    /\ \A u \in Tasks \ {t} : task'[u] = task[u] /\ run'[u] = run[u]
    /\ \A c \in Contents :
          /\ blob[c] = "whole" => blob'[c] = "whole"
          /\ blob[c] = "none" => blob'[c] \in {"none", "whole"}
          /\ blob[c] = "damaged" => blob'[c] = "damaged"
    /\ \A k \in Keys :
          /\ document[k] = "none" => document'[k] \in {"none", "whole"}
          /\ document[k] # "none" => document'[k] = document[k]
    /\ result \subseteq result' /\ blobRows \subseteq blobRows'
    /\ materials \subseteq materials' /\ artifacts \subseteq artifacts'

LEMMA StepKeeps ==
    ASSUME IInv, NEW t \in Tasks, Step(t)
    PROVE  Kept(t)
<1> USE DEF IInv, TypeOK, Kept, files, rows, Goes, Raises
<1>1. Carries(t)
  OBVIOUS
<1>2. CASE MoveBlob(t)
  BY <1>1, <1>2 DEF MoveBlob, At, Carries, UploadCarries, Uploading, Keys, Content, Key
<1>3. CASE RenameDocument(t)
  BY <1>1, <1>3 DEF RenameDocument, At, Key
<1>4. CASE StartIngest(t) \/ EndCopy(t) \/ LookForBlob(t) \/ Register(t)
           \/ FailIngest(t)
  BY <1>4 DEF StartIngest, EndCopy, LookForBlob, Register, FailIngest
<1>5. CASE StartParse(t) \/ Resolve(t) \/ LookForDocument(t)
           \/ RegisterDerived(t) \/ Propose(t)
  BY <1>5 DEF StartParse, Resolve, LookForDocument, RegisterDerived, Propose
<1>6. CASE PersistResult(t) \/ RegisterResult(t) \/ Complete(t)
           \/ FailParse(t) \/ FailExtraction(t) \/ Die(t)
  BY <1>6 DEF PersistResult, RegisterResult, Complete, FailParse,
              FailExtraction, Die
<1> QED BY <1>2, <1>3, <1>4, <1>5, <1>6 DEF Step

\* What the others carry outlives a step of t.
LEMMA OthersCarry ==
    ASSUME IInv, NEW t \in Tasks, Kept(t), NEW u \in Tasks, u # t
    PROVE  Carries(u)'
<1>1. task'[u] = task[u] /\ run'[u] = run[u]
  BY DEF Kept
<1>2. /\ \A k, s : HasRow(k, s) => HasRow(k, s)'
      /\ \A k, i : HasDerived(k, i) => HasDerived(k, i)'
      /\ \A k, v : HasResult(k, v) => HasResult(k, v)'
      /\ MaterialKeys \subseteq MaterialKeys'
  BY DEF Kept, HasRow, HasDerived, HasResult, MaterialKeys
<1>3. Carries(u)
  BY DEF IInv
<1>4. MaterialKeys \subseteq Keys
  BY DEF IInv, TypeOK, MaterialKeys, Material
<1>5. UploadCarries(u)'
  BY <1>1, <1>3 DEF Kept, Carries, UploadCarries, Key, Content, Uploading, Keys
<1>6. ParseCarries(u)'
  BY <1>1, <1>2, <1>3, <1>4
     DEF Kept, Carries, ParseCarries, Key, Content, Keys, Parsing, Parsed,
         Registered, Proposing, Judged
<1>7. ParseRecords(u)'
  BY <1>1, <1>2, <1>3 DEF Kept, Carries, ParseRecords, Key, Proposing, Judged
<1>8. RunTells(u)'
  BY <1>1, <1>2, <1>3 DEF Carries, RunTells, Completed
<1>9. ToldIsKept(u)'
  BY <1>1, <1>2, <1>3 DEF Kept, Carries, ToldIsKept, Key, Content
<1> QED BY <1>5, <1>6, <1>7, <1>8, <1>9 DEF Carries

\* A record with a field of the right type in place of another is a task.
LEMMA TaskEdited ==
    ASSUME NEW w \in Task
    PROVE  /\ \A p \in Phases : [w EXCEPT !.pc = p] \in Task
           /\ \A k \in {"ingest", "extract", "validate"} :
                 [w EXCEPT !.kind = k] \in Task
           /\ \A k \in Keys : [w EXCEPT !.key = k] \in Task
           /\ \A s \in {"succeeded"} \cup MaterialStatuses :
                 [w EXCEPT !.status = s] \in Task
           /\ \A f \in Files : [w EXCEPT !.part = f] \in Task
           /\ \A s \in MaterialStatuses : \A a, b \in BOOLEAN :
                 [w EXCEPT !.told = [status |-> s, deduplicated |-> a,
                                     created |-> b]] \in Task
<1> USE DEF Task
<1>1. \A p \in Phases : [w EXCEPT !.pc = p] \in Task
  OBVIOUS
<1>2. \A k \in {"ingest", "extract", "validate"} : [w EXCEPT !.kind = k] \in Task
  OBVIOUS
<1>3. \A k \in Keys : [w EXCEPT !.key = k] \in Task
  OBVIOUS
<1>4. \A s \in {"succeeded"} \cup MaterialStatuses : [w EXCEPT !.status = s] \in Task
  OBVIOUS
<1>5. \A f \in Files : [w EXCEPT !.part = f] \in Task
  OBVIOUS
<1>6. ASSUME NEW s \in MaterialStatuses, NEW a \in BOOLEAN, NEW b \in BOOLEAN
      PROVE  [w EXCEPT !.told = [status |-> s, deduplicated |-> a,
                                 created |-> b]] \in Task
  OBVIOUS
<1> QED BY <1>1, <1>2, <1>3, <1>4, <1>5, <1>6

\* Only t's record changes, so the tasks keep their type if it has it.
LEMMA TaskTyped ==
    ASSUME TypeOK, NEW t \in Tasks, NEW w \in Task,
           task' = [task EXCEPT ![t] = w]
    PROVE  task' \in [Tasks -> Task]
BY DEF TypeOK

\* Tables and tasks keep their types.
LEMMA StepTyped ==
    ASSUME IInv, NEW t \in Tasks, Step(t)
    PROVE  TypeOK'
<1> USE DerivedIs, IntakeAssumption DEF TypeOK, files, rows, Goes, At, Key
<1>1. TypeOK /\ Carries(t)
  BY DEF IInv
<1>2. CASE StartIngest(t)
  <2>1. PICK k \in Keys, s \in MaterialStatuses :
            task' = [task EXCEPT ![t] = [Fresh EXCEPT
              !.pc = "copying", !.kind = "ingest", !.key = k, !.status = s,
              !.part = "partial"]]
    BY <1>2 DEF StartIngest
  <2>2. [Fresh EXCEPT !.pc = "copying", !.kind = "ingest", !.key = k,
                      !.status = s, !.part = "partial"] \in Task
    BY FreshIsTask, TaskEdited DEF Phases, Files
  <2> QED BY <1>1, <1>2, <2>1, <2>2, TaskTyped DEF StartIngest
<1>3. CASE StartParse(t)
  <2>1. PICK k \in MaterialKeys, kind \in {"extract", "validate"} :
            /\ task' = [task EXCEPT ![t] = [Fresh EXCEPT
                 !.pc = "resolving", !.kind = kind, !.key = k]]
            /\ run' = IF kind = "validate" THEN run
                      ELSE [run EXCEPT ![t] = [status |-> "running", key |-> k,
                                               fields |-> FALSE]]
    BY <1>3 DEF StartParse
  <2>2. k \in Keys
    BY <1>1 DEF MaterialKeys, Material
  <2>3. [Fresh EXCEPT !.pc = "resolving", !.kind = kind, !.key = k] \in Task
    BY <2>2, FreshIsTask, TaskEdited DEF Phases
  <2>4. [status |-> "running", key |-> k, fields |-> FALSE] \in Run
    BY <2>2 DEF Run
  <2>5. run' \in [Tasks -> Run]
    BY <1>1, <2>1, <2>4
  <2> QED BY <1>1, <1>3, <2>1, <2>3, <2>5, TaskTyped DEF StartParse
<1>4. CASE EndCopy(t) \/ LookForBlob(t) \/ FailIngest(t)
  BY <1>1, <1>4 DEF EndCopy, LookForBlob, FailIngest, Files, Task, Phases
<1>5. CASE MoveBlob(t)
  <2>1. task' = [task EXCEPT ![t] = [task[t] EXCEPT !.pc = "placed", !.part = "none"]]
    BY <1>1, <1>5 DEF MoveBlob
  <2>3. task' \in [Tasks -> Task]
    BY <1>1, <2>1, TaskEdited, TaskTyped DEF Phases, Files
  <2>2. task[t].part \in Files
    BY <1>1 DEF Task
  <2> QED BY <1>1, <1>5, <2>2, <2>3 DEF MoveBlob
<1>6. CASE Register(t)
  <2>1. Key(t) \in Keys /\ task[t].status \in MaterialStatuses
    BY <1>1, <1>6 DEF Register, Carries, UploadCarries, Uploading
  <2>2. PICK kept \in Material : \E old \in BOOLEAN :
            /\ materials' = materials \cup {kept}
            /\ task' = [task EXCEPT ![t].pc = "done", ![t].part = "none",
                  ![t].told = [status |-> kept.status, deduplicated |-> old,
                               created |-> Content(t) \notin blobRows]]
    <3> DEFINE old == {m \in materials : m.key = Key(t)}
               kept == IF old # {} THEN CHOOSE m \in old : TRUE
                       ELSE [key |-> Key(t), status |-> task[t].status]
    <3>1. kept \in Material
      BY <1>1, <2>1 DEF Material
    <3>2. /\ materials' = materials \cup {kept}
          /\ task' = [task EXCEPT ![t].pc = "done", ![t].part = "none",
                  ![t].told = [status |-> kept.status,
                               deduplicated |-> old # {},
                               created |-> Content(t) \notin blobRows]]
      BY <1>6 DEF Register
    <3> QED BY <3>1, <3>2
  <2>3. PICK old \in BOOLEAN :
            task' = [task EXCEPT ![t] = [task[t] EXCEPT
                !.pc = "done", !.part = "none",
                !.told = [status |-> kept.status, deduplicated |-> old,
                          created |-> Content(t) \notin blobRows]]]
    BY <1>1, <2>2
  <2>4. [task[t] EXCEPT
                !.pc = "done", !.part = "none",
                !.told = [status |-> kept.status, deduplicated |-> old,
                          created |-> Content(t) \notin blobRows]] \in Task
    <3>1. kept.status \in MaterialStatuses
      BY DEF Material
    <3> QED BY <1>1, <3>1, TaskEdited DEF Phases, Files
  <2>5. task' \in [Tasks -> Task]
    BY <1>1, <2>3, <2>4, TaskTyped
  <2> QED BY <1>1, <1>6, <2>1, <2>2, <2>5 DEF Register, Content, Keys
<1>7. CASE Resolve(t) \/ LookForDocument(t) \/ FailParse(t) \/ Die(t)
  BY <1>1, <1>7 DEF Resolve, LookForDocument, FailParse, Die, Raises, Task, Phases
<1>8. CASE RenameDocument(t)
  BY <1>1, <1>8 DEF RenameDocument, Raises, Files, Task, Phases
<1>9. CASE RegisterDerived(t) \/ RegisterResult(t)
  <2>1. Key(t) \in Keys
    BY <1>1, <1>9 DEF RegisterDerived, RegisterResult, Carries, ParseCarries,
       Parsing, Parsed, Registered, Proposing, Judged, MaterialKeys, Material
  <2> QED BY <1>1, <1>9, <2>1
             DEF RegisterDerived, RegisterResult, Artifact, Task, Phases
<1>10. CASE Propose(t)
  <2>1. PICK verdict \in {"succeeded", "needs_review"} :
            task' = [task EXCEPT ![t] = [task[t] EXCEPT
                        !.pc = "persisting", !.status = verdict]]
    BY <1>1, <1>10 DEF Propose
  <2>2. [task[t] EXCEPT !.pc = "persisting", !.status = verdict] \in Task
    BY <1>1, TaskEdited DEF Phases, MaterialStatuses
  <2> QED BY <1>1, <1>10, <2>1, <2>2, TaskTyped DEF Propose
<1>11. CASE PersistResult(t)
  BY <1>1, <1>11 DEF PersistResult, Task, Phases
<1>12. CASE Complete(t) \/ FailExtraction(t)
  <2>1. At(t, "completing") => task[t].status \in {"succeeded", "needs_review"}
    BY <1>1 DEF Carries, ParseRecords, Judged
  <2>2. run' \in [Tasks -> Run]
    BY <1>1, <1>12, <2>1 DEF Complete, FailExtraction, Run
  <2>3. task' \in [Tasks -> Task]
    BY <1>1, <1>12 DEF Complete, FailExtraction, Task, Phases
  <2> QED BY <1>1, <1>12, <2>2, <2>3 DEF Complete, FailExtraction
<1> QED BY <1>2, <1>3, <1>4, <1>5, <1>6, <1>7, <1>8, <1>9, <1>10, <1>11,
           <1>12 DEF Step

LEMMA StepFilesFirst ==
    ASSUME IInv, NEW t \in Tasks, Step(t), Kept(t)
    PROVE  Keyed' /\ FilesFirst'
<1> USE DEF files, rows, At, Key, Content
<1>1. TypeOK /\ Carries(t) /\ Keyed /\ FilesFirst
  BY DEF IInv
<1>2. MaterialKeys \subseteq MaterialKeys'
  BY DEF Kept, MaterialKeys
<1>3. CASE UNCHANGED <<blobRows, materials, artifacts>>
  <2>1. Keyed'
    BY <1>1, <1>3 DEF Keyed
  <2>2. \A c \in Contents : blob'[c] # "partial" /\ (blob[c] # "none" => blob'[c] # "none")
    BY <1>1 DEF TypeOK, Kept, FilesFirst, Files
  <2>3. \A k \in Keys : document'[k] # "partial" /\ (document[k] # "none" => document'[k] # "none")
    BY <1>1 DEF TypeOK, Kept, FilesFirst, Files
  <2>4. MaterialKeys \subseteq Keys /\ blobRows \subseteq Contents
    BY <1>1 DEF TypeOK, MaterialKeys, Material
  <2> QED BY <1>1, <1>2, <1>3, <2>1, <2>2, <2>3, <2>4 DEF Kept, FilesFirst
<1>4. CASE Register(t)
  <2>1. Key(t) \in Keys /\ task[t].status \in MaterialStatuses /\ blob[Content(t)] = "whole"
    BY <1>1, <1>4 DEF Register, Carries, UploadCarries, Uploading
  <2> DEFINE old == {m \in materials : m.key = Key(t)}
             kept == IF old # {} THEN CHOOSE m \in old : TRUE
                     ELSE [key |-> Key(t), status |-> task[t].status]
  <2>2. kept.key = Key(t) /\ (old # {} => kept \in materials)
    OBVIOUS
  <2>3. materials' = materials \cup {kept} /\ blobRows' = blobRows \cup {Content(t)}
        /\ UNCHANGED <<blob, document, result, artifacts>>
    BY <1>4 DEF Register
  <2>4. old # {} => materials' = materials
    BY <2>2, <2>3
  <2>5. old = {} => \A m \in materials : m.key # Key(t)
    OBVIOUS
  <2> HIDE DEF old, kept
  <2>6. Keyed'
    BY <1>1, <2>2, <2>3, <2>4, <2>5 DEF Keyed
  <2>7. FilesFirst'
    BY <1>1, <1>2, <2>1, <2>2, <2>3 DEF FilesFirst, TypeOK, Material
  <2> QED BY <2>6, <2>7
<1>5. CASE RegisterDerived(t) \/ RegisterResult(t)
  <2>1. /\ Key(t) \in MaterialKeys
        /\ document[Key(t)] = "whole"
        /\ RegisterResult(t) => t \in result
    BY <1>1, <1>5 DEF RegisterDerived, RegisterResult, Carries, ParseCarries,
       ParseRecords, Parsing, Parsed, Registered, Proposing, Judged
  <2>2. UNCHANGED <<blob, document, result, blobRows, materials>>
    BY <1>5 DEF RegisterDerived, RegisterResult
  <2>3. \A a \in artifacts' \ artifacts :
            a.key = Key(t) /\ (a.run = None \/ (a.run = t /\ RegisterResult(t)))
    BY <1>5 DEF RegisterDerived, RegisterResult
  <2> QED BY <1>1, <1>2, <2>1, <2>2, <2>3, IntakeAssumption DEF Keyed, FilesFirst
<1>6. Register(t) \/ RegisterDerived(t) \/ RegisterResult(t)
      \/ UNCHANGED <<blobRows, materials, artifacts>>
  BY DEF Step, StartIngest, EndCopy, LookForBlob, MoveBlob, FailIngest,
         StartParse, Resolve, LookForDocument, RenameDocument, Propose,
         PersistResult, Complete, FailParse, FailExtraction, Die
<1> QED BY <1>3, <1>4, <1>5, <1>6

\* The phase a task is in after each of its steps.
LEMMA PhaseAfter ==
    ASSUME TypeOK, NEW t \in Tasks
    PROVE  /\ StartIngest(t) => task'[t].pc = "copying"
           /\ EndCopy(t) => task'[t].pc = "copied"
           /\ LookForBlob(t) => task'[t].pc \in {"refused", "moving", "placed"}
           /\ MoveBlob(t) => task'[t].pc = "placed"
           /\ Register(t) => task'[t].pc = "done"
           /\ FailIngest(t) => task'[t].pc = "refused"
           /\ StartParse(t) => task'[t].pc = "resolving"
           /\ Resolve(t) => task'[t].pc \in {"parsed", "failing", "refused"}
           /\ LookForDocument(t) => task'[t].pc \in {"renaming", "registering", "failing", "refused"}
           /\ RenameDocument(t) => task'[t].pc \in {"registering", "failing", "refused"}
           /\ RegisterDerived(t) => task'[t].pc \in {"registering", "proposing", "done"}
           /\ Propose(t) => task'[t].pc = "persisting"
           /\ PersistResult(t) => task'[t].pc = "enrolling"
           /\ RegisterResult(t) => task'[t].pc = "completing"
           /\ Complete(t) => task'[t].pc = "done"
           /\ FailParse(t) => task'[t].pc \in {"failing", "refused"}
           /\ FailExtraction(t) => task'[t].pc = "refused"
           /\ Die(t) => task'[t].pc = "dead"
<1> USE DEF TypeOK, Task, Goes
<1>1. StartIngest(t) => task'[t].pc = "copying"
  BY DEF StartIngest, Fresh
<1>2. EndCopy(t) => task'[t].pc = "copied"
  BY DEF EndCopy
<1>3. LookForBlob(t) => task'[t].pc \in {"refused", "moving", "placed"}
  BY DEF LookForBlob
<1>4. MoveBlob(t) => task'[t].pc = "placed"
  BY DEF MoveBlob
<1>5. Register(t) => task'[t].pc = "done"
  BY DEF Register
<1>6. FailIngest(t) => task'[t].pc = "refused"
  BY DEF FailIngest
<1>7. StartParse(t) => task'[t].pc = "resolving"
  BY DEF StartParse, Fresh
<1>8. Resolve(t) => task'[t].pc \in {"parsed", "failing", "refused"}
  BY DEF Resolve, Raises
<1>9. LookForDocument(t) => task'[t].pc \in {"renaming", "registering", "failing", "refused"}
  BY DEF LookForDocument, Raises
<1>10. RenameDocument(t) => task'[t].pc \in {"registering", "failing", "refused"}
  BY DEF RenameDocument, Raises
<1>11. RegisterDerived(t) => task'[t].pc \in {"registering", "proposing", "done"}
  BY DEF RegisterDerived, At
<1>12. Propose(t) => task'[t].pc = "persisting"
  BY DEF Propose
<1>13. PersistResult(t) => task'[t].pc = "enrolling"
  BY DEF PersistResult
<1>14. RegisterResult(t) => task'[t].pc = "completing"
  BY DEF RegisterResult
<1>15. Complete(t) => task'[t].pc = "done"
  BY DEF Complete
<1>16. FailParse(t) => task'[t].pc \in {"failing", "refused"}
  BY DEF FailParse, Raises
<1>17. FailExtraction(t) => task'[t].pc = "refused"
  BY DEF FailExtraction
<1>18. Die(t) => task'[t].pc = "dead"
  BY DEF Die
<1> QED BY <1>1, <1>2, <1>3, <1>4, <1>5, <1>6, <1>7, <1>8, <1>9, <1>10,
           <1>11, <1>12, <1>13, <1>14, <1>15, <1>16, <1>17, <1>18

\* What t carries outlives a step of its own, phase by phase.
LEMMA UploadGoesOn ==
    ASSUME IInv, NEW t \in Tasks, Step(t), Kept(t)
    PROVE  UploadCarries(t)'
<1> USE DEF Task, files, rows, At, Goes, Key, Content, Uploading, UploadCarries
<1>0. TypeOK
  BY DEF IInv
<1>1. task \in [Tasks -> Task] /\ UploadCarries(t) /\ ParseCarries(t)
      /\ blob \in [Contents -> Files] /\ FilesFirst
  BY DEF IInv, TypeOK, Carries
<1>2. CASE StartIngest(t)
  BY <1>1, <1>2 DEF StartIngest, Fresh
<1>3. CASE LookForBlob(t)
  BY <1>1, <1>3 DEF LookForBlob, Files, FilesFirst, Keys
<1>4. CASE MoveBlob(t)
  BY <1>1, <1>4 DEF MoveBlob, Keys
<1>5. CASE EndCopy(t) \/ FailIngest(t) \/ Die(t)
  BY <1>1, <1>5 DEF EndCopy, FailIngest, Die
<1>6. CASE task'[t].pc \notin Uploading
  BY <1>6
<1>7. \/ StartIngest(t) \/ LookForBlob(t) \/ MoveBlob(t) \/ EndCopy(t)
      \/ FailIngest(t) \/ Die(t) \/ task'[t].pc \notin Uploading
  BY PhaseAfter, <1>0 DEF Step
<1> QED BY <1>2, <1>3, <1>4, <1>5, <1>6, <1>7

LEMMA ParseGoesOn ==
    ASSUME IInv, NEW t \in Tasks, Step(t), Kept(t)
    PROVE  ParseCarries(t)'
<1> USE DEF Task, files, rows, At, Goes, Key, Content, Parsing, Parsed, Registered,
            Proposing, Judged, ParseCarries
<1>0. TypeOK
  BY DEF IInv
<1>1. task \in [Tasks -> Task] /\ ParseCarries(t) /\ run \in [Tasks -> Run]
      /\ document \in [Keys -> Files] /\ MaterialKeys \subseteq Keys
  BY DEF IInv, TypeOK, Carries, MaterialKeys, Material
<1>2. MaterialKeys \subseteq MaterialKeys'
  BY DEF Kept, MaterialKeys
<1>3. CASE task'[t].pc \notin Parsing
  BY <1>3
<1>4. CASE StartParse(t)
  BY <1>1, <1>2, <1>4 DEF StartParse, Fresh
<1>5. CASE Resolve(t)
  BY <1>1, <1>2, <1>5 DEF Resolve, Raises
<1>9. CASE LookForDocument(t)
  BY <1>1, <1>2, <1>9 DEF LookForDocument, Raises
<1>10. CASE FailParse(t)
  BY <1>1, <1>2, <1>10 DEF FailParse, Raises
<1>6. CASE RenameDocument(t)
  BY <1>1, <1>2, <1>6 DEF RenameDocument, Raises
<1>7. CASE RegisterDerived(t)
  BY <1>1, <1>2, <1>7 DEF RegisterDerived
<1>11. CASE Propose(t)
  BY <1>1, <1>2, <1>11 DEF Propose
<1>12. CASE PersistResult(t)
  BY <1>1, <1>2, <1>12 DEF PersistResult
<1>13. CASE RegisterResult(t)
  BY <1>1, <1>2, <1>13 DEF RegisterResult
<1>8. \/ StartParse(t) \/ Resolve(t) \/ LookForDocument(t) \/ FailParse(t)
      \/ RenameDocument(t) \/ RegisterDerived(t) \/ Propose(t) \/ PersistResult(t)
      \/ RegisterResult(t) \/ task'[t].pc \notin Parsing
  BY PhaseAfter, <1>0 DEF Step
<1> QED BY <1>3, <1>4, <1>5, <1>6, <1>7, <1>8, <1>9, <1>10, <1>11,
           <1>12, <1>13

LEMMA RecordsGoOn ==
    ASSUME IInv, NEW t \in Tasks, Step(t), Kept(t)
    PROVE  ParseRecords(t)'
<1> USE DEF Task, files, rows, At, Goes, Key, Registered, Proposing, Judged,
            ParseRecords
<1>0. TypeOK
  BY DEF IInv
<1>1. task \in [Tasks -> Task] /\ ParseCarries(t) /\ ParseRecords(t)
  BY DEF IInv, TypeOK, Carries
<1>2. /\ \A k, s : HasRow(k, s) => HasRow(k, s)'
      /\ \A k, i : HasDerived(k, i) => HasDerived(k, i)'
      /\ \A k, v : HasResult(k, v) => HasResult(k, v)'
  BY DEF Kept, HasRow, HasDerived, HasResult
<1>3. CASE task'[t].pc \notin Registered
  BY <1>3
<1>4. CASE LookForDocument(t) \/ RenameDocument(t)
  <2>1. task[t].next = 1
    BY <1>1, <1>4 DEF LookForDocument, RenameDocument, ParseCarries
  <2>2. task'[t].pc \notin Proposing /\ task'[t].next = 1
    BY <1>1, <1>4, <2>1 DEF LookForDocument, RenameDocument, Raises
  <2> QED BY <2>2
<1>5. CASE RegisterDerived(t)
  BY <1>1, <1>2, <1>5, DerivedIs DEF RegisterDerived, HasDerived, Task
<1>6. CASE Propose(t)
  <2>1. Key(t) \in MaterialKeys /\ materials \subseteq Material
    BY <1>1, <1>6 DEF Propose, IInv, TypeOK, ParseCarries, Parsing, Parsed
  <2>2. PICK m \in materials : m.key = Key(t)
    BY <2>1 DEF MaterialKeys
  <2>3. m.status \in StatusOf(Key(t)) /\ m.status \in {"ready", "needs_review"}
    BY <2>1, <2>2 DEF StatusOf, Material, MaterialStatuses
  <2>4. m.status = "ready" => HasRow(Key(t), "ready")
    BY <2>1, <2>2 DEF HasRow, Material
  <2> QED BY <1>1, <1>2, <1>6, <2>3, <2>4 DEF Propose, StatusOf
<1>7. CASE PersistResult(t) \/ RegisterResult(t)
  BY <1>1, <1>2, <1>7 DEF PersistResult, RegisterResult, HasResult
<1>8. \/ LookForDocument(t) \/ RenameDocument(t) \/ RegisterDerived(t) \/ Propose(t)
      \/ PersistResult(t) \/ RegisterResult(t) \/ task'[t].pc \notin Registered
  BY PhaseAfter, <1>0 DEF Step
<1> QED BY <1>3, <1>4, <1>5, <1>6, <1>7, <1>8

LEMMA RunGoesOn ==
    ASSUME IInv, NEW t \in Tasks, Step(t), Kept(t)
    PROVE  RunTells(t)'
<1> USE DEF files, rows, At, Goes, Key, RunTells, Completed
<1>1. /\ task \in [Tasks -> Task] /\ run \in [Tasks -> Run]
      /\ ParseCarries(t) /\ ParseRecords(t) /\ RunTells(t)
  BY DEF IInv, TypeOK, Carries
<1>2. /\ \A k, s : HasRow(k, s) => HasRow(k, s)'
      /\ \A k, i : HasDerived(k, i) => HasDerived(k, i)'
      /\ \A k, v : HasResult(k, v) => HasResult(k, v)'
  BY DEF Kept, HasRow, HasDerived, HasResult
<1>3. CASE run' = run
  BY <1>1, <1>2, <1>3
<1>4. CASE StartParse(t)
  BY <1>1, <1>2, <1>4 DEF StartParse
<1>5. CASE Complete(t)
  BY <1>1, <1>2, <1>5 DEF Complete, ParseCarries, ParseRecords, Parsing, Parsed,
     Registered, Proposing, Judged
<1>6. CASE FailExtraction(t)
  BY <1>1, <1>2, <1>6 DEF FailExtraction, ParseCarries, Parsing
<1>7. run' = run \/ StartParse(t) \/ Complete(t) \/ FailExtraction(t)
  BY DEF Step, StartIngest, EndCopy, LookForBlob, MoveBlob, Register, FailIngest,
         Die, Resolve, FailParse, LookForDocument, RenameDocument,
         RegisterDerived, Propose, PersistResult, RegisterResult
<1> QED BY <1>3, <1>4, <1>5, <1>6, <1>7


\* An answer is what was registered.
LEMMA Answers ==
    ASSUME IInv, NEW t \in Tasks, Register(t), Kept(t)
    PROVE  /\ task'[t].pc = "done" /\ Key(t)' = Key(t) /\ Key(t) \in Keys
           /\ Content(t) \in blobRows'
           /\ [key |-> Key(t), status |-> task'[t].told.status] \in materials'
           /\ task'[t].told.created = (Content(t) \notin blobRows)
           /\ task'[t].told.deduplicated = (Key(t) \in MaterialKeys)
<1> DEFINE old == {m \in materials : m.key = Key(t)}
           kept == IF old # {} THEN CHOOSE m \in old : TRUE
                   ELSE [key |-> Key(t), status |-> task[t].status]
<1>1. /\ task \in [Tasks -> Task] /\ materials \subseteq Material
      /\ Key(t) \in Keys
  BY DEF IInv, TypeOK, Carries, UploadCarries, Uploading, Register, At
<1>2. /\ materials' = materials \cup {kept} /\ Content(t) \in blobRows'
      /\ task' = [task EXCEPT ![t].pc = "done", ![t].part = "none",
             ![t].told = [status |-> kept.status, deduplicated |-> old # {},
                          created |-> Content(t) \notin blobRows]]
  BY DEF Register
<1>3. kept = [key |-> Key(t), status |-> kept.status]
  BY <1>1 DEF Material
<1>4. (old # {}) = (Key(t) \in MaterialKeys)
  BY DEF MaterialKeys
<1> HIDE DEF old, kept
<1>5. /\ task'[t].pc = "done" /\ task'[t].key = task[t].key
      /\ task'[t].told = [status |-> kept.status, deduplicated |-> old # {},
                          created |-> Content(t) \notin blobRows]
  BY <1>1, <1>2 DEF Task
<1>6. [key |-> Key(t), status |-> kept.status] \in materials'
  BY <1>2, <1>3
<1>7. task'[t].told.created = (Content(t) \notin blobRows)
  BY <1>5
<1>8. task'[t].told.deduplicated = (Key(t) \in MaterialKeys)
  BY <1>4, <1>5
<1> QED BY <1>1, <1>2, <1>5, <1>6, <1>7, <1>8 DEF Key

\* Only Register answers.
LEMMA NoOtherAnswer ==
    ASSUME IInv, NEW t \in Tasks, Step(t), ~Register(t)
    PROVE  task'[t].told = None \/ (task'[t].told = task[t].told
                /\ task'[t].key = task[t].key /\ task[t].pc # "done")
<1> USE DEF Task, Goes, At, Raises
<1>1. task \in [Tasks -> Task]
  BY DEF IInv, TypeOK
<1>2. CASE StartIngest(t)
  BY <1>1, <1>2 DEF StartIngest, Fresh
<1>7. CASE StartParse(t)
  BY <1>1, <1>7 DEF StartParse, Fresh
<1>3. CASE EndCopy(t) \/ LookForBlob(t) \/ MoveBlob(t) \/ FailIngest(t)
  BY <1>1, <1>3 DEF EndCopy, LookForBlob, MoveBlob, FailIngest
<1>4. CASE Resolve(t) \/ LookForDocument(t) \/ RenameDocument(t) \/ RegisterDerived(t)
  BY <1>1, <1>4 DEF Resolve, LookForDocument, RenameDocument, RegisterDerived
<1>5. CASE Propose(t) \/ PersistResult(t) \/ RegisterResult(t) \/ Complete(t)
  BY <1>1, <1>5 DEF Propose, PersistResult, RegisterResult, Complete
<1>6. CASE FailParse(t) \/ FailExtraction(t) \/ Die(t)
  BY <1>1, <1>6 DEF FailParse, FailExtraction, Die, Active
<1> QED BY <1>2, <1>3, <1>4, <1>5, <1>6, <1>7 DEF Step

LEMMA AnswersStay ==
    ASSUME IInv, NEW t \in Tasks, Step(t), Kept(t)
    PROVE  ToldIsKept(t)' /\ \A u, v \in Tasks : ToldApart(u, v)'
<1> USE DEF Key, Content
<1>1. ToldIsKept(t) /\ \A u \in Tasks : ToldIsKept(u) /\ \A v \in Tasks : ToldApart(u, v)
  BY DEF IInv, Carries
<1>2. \A u \in Tasks \ {t} : task'[u] = task[u]
  BY DEF Kept
<1>3. CASE Register(t)
  <2>1. ToldIsKept(t)'
    BY <1>3, Answers DEF ToldIsKept, HasRow
  <2>2. ASSUME NEW u \in Tasks, u # t PROVE ToldApart(u, t)' /\ ToldApart(t, u)'
    <3>1. task[u].told # None =>
              Content(u) \in blobRows /\ HasRow(Key(u), task[u].told.status)
      BY <1>1 DEF ToldIsKept
    <3>2. task[u].told # None => Key(u) \in MaterialKeys
      BY <3>1 DEF HasRow, MaterialKeys
    <3> QED BY <1>2, <1>3, <2>2, <3>1, <3>2, Answers DEF ToldApart
  <2>3. \A u, v \in Tasks \ {t} : ToldApart(u, v)'
    BY <1>1, <1>2 DEF ToldApart
  <2>4. ToldApart(t, t)'
    BY DEF ToldApart
  <2> QED BY <2>1, <2>2, <2>3, <2>4
<1>4. CASE ~Register(t)
  <2>1. task'[t].told = None
    BY <1>1, <1>4, NoOtherAnswer DEF ToldIsKept
  <2> QED BY <1>1, <1>2, <2>1 DEF ToldIsKept, ToldApart
<1> QED BY <1>3, <1>4

LEMMA StepPreserves ==
    ASSUME IInv, NEW t \in Tasks, Step(t)
    PROVE  IInv'
<1>1. Kept(t)
  BY StepKeeps
<1>2. Carries(t)'
  BY <1>1, UploadGoesOn, ParseGoesOn, RecordsGoOn, RunGoesOn, AnswersStay
     DEF Carries
<1> QED BY <1>1, <1>2, OthersCarry, StepTyped, StepFilesFirst, AnswersStay
           DEF IInv

LEMMA DamagePreserves ==
    ASSUME IInv, Damage
    PROVE  IInv'
<1>1. TypeOK /\ UNCHANGED <<result, rows, task>>
      /\ \A t \in Tasks : task[t].pc \in {"idle", "done", "refused", "dead"}
  BY DEF IInv, Damage, Active
<1>2. /\ \A c \in Contents : \/ blob'[c] = blob[c]
                             \/ blob[c] = "whole" /\ blob'[c] = "damaged"
      /\ \A k \in Keys : \/ document'[k] = document[k]
                         \/ document[k] = "whole" /\ document'[k] = "damaged"
  BY DEF IInv, TypeOK, Damage
<1>4. TypeOK'
  BY <1>1 DEF Damage, TypeOK, Files, rows
<1>5. Keyed' /\ FilesFirst'
  BY <1>1, <1>2 DEF IInv, TypeOK, Keyed, FilesFirst, rows, MaterialKeys,
     Artifact, Material
<1>6. ASSUME NEW t \in Tasks PROVE Carries(t)'
  <2>1. Carries(t)
    BY DEF IInv
  <2>2. UploadCarries(t)' /\ ParseCarries(t)' /\ ParseRecords(t)'
    BY <1>1 DEF UploadCarries, ParseCarries, ParseRecords, Uploading, Parsing,
       Parsed, Registered, Proposing, Judged
  <2>3. RunTells(t)' /\ ToldIsKept(t)'
    BY <1>1, <2>1 DEF Carries, RunTells, ToldIsKept, Completed, HasRow, HasDerived,
       HasResult, Key, Content, rows
  <2> QED BY <2>2, <2>3 DEF Carries
<1>7. \A t, u \in Tasks : ToldApart(t, u)'
  BY <1>1 DEF IInv, ToldApart, Key, Content
<1> QED BY <1>4, <1>5, <1>6, <1>7 DEF IInv

LEMMA NextPreserves == IInv /\ [Next]_vars => IInv'
<1> SUFFICES ASSUME IInv, [Next]_vars PROVE IInv'
  OBVIOUS
<1>1. CASE Next
  BY <1>1, StepPreserves, DamagePreserves DEF Next
<1>2. CASE UNCHANGED vars
  <2> USE <1>2 DEF vars
  <2>1. TypeOK' /\ Keyed' /\ FilesFirst'
    BY DEF IInv, TypeOK, Keyed, FilesFirst, MaterialKeys
  <2>2. ASSUME NEW t \in Tasks PROVE Carries(t)'
    <3> USE DEF HasRow, HasDerived, HasResult, Key, Content, MaterialKeys
    <3>1. Carries(t)
      BY DEF IInv
    <3>2. UploadCarries(t)' /\ ParseCarries(t)'
      BY <3>1 DEF Carries, UploadCarries, ParseCarries
    <3>3. ParseRecords(t)'
      BY <3>1 DEF Carries, ParseRecords
    <3>4. RunTells(t)' /\ ToldIsKept(t)'
      BY <3>1 DEF Carries, RunTells, ToldIsKept, Completed
    <3> QED BY <3>2, <3>3, <3>4 DEF Carries
  <2>3. \A t, u \in Tasks : ToldApart(t, u)'
    BY DEF IInv, ToldApart, Key, Content
  <2> QED BY <2>1, <2>2, <2>3 DEF IInv
<1> QED BY <1>1, <1>2

-----------------------------------------------------------------------------
LEMMA Inductive == Spec => []IInv
BY InitHolds, NextPreserves, PTL DEF Spec

\* The statuses of a material that has a row are that row's.
LEMMA OneStatus ==
    ASSUME TypeOK, Keyed, NEW m \in materials
    PROVE  StatusOf(m.key) = {m.status}
BY DEF TypeOK, Keyed, StatusOf

\* Files, tables and tasks hold values of their types.
THEOREM TypesHold == Spec => []TypeOK
<1>1. IInv => TypeOK
  BY DEF IInv
<1> QED BY Inductive, <1>1, PTL

\* Rows of the store never point to files that are missing or half written,
\* whoever died where: materials have their blob, artifacts their document or
\* result, completed runs all of them (register_material,
\* register_material_artifact, complete_extraction).
THEOREM RowsFollowFiles == Spec => []RowsHaveTheirFiles
<1>1. ASSUME IInv PROVE RowsHaveTheirFiles
  <2>1. TypeOK /\ Keyed /\ FilesFirst
    BY <1>1 DEF IInv
  <2>2. ASSUME NEW m \in materials
        PROVE  m.key[1] \in blobRows /\ Cardinality(StatusOf(m.key)) = 1
    BY <2>1, OneStatus, FS_Singleton DEF FilesFirst
  <2>3. \A c \in blobRows : blob[c] \in {"whole", "damaged"}
    BY <2>1 DEF TypeOK, FilesFirst, Files
  <2>4. \A a \in artifacts :
          /\ a.key \in MaterialKeys
          /\ IF a.run = None THEN document[a.key] \in {"whole", "damaged"}
             ELSE a.run \in result
    <3>1. MaterialKeys \subseteq Keys
      BY <2>1 DEF TypeOK, MaterialKeys, Material
    <3> QED BY <2>1, <3>1 DEF TypeOK, FilesFirst, Files
  <2>5. ASSUME NEW t \in Tasks
        PROVE  /\ run[t].fields = Completed(run[t])
               /\ Completed(run[t]) =>
                     /\ \A i \in 1..Len(Derived) :
                          [key |-> run[t].key, kind |-> Derived[i], run |-> None]
                              \in artifacts
                     /\ [key |-> run[t].key, kind |-> "extraction_result",
                         run |-> t] \in artifacts
               /\ run[t].status = "succeeded" => StatusOf(run[t].key) = {"ready"}
    <3>1. RunTells(t)
      BY <1>1 DEF IInv, Carries
    <3>2. run[t].fields = Completed(run[t])
      <4>1. (Completed(run[t]) => run[t].fields = TRUE)
            /\ (~Completed(run[t]) => run[t].fields = FALSE)
        BY <3>1 DEF RunTells
      <4>2. CASE Completed(run[t])
        BY <4>1, <4>2, Completed(run[t]) = TRUE
      <4>3. CASE ~Completed(run[t])
        BY <4>1, <4>3, Completed(run[t]) = FALSE
      <4> QED BY <4>2, <4>3
    <3>3. run[t].status = "succeeded" => StatusOf(run[t].key) = {"ready"}
      BY <2>1, <3>1, OneStatus DEF RunTells, HasRow
    <3> QED BY <3>1, <3>2, <3>3, DerivedIs DEF RunTells, HasDerived, HasResult
  <2> QED BY <2>2, <2>3, <2>4, <2>5 DEF RowsHaveTheirFiles
<1> QED BY Inductive, <1>1, PTL

\* However uploads of one content overlap, one is told that it created the
\* blob, one of each name that it is no duplicate, and all of a name that the
\* material is the one that is stored (register_material).
THEOREM UploadsAgree == Spec => []IngestsAgree
<1>1. ASSUME IInv PROVE IngestsAgree
  <2> USE DEF Answered, Key, Content
  <2>1. ASSUME NEW k \in Keys, NEW t \in Answered(k)
        PROVE  StatusOf(k) = {task[t].told.status}
    <3>1. HasRow(k, task[t].told.status)
      BY <1>1, <2>1 DEF IInv, Carries, ToldIsKept
    <3> QED BY <1>1, <3>1, OneStatus DEF IInv, HasRow
  <2>2. \A k \in Keys : \A t, u \in Answered(k) :
            ~task[t].told.deduplicated /\ ~task[u].told.deduplicated => t = u
    BY <1>1 DEF IInv, ToldApart
  <2>3. \A k, l \in Keys : l[1] = k[1] =>
            \A t \in Answered(k), u \in Answered(l) :
                task[t].told.created /\ task[u].told.created => t = u
    BY <1>1 DEF IInv, ToldApart
  <2> QED BY <2>1, <2>2, <2>3 DEF IngestsAgree
<1> QED BY Inductive, <1>1, PTL

\* A file that went bad is not overwritten, and nothing that uses it ends
\* well from then on (LookForBlob, resolve_original, the comparison of
\* documents).
THEOREM DamageStays == Spec => DamageIsNoticed
<1>1. ASSUME IInv, [Next]_vars
      PROVE  [/\ \A c \in Contents : blob[c] # "none" => blob'[c] \in {blob[c], "damaged"}
              /\ \A k \in Keys : document[k] = "damaged" => document'[k] = "damaged"
              /\ \A t \in Tasks :
                    task'[t].pc = "done" /\ task[t].pc # "done" =>
                       /\ blob[Content(t)] = "whole"
                       /\ task[t].kind # "ingest" => document[Key(t)] = "whole"]_vars
  <2>1. TypeOK /\ FilesFirst /\ \A t \in Tasks : Carries(t)
    BY <1>1 DEF IInv
  <2>2. ASSUME NEW t \in Tasks, Step(t), NEW u \in Tasks,
               task'[u].pc = "done", task[u].pc # "done"
        PROVE  /\ blob[Content(u)] = "whole"
               /\ task[u].kind # "ingest" => document[Key(u)] = "whole"
    <3>1. Kept(t)
      BY <1>1, <2>2, StepKeeps
    <3>2. u = t
      BY <2>2, <3>1 DEF Kept
    <3>3. Register(t) \/ RegisterDerived(t) \/ Complete(t)
      BY <2>1, <2>2, <3>2, PhaseAfter DEF Step
    <3>4. CASE Register(t)
      BY <2>1, <3>2, <3>4 DEF Register, At, Carries, UploadCarries, Uploading
    <3>5. CASE RegisterDerived(t) \/ Complete(t)
      BY <2>1, <3>2, <3>5 DEF RegisterDerived, Complete, At, Carries,
         ParseCarries, Parsed, Registered, Proposing, Judged
    <3> QED BY <3>2, <3>3, <3>4, <3>5
  <2>3. CASE Damage
    BY <2>1, <2>3 DEF Damage, TypeOK
  <2>4. ASSUME NEW t \in Tasks, Step(t)
        PROVE  /\ \A c \in Contents : blob[c] # "none" => blob'[c] \in {blob[c], "damaged"}
               /\ \A k \in Keys : document[k] = "damaged" => document'[k] = "damaged"
    <3>1. Kept(t)
      BY <1>1, <2>4, StepKeeps
    <3> QED BY <2>1, <3>1 DEF Kept, TypeOK, FilesFirst, Files
  <2> QED BY <1>1, <2>2, <2>3, <2>4 DEF Next
<1> QED BY Inductive, <1>1, PTL DEF Spec, DamageIsNoticed
=============================================================================
