----------------------------- MODULE SchemaInit -----------------------------
(***************************************************************************)
(* Opening the database: WorkflowStorage.initialize, which every operation *)
(* runs first.  Threads of several processes initialise one file at the    *)
(* same time, each process with the schema version its code knows; they    *)
(* take a lock of their process, then a lock of the file for which they    *)
(* wait ten seconds at most, and bring the schema forward one migration at *)
(* a time.  A process may die at any point.  After it, an operation writes *)
(* a row.                                                                  *)
(***************************************************************************)
EXTENDS Naturals, FiniteSets

CONSTANTS
    Threads,
    Processes,
    ProcessOf,    \* the process of a thread
    Known,        \* the schema version a process's code knows
    Top,          \* the newest version there is
    Tables,
    Since,        \* the version a table belongs to the schema from
    Found,        \* databases there may be before the first process
    None

ASSUME SchemaAssumption ==
    /\ ProcessOf \in [Threads -> Processes]
    /\ Top \in Nat
    /\ Known \in [Processes -> 1..Top]
    /\ Since \in [Tables -> 1..Top]
    /\ Found \subseteq [version : 0..Top, tables : SUBSET Tables]
    /\ None \notin Threads

VARIABLES
    db,           \* what other connections see: user_version and tables
    rows,         \* rows of each table, by the thread that wrote them
    writer,       \* the thread in a write transaction, or None
    threadLock,   \* by process: the thread that holds its lock, or None
    fileLock,     \* the thread that holds the lock of the file, or None
    thread

vars == <<db, rows, writer, threadLock, fileLock, thread>>

Database == [version : 0..Top, tables : SUBSET Tables]

Phases == {"idle", "queued", "polling", "locked", "looking", "migrating",
           "ready", "writing", "done", "refused", "timed_out", "dead"}

\* version: the user_version the thread has read.
Thread == [pc : Phases, version : 0..Top]

\* _REQUIRED_TABLES_BY_VERSION
Required(v) == {t \in Tables : Since[t] <= v}

Init ==
    /\ db \in Found
    /\ rows = [t \in Tables |-> {}]
    /\ writer = None
    /\ threadLock = [p \in Processes |-> None]
    /\ fileLock = None
    /\ thread = [t \in Threads |-> [pc |-> "idle", version |-> 0]]

At(t, phase) == thread[t].pc = phase
MyLock(t) == threadLock[ProcessOf[t]]
Code(t) == Known[ProcessOf[t]]
Goes(t, phase) == thread' = [thread EXCEPT ![t].pc = phase]

\* Mutant: the lock of the process is left to whoever ends normally.
KeepsThreadLock(t) ==
    /\ fileLock' = IF fileLock = t THEN None ELSE fileLock
    /\ threadLock' = IF fileLock = t
                     THEN [threadLock EXCEPT ![ProcessOf[t]] = None]
                     ELSE threadLock

\* The contexts of both locks are left; _INITIALIZATION_THREAD_LOCK last.
Unlocked(t) ==
    /\ fileLock' = IF fileLock = t THEN None ELSE fileLock
    /\ threadLock' = [threadLock EXCEPT ![ProcessOf[t]] = None]

Call(t) ==
    /\ At(t, "idle")
    /\ Goes(t, "queued")
    /\ UNCHANGED <<db, rows, writer, threadLock, fileLock>>

LockThread(t) ==
    /\ At(t, "queued") /\ MyLock(t) = None
    /\ threadLock' = [threadLock EXCEPT ![ProcessOf[t]] = t]
    /\ Goes(t, "polling")
    /\ UNCHANGED <<db, rows, writer, fileLock>>

LockFile(t) ==
    /\ At(t, "polling") /\ fileLock = None
    /\ fileLock' = t
    /\ Goes(t, "locked")
    /\ UNCHANGED <<db, rows, writer, threadLock>>

\* Another process held the lock until the deadline.
TimeOut(t) ==
    /\ At(t, "polling") /\ fileLock # None
    /\ Goes(t, "timed_out")
    /\ Unlocked(t)
    /\ UNCHANGED <<db, rows, writer>>

Refuse(t) ==
    /\ Goes(t, "refused")
    /\ Unlocked(t)
    /\ UNCHANGED <<db, rows, writer>>

\* The version is read: a newer one is refused, and so is a database that
\* has tables and no version.
ReadVersion(t) ==
    /\ At(t, "locked")
    /\ IF \/ db.version > Code(t)
          \/ db.version = 0 /\ db.tables # {}
       THEN Refuse(t)
       ELSE /\ thread' = [thread EXCEPT ![t] = [pc |-> "looking",
                                                version |-> db.version]]
            /\ UNCHANGED <<db, rows, writer, threadLock, fileLock>>

\* Mutant: the tables of the version that was found are not verified.
BeginUnverified(t) ==
    /\ At(t, "looking") /\ thread[t].version < Code(t)
    /\ writer = None
    /\ writer' = t
    /\ Goes(t, "migrating")
    /\ UNCHANGED <<db, rows, threadLock, fileLock>>

\* BEGIN IMMEDIATE of schema.sql or of the next migration.  Before it the
\* tables of the version are verified.
BeginMigration(t) ==
    /\ At(t, "looking") /\ thread[t].version < Code(t)
    /\ thread[t].version > 0 => Required(thread[t].version) \subseteq db.tables
    /\ writer = None
    /\ writer' = t
    /\ Goes(t, "migrating")
    /\ UNCHANGED <<db, rows, threadLock, fileLock>>

\* The tables that are required are missing, or another connection keeps the
\* database busy for longer than five seconds.
FailMigration(t) ==
    /\ At(t, "looking")
    /\ \/ ~(Required(thread[t].version) \subseteq db.tables)
       \/ thread[t].version < Code(t) /\ writer # None
    /\ Refuse(t)

\* Mutant: a table is rebuilt without the rows it had.
CommitEmptied(t) ==
    /\ At(t, "migrating")
    /\ db' = [version |-> thread[t].version + 1,
              tables |-> db.tables \cup Required(thread[t].version + 1)]
    /\ rows' = [n \in Tables |->
                   IF n \in db.tables THEN {} ELSE rows[n]]
    /\ writer' = None
    /\ thread' = [thread EXCEPT ![t] = [pc |-> "looking",
                                        version |-> @.version + 1]]
    /\ UNCHANGED <<threadLock, fileLock>>

\* The script ends with its PRAGMA user_version and COMMIT.  Migrations
\* create tables, or create them anew and copy the rows that are there.
CommitMigration(t) ==
    /\ At(t, "migrating")
    /\ db' = [version |-> thread[t].version + 1,
              tables |-> db.tables \cup Required(thread[t].version + 1)]
    /\ writer' = None
    /\ thread' = [thread EXCEPT ![t] = [pc |-> "looking",
                                        version |-> @.version + 1]]
    /\ UNCHANGED <<rows, threadLock, fileLock>>

\* The schema is the code's and its tables are there.
Initialized(t) ==
    /\ At(t, "looking") /\ thread[t].version = Code(t)
    /\ Required(Code(t)) \subseteq db.tables
    /\ Goes(t, "ready")
    /\ Unlocked(t)
    /\ UNCHANGED <<db, rows, writer>>

\* The operation itself writes in a transaction of its own, without the
\* locks.
BeginWrite(t) ==
    /\ At(t, "ready") /\ writer = None
    /\ writer' = t
    /\ Goes(t, "writing")
    /\ UNCHANGED <<db, rows, threadLock, fileLock>>

CommitWrite(t) ==
    /\ At(t, "writing")
    /\ \E n \in Required(Code(t)) :
          rows' = [rows EXCEPT ![n] = @ \cup {t}]
    /\ writer' = None
    /\ Goes(t, "done")
    /\ UNCHANGED <<db, threadLock, fileLock>>

\* The database is busy for longer than five seconds.
FailWrite(t) ==
    /\ At(t, "ready") /\ writer # None
    /\ Goes(t, "done")
    /\ UNCHANGED <<db, rows, writer, threadLock, fileLock>>

\* A process dies with all its threads: the system drops the lock of the
\* file, SQLite the transaction.
Die(p) ==
    LET gone == {t \in Threads : ProcessOf[t] = p} IN
    /\ \E t \in gone : thread[t].pc \notin {"idle", "dead"}
    /\ thread' = [t \in Threads |->
                     IF t \in gone THEN [thread[t] EXCEPT !.pc = "dead"]
                     ELSE thread[t]]
    /\ writer' = IF writer \in gone THEN None ELSE writer
    /\ fileLock' = IF fileLock \in gone THEN None ELSE fileLock
    /\ UNCHANGED <<db, rows, threadLock>>

Work(t) ==
    \/ LockThread(t) \/ LockFile(t) \/ TimeOut(t) \/ ReadVersion(t)
    \/ BeginMigration(t) \/ FailMigration(t) \/ CommitMigration(t)
    \/ Initialized(t) \/ BeginWrite(t) \/ CommitWrite(t) \/ FailWrite(t)

Next ==
    \/ \E t \in Threads : Call(t) \/ Work(t)
    \/ \E p \in Processes : Die(p)

\* Polling has a deadline, waiting for the database a time limit, and
\* scripts end.
Spec == Init /\ [][Next]_vars /\ \A t \in Threads : WF_vars(Work(t))

-----------------------------------------------------------------------------
(***************************************************************************)
(* Properties                                                              *)
(***************************************************************************)

\* Variables hold values of their types.
TypeOK ==
    /\ db \in Database
    /\ rows \in [Tables -> SUBSET Threads]
    /\ writer \in Threads \cup {None}
    /\ threadLock \in [Processes -> Threads \cup {None}]
    /\ fileLock \in Threads \cup {None}
    /\ thread \in [Threads -> Thread]

\* A database that has the tables of its version.
Whole(d) == Required(d.version) \subseteq d.tables

\* Whoever works with the database works on a whole schema that is not older
\* than its code, and only one thread at a time migrates it; what it read
\* before is still so, whoever died meanwhile.
MigratedAlone ==
    /\ \A t \in Threads :
          /\ thread[t].pc \in {"ready", "writing"} =>
                Whole(db) /\ db.version >= Code(t)
          /\ thread[t].pc \in {"looking", "migrating"} =>
                fileLock = t /\ thread[t].version = db.version
          /\ thread[t].pc = "migrating" => Whole(db)
    /\ \A t \in Threads : \A n \in Tables : t \in rows[n] => n \in db.tables

\* The schema goes forward one version at a time and never back, rows and
\* tables stay, and a database that is not whole, or has tables but no
\* version, is left as it was found.
OnlyForward ==
    [][/\ db'.version \in {db.version, db.version + 1}
       /\ db.tables \subseteq db'.tables
       /\ \A n \in Tables : rows[n] \subseteq rows'[n]
       /\ ~Whole(db) \/ (db.version = 0 /\ db.tables # {}) => db' = db]_vars

\* An operation that was called ends, whoever else holds the locks or dies
\* with them.
OperationsEnd ==
    \A t \in Threads :
        At(t, "queued") ~>
            thread[t].pc \in {"done", "refused", "timed_out", "dead"}
=============================================================================
