------------------------- MODULE SchemaInit_proofs -------------------------
(***************************************************************************)
(* Opening the database, for any threads, processes, schema versions and   *)
(* databases found.                                                        *)
(***************************************************************************)
EXTENDS SchemaInit, TLAPS

\* The phases in which a thread holds the lock of the file, and those in
\* which it has a write transaction.
Inside == {"locked", "looking", "migrating"}
Writes == {"migrating", "writing"}

\* Who holds a lock or the transaction knows it.
LocksAreHeld ==
    \A t \in Threads :
        /\ fileLock = t <=> thread[t].pc \in Inside
        /\ writer = t <=> thread[t].pc \in Writes

\* What a thread that looks or migrates has verified.
Verified ==
    \A t \in Threads :
        /\ thread[t].pc \in {"looking", "migrating"} =>
              /\ thread[t].version <= Code(t)
              /\ db.version = 0 => db.tables = {}
        /\ thread[t].pc = "migrating" => thread[t].version < Code(t)

IInv == TypeOK /\ LocksAreHeld /\ Verified /\ MigratedAlone

\* A schema has the tables of every version up to its own, and version zero
\* none.
LEMMA RequiredGrows ==
    /\ \A v, w \in 0..Top : v <= w => Required(v) \subseteq Required(w)
    /\ Required(0) = {}
BY SchemaAssumption DEF Required

LEMMA CodeIsAVersion == \A t \in Threads : Code(t) \in 1..Top
BY SchemaAssumption DEF Code

\* How the thread of a step changes, and nobody else.
LEMMA StepOfOne ==
    ASSUME TypeOK, NEW t \in Threads, Call(t) \/ Work(t)
    PROVE  \A u \in Threads \ {t} : thread'[u] = thread[u]
BY DEF TypeOK, Call, Work, LockThread, LockFile, TimeOut, ReadVersion, Refuse,
       BeginMigration, FailMigration, CommitMigration, Initialized, BeginWrite,
       CommitWrite, FailWrite, Goes

LEMMA InitHolds == Init => IInv
BY SchemaAssumption
   DEF Init, IInv, TypeOK, LocksAreHeld, Verified, MigratedAlone, Database,
       Thread, Phases, Inside, Writes

\* A thread that changes keeps the type of a thread.
LEMMA GoesTyped ==
    ASSUME TypeOK, NEW t \in Threads, NEW p \in Phases, Goes(t, p)
    PROVE  thread' \in [Threads -> Thread]
BY DEF TypeOK, Thread, Goes

LEMMA LooksTyped ==
    ASSUME TypeOK, NEW t \in Threads, NEW v \in 0..Top,
           thread' = [thread EXCEPT ![t] = [pc |-> "looking", version |-> v]]
    PROVE  thread' \in [Threads -> Thread]
BY DEF TypeOK, Thread, Phases

\* The phases a thread goes to.
LEMMA Going ==
    {"queued", "polling", "locked", "migrating", "ready", "writing", "done",
     "refused", "timed_out"} \subseteq Phases
BY DEF Phases

LEMMA UnlockedTyped ==
    ASSUME TypeOK, NEW t \in Threads, Unlocked(t)
    PROVE  /\ threadLock' \in [Processes -> Threads \cup {None}]
           /\ fileLock' \in Threads \cup {None}
BY SchemaAssumption DEF TypeOK, Unlocked

LEMMA TypedStep ==
    ASSUME TypeOK, Verified, Next
    PROVE  TypeOK'
<1>1. ASSUME NEW t \in Threads,
             Call(t) \/ LockThread(t) \/ LockFile(t) \/ BeginMigration(t)
                \/ BeginWrite(t) \/ FailWrite(t)
      PROVE  TypeOK'
  <2>1. thread' \in [Threads -> Thread]
    BY <1>1, GoesTyped, Going
       DEF Call, LockThread, LockFile, BeginMigration, BeginWrite, FailWrite
  <2>2. threadLock' \in [Processes -> Threads \cup {None}]
    BY <1>1, SchemaAssumption
       DEF TypeOK, Call, LockThread, LockFile, BeginMigration, BeginWrite,
           FailWrite
  <2> QED
    BY <1>1, <2>1, <2>2
       DEF TypeOK, Call, LockThread, LockFile, BeginMigration, BeginWrite,
           FailWrite
<1>2. ASSUME NEW t \in Threads,
             TimeOut(t) \/ FailMigration(t) \/ Initialized(t) \/ Refuse(t),
             UNCHANGED <<db, rows, writer>>
      PROVE  TypeOK'
  <2>1. thread' \in [Threads -> Thread]
    BY <1>2, GoesTyped, Going DEF TimeOut, FailMigration, Refuse, Initialized
  <2>2. Unlocked(t)
    BY <1>2 DEF TimeOut, FailMigration, Refuse, Initialized
  <2> QED
    BY <1>2, <2>1, <2>2, UnlockedTyped DEF TypeOK
<1>3. ASSUME NEW t \in Threads, ReadVersion(t) PROVE TypeOK'
  <2>1. CASE Refuse(t)
    BY <1>2, <2>1 DEF Refuse
  <2>2. CASE ~Refuse(t)
    <3>1. db.version \in 0..Top
      BY DEF TypeOK, Database
    <3>2. thread' = [thread EXCEPT ![t] = [pc |-> "looking",
                                           version |-> db.version]]
      BY <1>3, <2>2 DEF ReadVersion
    <3>3. thread' \in [Threads -> Thread]
      BY <3>1, <3>2, LooksTyped
    <3> QED BY <1>3, <2>2, <3>3 DEF TypeOK, ReadVersion
  <2> QED BY <2>1, <2>2
<1>4. ASSUME NEW t \in Threads, CommitMigration(t) PROVE TypeOK'
  <2>1. thread[t].version + 1 \in 0..Top
    BY <1>4, CodeIsAVersion, SchemaAssumption
       DEF TypeOK, Thread, Verified, CommitMigration, At
  <2>2. Required(thread[t].version + 1) \subseteq Tables
    BY DEF Required
  <2>3. db' \in Database
    BY <1>4, <2>1, <2>2 DEF TypeOK, Database, CommitMigration
  <2>4. thread' = [thread EXCEPT ![t] = [pc |-> "looking",
                                         version |-> thread[t].version + 1]]
    BY <1>4 DEF TypeOK, CommitMigration
  <2>5. thread' \in [Threads -> Thread]
    BY <2>1, <2>4, LooksTyped
  <2> QED BY <1>4, <2>3, <2>5 DEF TypeOK, CommitMigration
<1>5. ASSUME NEW t \in Threads, CommitWrite(t) PROVE TypeOK'
  <2>1. rows' \in [Tables -> SUBSET Threads]
    BY <1>5 DEF TypeOK, CommitWrite
  <2>2. thread' \in [Threads -> Thread]
    BY <1>5, GoesTyped, Going DEF CommitWrite
  <2> QED BY <1>5, <2>1, <2>2 DEF TypeOK, CommitWrite
<1>6. ASSUME NEW p \in Processes, Die(p) PROVE TypeOK'
  BY <1>6 DEF TypeOK, Die, Thread, Phases
<1> QED
  BY <1>1, <1>2, <1>3, <1>4, <1>5, <1>6
     DEF Next, Work, TimeOut, FailMigration, Refuse, Initialized

\* Nobody takes a lock or begins a transaction that another has, and who
\* leaves gives back what it holds.
LEMMA LocksStep ==
    ASSUME TypeOK, LocksAreHeld, Next
    PROVE  LocksAreHeld'
<1>1. ASSUME NEW t \in Threads, Call(t) \/ Work(t) PROVE LocksAreHeld'
  <2> SUFFICES ASSUME NEW u \in Threads
               PROVE  /\ fileLock' = u <=> thread'[u].pc \in Inside
                      /\ writer' = u <=> thread'[u].pc \in Writes
    BY DEF LocksAreHeld
  <2>1. \A v \in Threads : v # t => thread'[v] = thread[v]
    BY <1>1, StepOfOne
  <2>2. /\ \A v \in Threads : fileLock = v <=> thread[v].pc \in Inside
        /\ \A v \in Threads : writer = v <=> thread[v].pc \in Writes
        /\ None \notin Threads
    BY SchemaAssumption DEF LocksAreHeld
  <2>3. CASE Call(t) \/ LockThread(t) \/ FailWrite(t)
    <3>1. thread'[t].pc \notin Inside \cup Writes
          /\ thread[t].pc \notin Inside \cup Writes
          /\ UNCHANGED <<fileLock, writer>>
      BY <2>3 DEF TypeOK, Thread, Call, LockThread, FailWrite, Goes, At, Inside,
                  Writes
    <3> QED BY <2>1, <2>2, <3>1
  <2>4. CASE LockFile(t)
    BY <2>1, <2>2, <2>4
       DEF TypeOK, Thread, LockFile, Goes, At, Inside, Writes
  <2>5. CASE TimeOut(t)
    BY <2>1, <2>2, <2>5
       DEF TypeOK, Thread, TimeOut, Unlocked, Goes, At, Inside, Writes
  <2>6. CASE Refuse(t) /\ (At(t, "locked") \/ At(t, "looking"))
    BY <2>1, <2>2, <2>6
       DEF TypeOK, Thread, Refuse, Unlocked, Goes, At, Inside, Writes
  <2>7. CASE ReadVersion(t) /\ ~Refuse(t)
    BY <2>1, <2>2, <2>7
       DEF TypeOK, Thread, ReadVersion, Goes, At, Inside, Writes
  <2>8. CASE BeginMigration(t)
    BY <2>1, <2>2, <2>8
       DEF TypeOK, Thread, BeginMigration, Goes, At, Inside, Writes
  <2>9. CASE CommitMigration(t)
    BY <2>1, <2>2, <2>9
       DEF TypeOK, Thread, CommitMigration, Goes, At, Inside, Writes
  <2>10. CASE Initialized(t)
    BY <2>1, <2>2, <2>10
       DEF TypeOK, Thread, Initialized, Unlocked, Goes, At, Inside, Writes
  <2>11. CASE BeginWrite(t)
    BY <2>1, <2>2, <2>11
       DEF TypeOK, Thread, BeginWrite, Goes, At, Inside, Writes
  <2>12. CASE CommitWrite(t)
    BY <2>1, <2>2, <2>12
       DEF TypeOK, Thread, CommitWrite, Goes, At, Inside, Writes
  <2> QED
    BY <1>1, <2>3, <2>4, <2>5, <2>6, <2>7, <2>8, <2>9, <2>10, <2>11, <2>12
       DEF Work, FailMigration, ReadVersion
<1>2. ASSUME NEW p \in Processes, Die(p) PROVE LocksAreHeld'
  BY <1>2, SchemaAssumption
     DEF TypeOK, Thread, LocksAreHeld, Die, Inside, Writes
<1> QED BY <1>1, <1>2 DEF Next

\* The database and its rows change by a migration or a write only.
LEMMA StoreSteps ==
    ASSUME Next
    PROVE  \/ UNCHANGED <<db, rows>>
           \/ \E t \in Threads : CommitMigration(t) \/ CommitWrite(t)
BY DEF Next, Call, Work, LockThread, LockFile, TimeOut, ReadVersion, Refuse,
       BeginMigration, FailMigration, Initialized, BeginWrite, FailWrite, Die

\* A migration is the step of the only thread inside, on a whole database of
\* the version it read.
LEMMA Migrating ==
    ASSUME IInv, NEW t \in Threads, CommitMigration(t)
    PROVE  /\ Whole(db) /\ Whole(db)'
           /\ thread[t].version = db.version
           /\ db'.version = db.version + 1
           /\ db.tables \subseteq db'.tables
           /\ db.version = 0 => db.tables = {}
           /\ \A u \in Threads : u # t => thread[u].pc \notin Inside
<1>1. At(t, "migrating")
  BY DEF CommitMigration
<1>2. /\ Whole(db) /\ fileLock = t /\ thread[t].version = db.version
      /\ db.version = 0 => db.tables = {}
  BY <1>1 DEF IInv, MigratedAlone, Verified, At
<1>3. db' = [version |-> db.version + 1,
             tables |-> db.tables \cup Required(db.version + 1)]
  BY <1>2 DEF CommitMigration
<1>4. Whole(db)'
  BY <1>3 DEF Whole
<1>5. \A u \in Threads : u # t => thread[u].pc \notin Inside
  BY <1>2 DEF IInv, LocksAreHeld
<1> QED BY <1>2, <1>3, <1>4, <1>5

\* How a step of a thread takes it to the phases that claim something.
LEMMA Arrivals ==
    ASSUME TypeOK, NEW t \in Threads, Call(t) \/ Work(t)
    PROVE  /\ thread'[t].pc = "looking" =>
                 \/ /\ ReadVersion(t) /\ thread'[t].version = db.version
                    /\ db.version <= Code(t)
                    /\ db.version = 0 => db.tables = {}
                 \/ /\ CommitMigration(t)
                    /\ thread'[t].version = thread[t].version + 1
           /\ thread'[t].pc = "migrating" =>
                 /\ BeginMigration(t) /\ thread'[t].version = thread[t].version
           /\ thread'[t].pc \in {"ready", "writing"} =>
                 Initialized(t) \/ BeginWrite(t)
<1>1. CASE Call(t) \/ LockThread(t) \/ LockFile(t) \/ FailWrite(t)
  BY <1>1 DEF TypeOK, Thread, Call, LockThread, LockFile, FailWrite, Goes
<1>2. CASE TimeOut(t) \/ Refuse(t)
  BY <1>2 DEF TypeOK, Thread, TimeOut, Refuse, Goes
<1>3. CASE ReadVersion(t) /\ ~Refuse(t)
  BY <1>3, CodeIsAVersion DEF TypeOK, Thread, Database, ReadVersion
<1>4. CASE BeginMigration(t)
  BY <1>4 DEF TypeOK, Thread, BeginMigration, Goes
<1>5. CASE CommitMigration(t)
  BY <1>5 DEF TypeOK, Thread, CommitMigration
<1>6. CASE Initialized(t) \/ BeginWrite(t)
  BY <1>6 DEF TypeOK, Thread, Initialized, BeginWrite, Goes
<1>7. CASE CommitWrite(t)
  BY <1>7 DEF TypeOK, Thread, CommitWrite, Goes
<1> QED
  BY <1>1, <1>2, <1>3, <1>4, <1>5, <1>6, <1>7
     DEF Work, FailMigration, ReadVersion

\* Nobody else's step changes what a thread inside has verified.
LEMMA OthersInside ==
    ASSUME IInv, NEW t \in Threads, Call(t) \/ Work(t),
           NEW u \in Threads, u # t
    PROVE  /\ thread'[u] = thread[u]
           /\ thread[u].pc \in Inside => db' = db
<1>1. thread'[u] = thread[u]
  BY StepOfOne DEF IInv
<1>2. db' = db \/ CommitMigration(t)
  BY DEF Call, Work, LockThread, LockFile, TimeOut, ReadVersion, Refuse,
         BeginMigration, FailMigration, Initialized, BeginWrite, FailWrite,
         CommitWrite
<1> QED BY <1>1, <1>2, Migrating

LEMMA VerifiedStep ==
    ASSUME IInv, Next
    PROVE  Verified'
<1>1. ASSUME NEW t \in Threads, Call(t) \/ Work(t), NEW u \in Threads
      PROVE  /\ thread'[u].pc \in {"looking", "migrating"} =>
                   /\ thread'[u].version <= Code(u)
                   /\ db'.version = 0 => db'.tables = {}
             /\ thread'[u].pc = "migrating" => thread'[u].version < Code(u)
  <2>1. CASE u # t
    BY <1>1, <2>1, OthersInside DEF IInv, Verified, Inside
  <2>2. CASE u = t /\ thread'[t].pc = "looking" /\ ReadVersion(t)
    BY <1>1, <2>2, Arrivals
       DEF IInv, ReadVersion, Refuse, CommitMigration, At
  <2>3. CASE u = t /\ thread'[t].pc = "looking" /\ CommitMigration(t)
    <3>1. thread'[t].version = thread[t].version + 1
      BY <2>3 DEF IInv, TypeOK, Thread, CommitMigration
    <3>2. thread[t].version < Code(t) /\ thread[t].version \in 0..Top
      BY <2>3 DEF IInv, TypeOK, Thread, Verified, CommitMigration, At
    <3>3. db'.version = db.version + 1 /\ db.version \in 0..Top
      BY <2>3, Migrating DEF IInv, TypeOK, Database
    <3> QED
      BY <2>3, <3>1, <3>2, <3>3, CodeIsAVersion, SchemaAssumption
  <2>4. CASE u = t /\ thread'[t].pc = "migrating"
    BY <1>1, <2>4, Arrivals DEF IInv, Verified, BeginMigration, At
  <2> QED BY <1>1, <2>1, <2>2, <2>3, <2>4, Arrivals DEF IInv
<1>2. ASSUME NEW t \in Threads, Call(t) \/ Work(t) PROVE Verified'
  BY <1>1, <1>2 DEF Verified, Code
<1>3. ASSUME NEW p \in Processes, Die(p) PROVE Verified'
  BY <1>3 DEF IInv, TypeOK, Thread, Verified, Die, Code
<1> QED BY <1>2, <1>3 DEF Next

\* Who got past the schema keeps a whole one that is new enough: migrations
\* only bring it forward.
LEMMA WorkersStep ==
    ASSUME IInv, Next, NEW u \in Threads,
           thread'[u].pc \in {"ready", "writing"}
    PROVE  Whole(db)' /\ db'.version >= Code(u)
<1>1. db.version \in 0..Top /\ Code(u) \in 1..Top /\ Top \in Nat
  BY CodeIsAVersion, SchemaAssumption DEF IInv, TypeOK, Database
<1>2. ASSUME Whole(db), db.version >= Code(u)
      PROVE  Whole(db)' /\ db'.version >= Code(u)
  <2>1. CASE UNCHANGED db
    BY <1>2, <2>1 DEF Whole
  <2>2. CASE \E t \in Threads : CommitMigration(t)
    BY <1>1, <1>2, <2>2, Migrating
  <2> QED BY <2>1, <2>2, StoreSteps DEF CommitWrite
<1>3. CASE thread[u].pc \in {"ready", "writing"}
  BY <1>2, <1>3 DEF IInv, MigratedAlone
<1>4. CASE Initialized(u)
  BY <1>1, <1>2, <1>4 DEF IInv, MigratedAlone, Initialized, At, Whole
<1>5. CASE BeginWrite(u)
  BY <1>3, <1>5 DEF BeginWrite, At
<1>6. thread'[u] = thread[u] \/ thread'[u].pc = "dead"
         \/ Call(u) \/ Work(u)
  <2>1. ASSUME NEW t \in Threads, Call(t) \/ Work(t), t # u
        PROVE  thread'[u] = thread[u]
    BY <2>1, StepOfOne DEF IInv
  <2>2. ASSUME NEW p \in Processes, Die(p)
        PROVE  thread'[u] = thread[u] \/ thread'[u].pc = "dead"
    BY <2>2 DEF IInv, TypeOK, Thread, Die
  <2> QED BY <2>1, <2>2 DEF Next
<1> QED
  BY <1>3, <1>4, <1>5, <1>6, Arrivals DEF IInv

\* Rows are in tables that exist.
LEMMA RowsStep ==
    ASSUME IInv, Next, NEW u \in Threads, NEW n \in Tables, u \in rows'[n]
    PROVE  n \in db'.tables
<1>1. CASE UNCHANGED <<db, rows>>
  BY <1>1 DEF IInv, MigratedAlone
<1>2. CASE \E t \in Threads : CommitMigration(t)
  <2> PICK t \in Threads : CommitMigration(t)
    BY <1>2
  <2>1. u \in rows[n]
    BY DEF CommitMigration
  <2> QED BY <2>1, Migrating DEF IInv, MigratedAlone
<1>3. CASE \E t \in Threads : CommitWrite(t)
  <2> PICK t \in Threads : CommitWrite(t)
    BY <1>3
  <2>1. Whole(db) /\ db.version >= Code(t)
    BY DEF IInv, MigratedAlone, CommitWrite, At
  <2>2. Required(Code(t)) \subseteq db.tables
    <3>1. db.version \in 0..Top /\ Code(t) \in 1..Top /\ Top \in Nat
      BY CodeIsAVersion, SchemaAssumption DEF IInv, TypeOK, Database
    <3>2. Code(t) \in 0..Top /\ Code(t) <= db.version
      BY <2>1, <3>1
    <3> QED BY <2>1, <3>1, <3>2, RequiredGrows DEF Whole
  <2>3. u \in rows[n] \/ n \in Required(Code(t))
    BY DEF IInv, TypeOK, CommitWrite
  <2>4. db' = db
    BY DEF CommitWrite
  <2> QED BY <2>2, <2>3, <2>4 DEF IInv, MigratedAlone
<1> QED BY <1>1, <1>2, <1>3, StoreSteps

\* What a thread inside has read is still so.
LEMMA InsideStep ==
    ASSUME IInv, Next, LocksAreHeld', NEW u \in Threads
    PROVE  /\ thread'[u].pc \in {"looking", "migrating"} =>
                 fileLock' = u /\ thread'[u].version = db'.version
           /\ thread'[u].pc = "migrating" => Whole(db)'
<1>1. thread'[u].pc \in {"looking", "migrating"} => fileLock' = u
  BY DEF LocksAreHeld, Inside
<1>2. ASSUME NEW t \in Threads, Call(t) \/ Work(t), t # u
      PROVE  /\ thread'[u].pc \in {"looking", "migrating"} =>
                   thread'[u].version = db'.version
             /\ thread'[u].pc = "migrating" => Whole(db)'
  BY <1>2, OthersInside DEF IInv, MigratedAlone, Inside, Whole
<1>3. ASSUME NEW p \in Processes, Die(p)
      PROVE  /\ thread'[u].pc \in {"looking", "migrating"} =>
                   thread'[u].version = db'.version
             /\ thread'[u].pc = "migrating" => Whole(db)'
  BY <1>3 DEF IInv, TypeOK, Thread, MigratedAlone, Die, Whole
<1>4. CASE Call(u) \/ Work(u)
  <2>1. CASE thread'[u].pc = "looking" /\ ReadVersion(u)
    BY <1>1, <1>4, <2>1, Arrivals
       DEF IInv, ReadVersion, Refuse, CommitMigration, At
  <2>2. CASE thread'[u].pc = "looking" /\ CommitMigration(u)
    BY <1>1, <2>2, Migrating DEF IInv, TypeOK, CommitMigration
  <2>3. CASE thread'[u].pc = "migrating"
    <3>1. /\ BeginMigration(u) /\ thread'[u].version = thread[u].version
          /\ db' = db
      BY <1>4, <2>3, Arrivals DEF IInv, BeginMigration
    <3>2. thread[u].version = db.version /\ db.version \in 0..Top
      BY <3>1 DEF IInv, MigratedAlone, BeginMigration, At, TypeOK, Database
    <3>3. Whole(db)
      BY <3>1, <3>2, RequiredGrows DEF BeginMigration, Whole
    <3> QED BY <1>1, <3>1, <3>2, <3>3 DEF Whole
  <2> QED BY <1>1, <1>4, <2>1, <2>2, <2>3, Arrivals DEF IInv
<1> QED BY <1>1, <1>2, <1>3, <1>4 DEF Next

LEMMA InvStep == IInv /\ [Next]_vars => IInv'
<1>1. CASE UNCHANGED vars
  BY <1>1 DEF vars, IInv, TypeOK, LocksAreHeld, Verified, MigratedAlone, Whole,
              Code
<1>2. ASSUME IInv, Next PROVE IInv'
  <2>1. TypeOK' /\ LocksAreHeld' /\ Verified'
    BY <1>2, TypedStep, LocksStep, VerifiedStep DEF IInv
  <2>2. MigratedAlone'
    BY <1>2, <2>1, WorkersStep, RowsStep, InsideStep
       DEF MigratedAlone, Whole, Code
  <2> QED BY <2>1, <2>2 DEF IInv
<1> QED BY <1>1, <1>2

-----------------------------------------------------------------------------
\* Whoever works with the database works on a whole schema that is new
\* enough, and one thread migrates at a time, for any threads and processes.
THEOREM OneMigratesWhole == Spec => []MigratedAlone
<1>1. IInv => MigratedAlone
  BY DEF IInv
<1> QED BY InitHolds, InvStep, <1>1, PTL DEF Spec

\* The schema goes forward a version at a time, rows and tables stay, and a
\* database that is not whole is left as it was.
THEOREM SchemaGoesForward == Spec => OnlyForward
<1>1. ASSUME IInv, [Next]_vars
      PROVE  [/\ db'.version \in {db.version, db.version + 1}
              /\ db.tables \subseteq db'.tables
              /\ \A n \in Tables : rows[n] \subseteq rows'[n]
              /\ ~Whole(db) \/ (db.version = 0 /\ db.tables # {})
                    => db' = db]_vars
  <2> SUFFICES ASSUME Next
               PROVE  /\ db'.version \in {db.version, db.version + 1}
                      /\ db.tables \subseteq db'.tables
                      /\ \A n \in Tables : rows[n] \subseteq rows'[n]
                      /\ ~Whole(db) \/ (db.version = 0 /\ db.tables # {})
                            => db' = db
    BY <1>1
  <2>1. CASE UNCHANGED <<db, rows>>
    BY <2>1
  <2>2. CASE \E t \in Threads : CommitMigration(t)
    BY <1>1, <2>2, Migrating DEF CommitMigration
  <2>3. CASE \E t \in Threads : CommitWrite(t)
    BY <1>1, <2>3 DEF IInv, TypeOK, CommitWrite
  <2> QED BY <2>1, <2>2, <2>3, StoreSteps
<1> QED BY InitHolds, InvStep, <1>1, PTL DEF Spec, OnlyForward


-----------------------------------------------------------------------------
(***************************************************************************)
(* What OperationsEnd rests on besides fairness: a thread has only so many *)
(* steps left, and never waits for one that waits itself.                  *)
(***************************************************************************)

\* The phases in which a thread holds the lock of its process, and those in
\* which its operation is over.
Critical == {"polling", "locked", "looking", "migrating"}
Ended == {"done", "refused", "timed_out", "dead"}

\* The steps a thread may still take, its death counted as one: two for each
\* migration that is to come.
StepsLeft(t) ==
    LET c == Code(t)
        v == thread[t].version
    IN  CASE At(t, "idle")      -> 2 * c + 8
          [] At(t, "queued")    -> 2 * c + 7
          [] At(t, "polling")   -> 2 * c + 6
          [] At(t, "locked")    -> 2 * c + 5
          [] At(t, "looking")   -> 2 * (c - v) + 4
          [] At(t, "migrating") -> 2 * (c - v) + 3
          [] At(t, "ready")     -> 3
          [] At(t, "writing")   -> 2
          [] At(t, "dead")      -> 0
          [] OTHER              -> 1

\* The guard of one of the actions of Work.
CanWork(t) ==
    \/ At(t, "queued") /\ MyLock(t) = None
    \/ thread[t].pc \in {"polling", "locked", "migrating", "ready"}
    \/ /\ At(t, "looking")
       /\ \/ ~(Required(thread[t].version) \subseteq db.tables)
          \/ thread[t].version <= Code(t)
    \/ At(t, "writing") /\ Required(Code(t)) # {}

\* Who works under the lock of its process has it, and who has it works
\* under it or died; a process dies as a whole.
ThreadLocks ==
    /\ \A t \in Threads : thread[t].pc \in Critical => MyLock(t) = t
    /\ \A t \in Threads : MyLock(t) # None =>
          /\ ProcessOf[MyLock(t)] = ProcessOf[t]
          /\ thread[MyLock(t)].pc \in Critical \cup {"dead"}
    /\ \A t, u \in Threads :
          ProcessOf[t] = ProcessOf[u] /\ thread[t].pc = "dead" =>
              thread[u].pc = "dead"

\* What a step of one thread does to its own phase and to the lock of its
\* process.
LEMMA LockMoves ==
    ASSUME TypeOK, NEW t \in Threads, Call(t) \/ Work(t)
    PROVE  /\ thread[t].pc \notin {"dead"} /\ thread'[t].pc # "dead"
           /\ \/ /\ threadLock' = threadLock
                 /\ thread[t].pc \in Critical <=> thread'[t].pc \in Critical
              \/ /\ MyLock(t) = None /\ thread'[t].pc \in Critical
                 /\ threadLock' = [threadLock EXCEPT ![ProcessOf[t]] = t]
              \/ /\ thread[t].pc \in Critical /\ thread'[t].pc \notin Critical
                 /\ threadLock' = [threadLock EXCEPT ![ProcessOf[t]] = None]
<1> USE DEF Critical, At, Goes
<1>1. CASE Call(t)
  BY <1>1 DEF Call, TypeOK, Thread
<1>2. CASE LockThread(t)
  BY <1>2 DEF LockThread, TypeOK, Thread
<1>3. CASE LockFile(t) \/ BeginMigration(t)
  BY <1>3 DEF LockFile, BeginMigration, TypeOK, Thread
<1>4. CASE TimeOut(t) \/ Initialized(t) \/ FailMigration(t)
  BY <1>4 DEF TimeOut, Initialized, FailMigration, Refuse, Unlocked, TypeOK,
              Thread
<1>5. CASE ReadVersion(t)
  <2>1. CASE Refuse(t)
    BY <1>5, <2>1 DEF ReadVersion, Refuse, Unlocked, TypeOK, Thread
  <2>2. CASE ~Refuse(t)
    BY <1>5, <2>2 DEF ReadVersion, TypeOK, Thread
  <2> QED BY <2>1, <2>2
<1>6. CASE CommitMigration(t)
  BY <1>6 DEF CommitMigration, TypeOK, Thread
<1>7. CASE BeginWrite(t) \/ CommitWrite(t) \/ FailWrite(t)
  BY <1>7 DEF BeginWrite, CommitWrite, FailWrite, TypeOK, Thread
<1> QED BY <1>1, <1>2, <1>3, <1>4, <1>5, <1>6, <1>7 DEF Work

LEMMA ThreadLocksStep ==
    ASSUME TypeOK, ThreadLocks, Next
    PROVE  ThreadLocks'
<1>1. ASSUME NEW t \in Threads, Call(t) \/ Work(t) PROVE ThreadLocks'
  <2>1. \A u \in Threads \ {t} : thread'[u] = thread[u]
    BY <1>1, StepOfOne
  <2>2. /\ threadLock \in [Processes -> Threads \cup {None}]
        /\ ProcessOf \in [Threads -> Processes] /\ None \notin Threads
    BY SchemaAssumption DEF TypeOK
  <2>3. /\ thread[t].pc # "dead" /\ thread'[t].pc # "dead"
    BY <1>1, LockMoves
  <2>4. CASE /\ threadLock' = threadLock
             /\ thread[t].pc \in Critical <=> thread'[t].pc \in Critical
    BY <2>1, <2>2, <2>3, <2>4 DEF ThreadLocks, MyLock
  <2>5. CASE /\ MyLock(t) = None /\ thread'[t].pc \in Critical
             /\ threadLock' = [threadLock EXCEPT ![ProcessOf[t]] = t]
    BY <2>1, <2>2, <2>3, <2>5 DEF ThreadLocks, MyLock
  <2>6. CASE /\ thread[t].pc \in Critical /\ thread'[t].pc \notin Critical
             /\ threadLock' = [threadLock EXCEPT ![ProcessOf[t]] = None]
    BY <2>1, <2>2, <2>3, <2>6 DEF ThreadLocks, MyLock
  <2> QED BY <1>1, <2>4, <2>5, <2>6, LockMoves
<1>2. ASSUME NEW p \in Processes, Die(p) PROVE ThreadLocks'
  <2>1. \A t \in Threads :
           thread'[t].pc = IF ProcessOf[t] = p THEN "dead" ELSE thread[t].pc
    BY <1>2 DEF Die, TypeOK, Thread
  <2>2. threadLock' = threadLock
    BY <1>2 DEF Die
  <2>3. /\ threadLock \in [Processes -> Threads \cup {None}]
        /\ ProcessOf \in [Threads -> Processes] /\ None \notin Threads
    BY SchemaAssumption DEF TypeOK
  <2> QED BY <2>1, <2>2, <2>3 DEF ThreadLocks, MyLock, Critical
<1> QED BY <1>1, <1>2 DEF Next

LEMMA LocksAlways == Spec => [](IInv /\ ThreadLocks)
<1>1. Init => ThreadLocks
  BY SchemaAssumption DEF Init, ThreadLocks, MyLock, Critical
<1>2. ThreadLocks /\ IInv /\ [Next]_vars => ThreadLocks'
  <2>1. CASE UNCHANGED vars
    BY <2>1 DEF vars, ThreadLocks, MyLock
  <2> QED BY <2>1, ThreadLocksStep DEF IInv
<1> QED BY <1>1, <1>2, InitHolds, InvStep, PTL DEF Spec

\* No deadlock: an operation that is under way has a step to take, or waits
\* for the lock of its process, whose holder has one.  The lock of the file
\* and the transaction are waited for with a limit, and nobody who holds the
\* lock of the process waits for a lock without one.
THEOREM HolderIsAtWork ==
    ASSUME \A t \in Threads : Required(Code(t)) # {}
    PROVE  Spec => [](\A t \in Threads :
              thread[t].pc \notin Ended \cup {"idle"} =>
                  \/ CanWork(t)
                  \/ /\ MyLock(t) \in Threads \ {t}
                     /\ ProcessOf[MyLock(t)] = ProcessOf[t]
                     /\ CanWork(MyLock(t)))
<1> DEFINE Goal == \A t \in Threads :
              thread[t].pc \notin Ended \cup {"idle"} =>
                  \/ CanWork(t)
                  \/ /\ MyLock(t) \in Threads \ {t}
                     /\ ProcessOf[MyLock(t)] = ProcessOf[t]
                     /\ CanWork(MyLock(t))
<1>1. ASSUME IInv, ThreadLocks, NEW t \in Threads,
             thread[t].pc \notin Ended \cup {"idle", "queued"}
      PROVE  CanWork(t)
  BY <1>1 DEF IInv, TypeOK, Thread, Phases, Verified, CanWork, At, Ended
<1>2. ASSUME IInv, ThreadLocks, NEW t \in Threads,
             thread[t].pc = "queued", MyLock(t) # None
      PROVE  /\ MyLock(t) \in Threads \ {t}
             /\ ProcessOf[MyLock(t)] = ProcessOf[t]
             /\ CanWork(MyLock(t))
  <2>1. MyLock(t) \in Threads
    BY <1>2, SchemaAssumption DEF IInv, TypeOK, MyLock
  <2>2. /\ ProcessOf[MyLock(t)] = ProcessOf[t]
        /\ thread[MyLock(t)].pc \in Critical \cup {"dead"}
    BY <1>2 DEF ThreadLocks
  <2>3. thread[MyLock(t)].pc # "dead"
    BY <1>2, <2>1, <2>2 DEF ThreadLocks
  <2>4. thread[MyLock(t)].pc \notin Ended \cup {"idle", "queued"}
    BY <2>2, <2>3 DEF Critical, Ended
  <2>5. MyLock(t) # t
    BY <1>2, <2>4
  <2> QED BY <1>1, <1>2, <2>1, <2>2, <2>4, <2>5
<1>3. IInv /\ ThreadLocks => Goal
  <2> SUFFICES ASSUME IInv, ThreadLocks, NEW t \in Threads,
                      thread[t].pc \notin Ended \cup {"idle"}
               PROVE  \/ CanWork(t)
                      \/ /\ MyLock(t) \in Threads \ {t}
                         /\ ProcessOf[MyLock(t)] = ProcessOf[t]
                         /\ CanWork(MyLock(t))
    OBVIOUS
  <2>1. CASE thread[t].pc # "queued"
    BY <1>1, <2>1
  <2>2. CASE thread[t].pc = "queued" /\ MyLock(t) = None
    BY <2>2 DEF CanWork, At
  <2>3. CASE thread[t].pc = "queued" /\ MyLock(t) # None
    BY <1>2, <2>3
  <2> QED BY <2>1, <2>2, <2>3
<1> HIDE DEF Goal
<1>4. Spec => []Goal
  BY <1>3, LocksAlways, PTL
<1> QED BY <1>4 DEF Goal

\* Nobody retries: whatever a thread does, its death included, leaves it
\* fewer steps to take.
THEOREM OperationsAreShort ==
    Spec => [][\A t \in Threads : thread'[t] # thread[t] =>
                  /\ StepsLeft(t) \in Nat
                  /\ StepsLeft(t)' < StepsLeft(t)]_vars
<1> DEFINE Less(t) == /\ StepsLeft(t) \in Nat
                      /\ StepsLeft(t)' < StepsLeft(t)
<1>1. \A t \in Threads : Code(t) \in Nat /\ Code(t)' = Code(t)
  BY CodeIsAVersion DEF Code
<1>2. ASSUME IInv, NEW t \in Threads, Call(t) \/ Work(t)
      PROVE  Less(t)
  <2>1. /\ thread \in [Threads -> Thread] /\ db.version \in 0..Top
        /\ thread[t].pc \in {"looking", "migrating"} =>
              thread[t].version <= Code(t)
        /\ thread[t].pc = "migrating" => thread[t].version < Code(t)
        /\ Top \in Nat
    BY <1>2, SchemaAssumption DEF IInv, TypeOK, Verified, Database
  <2>2. Code(t) \in Nat /\ Code(t)' = Code(t) /\ thread[t].version \in Nat
    BY <1>1, <2>1 DEF Thread
  <2> DEFINE c == Code(t)
  <2> HIDE DEF c
  <2>3. CASE Call(t) \/ LockThread(t) \/ LockFile(t)
    BY <2>1, <2>2, <2>3
       DEF StepsLeft, At, Call, LockThread, LockFile, Goes, Thread
  <2>4. CASE TimeOut(t) \/ FailMigration(t) \/ Initialized(t)
    BY <2>1, <2>2, <2>4
       DEF StepsLeft, At, TimeOut, FailMigration, Initialized, Refuse, Goes,
           Thread
  <2>5. CASE ReadVersion(t)
    BY <2>1, <2>2, <2>5 DEF StepsLeft, At, ReadVersion, Refuse, Goes, Thread
  <2>6. CASE BeginMigration(t)
    BY <2>1, <2>2, <2>6 DEF StepsLeft, At, BeginMigration, Goes, Thread
  <2>7. CASE CommitMigration(t)
    BY <2>1, <2>2, <2>7 DEF StepsLeft, At, CommitMigration, Thread
  <2>8. CASE BeginWrite(t) \/ CommitWrite(t) \/ FailWrite(t)
    BY <2>1, <2>2, <2>8
       DEF StepsLeft, At, BeginWrite, CommitWrite, FailWrite, Goes, Thread
  <2> QED BY <1>2, <2>3, <2>4, <2>5, <2>6, <2>7, <2>8 DEF Work
<1>3. ASSUME IInv, NEW p \in Processes, Die(p), NEW t \in Threads,
             thread'[t] # thread[t]
      PROVE  Less(t)
  <2>1. /\ thread \in [Threads -> Thread]
        /\ thread[t].pc \in {"looking", "migrating"} =>
              thread[t].version <= Code(t)
    BY <1>3 DEF IInv, TypeOK, Verified
  <2>2. Code(t) \in Nat /\ Code(t)' = Code(t) /\ thread[t].version \in Nat
    BY <1>1, <2>1 DEF Thread
  <2>3. thread'[t].pc = "dead" /\ thread[t].pc # "dead"
    BY <1>3, <2>1 DEF Die, Thread
  <2> QED BY <2>1, <2>2, <2>3 DEF StepsLeft, At
<1> HIDE DEF Less
<1>4. ASSUME IInv, [Next]_vars
      PROVE  [\A t \in Threads : thread'[t] # thread[t] => Less(t)]_vars
  <2> SUFFICES ASSUME Next, NEW t \in Threads, thread'[t] # thread[t]
               PROVE  Less(t)
    BY <1>4
  <2>1. ASSUME NEW u \in Threads, Call(u) \/ Work(u) PROVE Less(t)
    <3>1. t = u
      BY <1>4, <2>1, StepOfOne DEF IInv
    <3> QED BY <1>2, <1>4, <2>1, <3>1
  <2>2. ASSUME NEW p \in Processes, Die(p) PROVE Less(t)
    BY <1>3, <1>4, <2>2
  <2> QED BY <2>1, <2>2 DEF Next
<1>5. Spec => [][\A t \in Threads : thread'[t] # thread[t] => Less(t)]_vars
  BY <1>4, InitHolds, InvStep, PTL DEF Spec
<1> QED BY <1>5 DEF Less
=============================================================================
