------------------------ MODULE ScheduledDay_proofs ------------------------
(***************************************************************************)
(* Proofs about the scheduled day and the assistant, for any requests,     *)
(* streams and bounds: what an exit code and the log tell is how the day   *)
(* went, a briefing is filed under the preferences it was ranked by, and   *)
(* the pruned table of preferences keeps the promise of a list.            *)
(***************************************************************************)
EXTENDS ScheduledDay, FiniteSetTheorems, WellFoundedInduction, TLAPS

-----------------------------------------------------------------------------
(***************************************************************************)
(* The invariants                                                          *)
(***************************************************************************)

DayTypes ==
    /\ TypeOK
    /\ IsFiniteSet(preferences)
    /\ day \in Day
    /\ log \in [1..Len(Stages) -> Codes \cup {NoCode}]

\* The table's keys are unique and grow, and a row is pruned only when Keep
\* newer ones have been inserted.
Table ==
    /\ \A p, q \in preferences : p.id = q.id => p = q
    /\ \A p \in preferences : p.id <= lastId
    /\ \A i \in 1..lastId :
          lastId < i + Keep => \E p \in preferences : p.id = i

\* The row a request inserted is there as it was inserted, or was pruned
\* with everything older.
OwnRow(r) ==
    LET q == request[r] IN
    /\ q.own <= lastId
    /\ q.pc \in {"idle", "changing"} => q.own = 0
    /\ q.kind \in {"add", "clear"}
          /\ q.pc \in {"starting", "reading", "clearing", "listing",
                       "versioning", "saving"}
       => q.own # 0
    /\ \A p \in preferences :
          q.own # 0 /\ p.id = q.own => (p.active <=> q.kind = "add")
    /\ \/ q.own = 0
       \/ \E p \in preferences : p.id = q.own
       \/ \A p \in preferences : p.id > q.own

\* What a request has read follows its own change, however the table has
\* changed since.
OwnChangeIsRead(r) ==
    LET q == request[r] IN
    /\ q.pc = "listing" /\ q.kind = "clear" =>
          \A i \in ListedAfter(q.cleared) : i > q.own
    /\ q.pc = "listing" /\ q.kind = "add" => q.cleared # q.own
    /\ q.pc \in {"versioning", "saving"} /\ q.kind = "clear" =>
          \A i \in q.used : i > q.own
    /\ q.pc \in {"versioning", "saving"} /\ q.kind = "add" =>
          q.own \in q.used \/ q.cleared > q.own \/ lastId >= q.own + Keep

\* The version is read last, and is at least as new as what was read before.
VersionIsNewest(r) ==
    LET q == request[r] IN
    /\ q.pc = "versioning" => \A i \in q.used : i <= lastId
    /\ q.pc = "saving" =>
          q.own <= q.brief.version /\ \A i \in q.used : i <= q.brief.version

\* The stages come in order, and one that is over is in the log as it ended.
StagesInOrder ==
    /\ day.pc \in {"idle", "sync"} => day.stage = 1
    /\ day.pc \in {"identity", "brief"} => day.stage = 2
    /\ day.pc \in {"open", "done"} => day.stage = 3
    /\ day.pc = "logging" => day.code[day.stage] # NoCode
    /\ \A i \in 1..3 :
          i < day.stage \/ day.pc = "done"
             => day.code[i] # NoCode /\ log[i] = day.code[i]

\* A zero is earned.
ZeroIsEarned ==
    /\ day.code[1] = 0 => day.synced = Streams
    /\ day.code[2] = 0 => At(Child, "done")

\* The briefing child is started after the sync child is over, so whatever
\* it has read is not older than what that one left.
ChildReadsAfterSync ==
    LET q == request[Child] IN
    /\ day.stage = 1 => q.pc = "idle"
    /\ q.pc = "idle" => q.unread = Streams
    /\ \A s \in Streams : day.left[s] <= rows[s]
    /\ q.pc \in {"idle", "changing", "starting", "reading"} =>
          \A s \in Streams \ q.unread : q.brief.hash[s] >= day.left[s]
    /\ q.pc \in {"clearing", "listing", "versioning", "saving", "done"} =>
          \A s \in Streams : q.brief.hash[s] >= day.left[s]

Follows(r) == OwnRow(r) /\ OwnChangeIsRead(r) /\ VersionIsNewest(r)

Briefings == Table /\ \A r \in Requests : Follows(r)

DayKnows == StagesInOrder /\ ZeroIsEarned /\ ChildReadsAfterSync


-----------------------------------------------------------------------------
(***************************************************************************)
(* Operators                                                               *)
(***************************************************************************)

\* A set of numbers with a bound has a largest one.
LEMMA LargestExists ==
    ASSUME NEW n \in Nat, NEW S \in SUBSET (0..n), S # {}
    PROVE  /\ Max(S) \in S
           /\ \A y \in S : y <= Max(S)
<1> DEFINE T == {n - i : i \in S}
           R == OpToRel(<, Nat)
<1>1. IsWellFoundedOn(R, Nat)
    BY NatLessThanWellFounded
<1>2. T \subseteq Nat /\ T # {}
  <2>1. \A i \in S : i \in 0..n /\ n - i \in Nat
      OBVIOUS
  <2>2. PICK i \in S : TRUE
      OBVIOUS
  <2>3. n - i \in T
      BY <2>2
  <2>4. T \subseteq Nat
      BY <2>1
  <2> QED BY <2>3, <2>4
<1>3. \A x, y \in Nat : x < y => <<x, y>> \in R
    BY DEF OpToRel
<1> HIDE DEF T, R
<1>4. PICK x \in T : \A y \in T : ~(<<y, x>> \in R)
    BY <1>1, <1>2, WFMin
<1>5. PICK m \in S : x = n - m
    BY DEF T
<1>6. ASSUME NEW y \in S
      PROVE  m >= y
  <2>1. n - y \in T
      BY DEF T
  <2>2. ~(n - y < x)
      BY <1>2, <1>3, <1>4, <2>1
  <2> QED BY <2>2, <1>5
<1> QED BY <1>6 DEF Max

\* MAX(preference_id) is the id of a row, or 0, and none is greater.
LEMMA MaxIdIs ==
    ASSUME NEW rs \in SUBSET Preference
    PROVE  /\ MaxId(rs) \in 0..MaxPreferences
           /\ MaxId(rs) = 0 \/ \E p \in rs : MaxId(rs) = p.id
           /\ \A p \in rs : p.id <= MaxId(rs)
<1> DEFINE ids == {0} \cup {p.id : p \in rs}
<1>1. MaxPreferences \in Nat
    BY AssistantAssumption
<1>2. ids \in SUBSET (0..MaxPreferences) /\ ids # {}
    BY <1>1 DEF Preference
<1>3. MaxId(rs) = Max(ids)
    BY DEF MaxId
<1>4. Max(ids) \in ids /\ \A y \in ids : y <= Max(ids)
  <2> HIDE DEF ids
  <2> QED BY <1>1, <1>2, LargestExists
<1>5. \A p \in rs : p.id \in ids
    OBVIOUS
<1> QED BY <1>2, <1>3, <1>4, <1>5

\* Pruning takes away the oldest rows and never the newest.
LEMMA PrunedIs ==
    ASSUME NEW rs \in SUBSET Preference, IsFiniteSet(rs)
    PROVE  /\ Pruned(rs) \subseteq rs
           /\ IsFiniteSet(Pruned(rs))
           /\ \A p \in rs \ Pruned(rs) : \A q \in Pruned(rs) : q.id > p.id
           /\ \A p \in rs : (\A q \in rs : q.id <= p.id) => p \in Pruned(rs)
<1>1. Pruned(rs) \subseteq rs
    BY DEF Pruned
<1>2. \A p \in rs : IsFiniteSet(Newer(p, rs))
                       /\ Cardinality(Newer(p, rs)) \in Nat
    BY FS_Subset, FS_CardinalityType DEF Newer
<1>3. ASSUME NEW p \in rs, p \notin Pruned(rs), NEW q \in Pruned(rs),
             ~(q.id > p.id)
      PROVE  FALSE
  <2>1. p.id \in Nat /\ q.id \in Nat /\ q \in rs
      BY <1>1, <1>3 DEF Preference
  <2>2. Newer(p, rs) \subseteq Newer(q, rs)
      BY <1>3, <2>1 DEF Newer, Preference
  <2>3. Cardinality(Newer(p, rs)) <= Cardinality(Newer(q, rs))
      BY <1>2, <2>1, <2>2, FS_Subset
  <2>4. Keep \in Nat
      BY AssistantAssumption
  <2>5. Cardinality(Newer(q, rs)) < Keep
      BY <1>3 DEF Pruned
  <2>6. ~(Cardinality(Newer(p, rs)) < Keep)
      BY <1>3 DEF Pruned
  <2> QED BY <1>2, <2>1, <2>3, <2>4, <2>5, <2>6
<1>4. ASSUME NEW p \in rs, \A q \in rs : q.id <= p.id
      PROVE  p \in Pruned(rs)
  <2>1. Newer(p, rs) = {}
      BY <1>4 DEF Newer, Preference
  <2>2. Cardinality(Newer(p, rs)) = 0
      BY <2>1, FS_EmptySet
  <2> QED BY <2>2, AssistantAssumption DEF Pruned
<1>5. IsFiniteSet(Pruned(rs))
    BY <1>1, FS_Subset
<1> QED BY <1>1, <1>3, <1>4, <1>5

-----------------------------------------------------------------------------
(***************************************************************************)
(* Types                                                                   *)
(***************************************************************************)

LEMMA FreshIsRequest == Fresh \in Request
BY AssistantAssumption
   DEF Fresh, Request, Phases, Blank, Brief, Seen

LEMMA RequestStarts ==
    ASSUME NEW q \in Request, NEW k \in {"get", "refresh", "add", "clear"},
           NEW p \in Phases
    PROVE  [q EXCEPT !.kind = k, !.pc = p] \in Request
BY DEF Request

LEMMA RequestMoves ==
    ASSUME NEW q \in Request, NEW p \in Phases
    PROVE  [q EXCEPT !.pc = p] \in Request
BY DEF Request

LEMMA RequestOwns ==
    ASSUME NEW q \in Request, NEW n \in 0..MaxPreferences
    PROVE  [q EXCEPT !.pc = "starting", !.own = n] \in Request
BY DEF Request, Phases

LEMMA RequestReads ==
    ASSUME NEW q \in Request, NEW s \in Streams, NEW n \in 0..MaxChanges,
           NEW p \in Phases
    PROVE  [q EXCEPT !.brief.hash[s] = n, !.unread = @ \ {s}, !.pc = p]
              \in Request
<1>1. q.brief.hash \in Seen /\ q.brief \in Brief
    BY DEF Request, Brief
<1>2. [q.brief.hash EXCEPT ![s] = n] \in Seen
    BY <1>1 DEF Seen
<1>3. [q.brief EXCEPT !.hash = [q.brief.hash EXCEPT ![s] = n]] \in Brief
    BY <1>1, <1>2 DEF Brief
<1>4. [q EXCEPT !.brief.hash[s] = n, !.unread = @ \ {s}, !.pc = p]
         = [q EXCEPT !.brief = [q.brief EXCEPT
                        !.hash = [q.brief.hash EXCEPT ![s] = n]],
                     !.unread = q.unread \ {s}, !.pc = p]
    BY <1>1 DEF Request, Brief
<1>5. ASSUME NEW b \in Brief
      PROVE  [q EXCEPT !.brief = b, !.unread = q.unread \ {s}, !.pc = p]
                \in Request
    BY DEF Request
<1> QED BY <1>3, <1>4, <1>5

LEMMA RequestClears ==
    ASSUME NEW q \in Request, NEW n \in 0..MaxPreferences
    PROVE  [q EXCEPT !.pc = "listing", !.cleared = n] \in Request
BY DEF Request, Phases

LEMMA RequestLists ==
    ASSUME NEW q \in Request, NEW ids \in SUBSET (1..MaxPreferences)
    PROVE  [q EXCEPT !.pc = "versioning", !.used = ids] \in Request
BY DEF Request, Phases

LEMMA RequestVersions ==
    ASSUME NEW q \in Request, NEW n \in 0..MaxPreferences
    PROVE  [q EXCEPT !.pc = "saving", !.brief.version = n] \in Request
<1>1. q.brief \in Brief
    BY DEF Request
<1>2. [q.brief EXCEPT !.version = n] \in Brief
    BY <1>1 DEF Brief
<1>3. [q EXCEPT !.pc = "saving", !.brief.version = n]
         = [q EXCEPT !.pc = "saving",
                     !.brief = [q.brief EXCEPT !.version = n]]
    OBVIOUS
<1>4. ASSUME NEW b \in Brief
      PROVE  [q EXCEPT !.pc = "saving", !.brief = b] \in Request
    BY DEF Request, Phases
<1> QED BY <1>2, <1>3, <1>4

\* What Ends leaves of a request.
Ended(q, phase) ==
    [Fresh EXCEPT !.pc = phase,
                  !.brief = IF phase = "done" THEN q.brief ELSE @]

LEMMA RequestEnds ==
    ASSUME NEW q \in Request, NEW p \in Phases
    PROVE  Ended(q, p) \in Request
<1>1. Fresh \in Request
    BY FreshIsRequest
<1>2. (IF p = "done" THEN q.brief ELSE Fresh.brief) \in Brief
    BY <1>1 DEF Request
<1>3. ASSUME NEW b \in Brief
      PROVE  [Fresh EXCEPT !.pc = p, !.brief = b] \in Request
    BY <1>1 DEF Request
<1> QED BY <1>2, <1>3 DEF Ended

\* What a step does to a request's record, and nothing to another's.
LEMMA RequestsStayTyped ==
    ASSUME request \in [Requests -> Request], NEW r \in Requests,
           NEW q \in Request, request' = [request EXCEPT ![r] = q]
    PROVE  request' \in [Requests -> Request]
OBVIOUS

LEMMA TypesInsert ==
    ASSUME TypeOK, NEW active \in BOOLEAN, Insert(active),
           IsFiniteSet(preferences)
    PROVE  /\ preferences' \subseteq Preference
           /\ lastId' \in 0..MaxPreferences
           /\ lastId + 1 \in 1..MaxPreferences
           /\ IsFiniteSet(preferences')
           /\ [id |-> lastId + 1, active |-> active] \in Preference
<1> DEFINE new == [id |-> lastId + 1, active |-> active]
<1>1. lastId + 1 \in 1..MaxPreferences
    BY AssistantAssumption DEF TypeOK, Insert
<1>2. new \in Preference
    BY <1>1 DEF Preference
<1>3. preferences \cup {new} \in SUBSET Preference
    BY <1>2 DEF TypeOK
<1>4. IsFiniteSet(preferences \cup {new})
    BY FS_AddElement
<1> HIDE DEF new
<1>5. Pruned(preferences \cup {new}) \subseteq preferences \cup {new}
         /\ IsFiniteSet(Pruned(preferences \cup {new}))
    BY <1>3, <1>4, PrunedIs
<1>6. preferences' = Pruned(preferences \cup {new})
    BY DEF Insert, new
<1> QED BY <1>1, <1>2, <1>3, <1>5, <1>6, AssistantAssumption
        DEF Insert, new

\* A request inserts a text or a clear, as its kind says.
LEMMA ChangeInserts ==
    ASSUME NEW r \in Requests, ChangePreferences(r)
    PROVE  \E active \in BOOLEAN :
              Insert(active) /\ (active <=> request[r].kind = "add")
<1>1. CASE request[r].kind = "add"
  <2>1. (request[r].kind = "add") = TRUE
      BY <1>1
  <2>2. Insert(TRUE)
      BY <2>1 DEF ChangePreferences, Insert
  <2> QED BY <1>1, <2>2
<1>2. CASE request[r].kind # "add"
  <2>1. (request[r].kind = "add") = FALSE
      BY <1>2
  <2>2. Insert(FALSE)
      BY <2>1 DEF ChangePreferences, Insert
  <2> QED BY <1>2, <2>2
<1> QED BY <1>1, <1>2

LEMMA TypesArrive ==
    ASSUME TypeOK, NEW r \in Requests,
           NEW kind \in {"refresh", "add", "clear"}, Arrive(r, kind)
    PROVE  TypeOK'
<1> DEFINE p == IF kind = "refresh" THEN "starting" ELSE "changing"
<1>1. request[r] \in Request /\ p \in Phases
    BY DEF TypeOK, Phases
<1>2. [request[r] EXCEPT !.kind = kind, !.pc = p] \in Request
    BY <1>1, RequestStarts
<1>3. request' = [request EXCEPT
                    ![r] = [request[r] EXCEPT !.kind = kind, !.pc = p]]
    BY DEF Arrive, TypeOK
<1> QED BY <1>2, <1>3, RequestsStayTyped DEF TypeOK, Arrive, store

LEMMA TypesGet ==
    ASSUME TypeOK, NEW r \in Requests, Get(r)
    PROVE  TypeOK'
<1> DEFINE p == IF briefs = {} THEN "starting" ELSE "done"
<1>1. request[r] \in Request /\ p \in Phases
    BY DEF TypeOK, Phases
<1>2. [request[r] EXCEPT !.kind = "get", !.pc = p] \in Request
    BY <1>1, RequestStarts
<1>3. request' = [request EXCEPT
                    ![r] = [request[r] EXCEPT !.kind = "get", !.pc = p]]
    BY DEF Get, TypeOK
<1> QED BY <1>2, <1>3, RequestsStayTyped DEF TypeOK, Get, store

LEMMA TypesGenerate ==
    ASSUME TypeOK, IsFiniteSet(preferences), NEW r \in Requests, Generate(r)
    PROVE  TypeOK'
<1>1. request[r] \in Request
    BY DEF TypeOK
<1>2. preferences \in SUBSET Preference
    BY DEF TypeOK
<1>3. CASE ChangePreferences(r)
  <2>1. PICK active \in BOOLEAN : Insert(active)
      BY <1>3, ChangeInserts
  <2>2. preferences' \subseteq Preference /\ lastId' \in 0..MaxPreferences
           /\ lastId + 1 \in 0..MaxPreferences
    <3>1. /\ preferences' \subseteq Preference
          /\ lastId' \in 0..MaxPreferences
          /\ lastId + 1 \in 1..MaxPreferences
          /\ IsFiniteSet(preferences')
          /\ [id |-> lastId + 1, active |-> active] \in Preference
        BY <2>1, TypesInsert, Zenon
    <3> QED BY <3>1, AssistantAssumption
  <2>4. [request[r] EXCEPT !.pc = "starting", !.own = lastId + 1] \in Request
      BY <1>1, <2>2, RequestOwns
  <2>5. request' = [request EXCEPT ![r] =
            [request[r] EXCEPT !.pc = "starting", !.own = lastId + 1]]
      BY <1>3 DEF ChangePreferences, TypeOK
  <2>6. request' \in [Requests -> Request]
      BY <2>4, <2>5, RequestsStayTyped DEF TypeOK
  <2> QED BY <1>3, <2>2, <2>6 DEF TypeOK, ChangePreferences
<1>4. CASE Begin(r)
  <2>1. [request[r] EXCEPT !.pc = "reading"] \in Request
      BY <1>1, RequestMoves DEF Phases
  <2>2. request' = [request EXCEPT
                        ![r] = [request[r] EXCEPT !.pc = "reading"]]
      BY <1>4 DEF Begin, TypeOK
  <2> QED BY <1>4, <2>1, <2>2, RequestsStayTyped DEF TypeOK, Begin, store
<1>5. CASE ReadStream(r)
  <2>1. PICK s \in request[r].unread :
            request' = [request EXCEPT
              ![r].brief.hash[s] = rows[s],
              ![r].unread = @ \ {s},
              ![r].pc = IF request[r].unread = {s} THEN "clearing" ELSE @]
      BY <1>5 DEF ReadStream
  <2> DEFINE p == IF request[r].unread = {s} THEN "clearing"
                  ELSE request[r].pc
             q == [request[r] EXCEPT !.brief.hash[s] = rows[s],
                       !.unread = @ \ {s}, !.pc = p]
  <2>2. s \in Streams /\ rows[s] \in 0..MaxChanges /\ p \in Phases
      BY <1>1 DEF TypeOK, Request, Seen, Phases
  <2>3. q \in Request
    <3> HIDE DEF p
    <3> QED BY <1>1, <2>2, RequestReads
  <2>4. request' = [request EXCEPT ![r] = q]
      BY <2>1 DEF TypeOK
  <2> HIDE DEF q
  <2> QED BY <1>5, <2>3, <2>4, RequestsStayTyped DEF TypeOK, ReadStream, store
<1>6. CASE ReadClear(r)
  <2>1. ClearedTo \in 0..MaxPreferences
    <3>1. {p \in preferences : ~p.active} \in SUBSET Preference
        BY <1>2
    <3> QED BY <3>1, MaxIdIs DEF ClearedTo
  <2>2. PICK n \in 0..MaxPreferences : n = ClearedTo
      BY <2>1
  <2>3. [request[r] EXCEPT !.pc = "listing", !.cleared = n] \in Request
      BY <1>1, RequestClears
  <2>4. request' = [request EXCEPT ![r] =
            [request[r] EXCEPT !.pc = "listing", !.cleared = n]]
      BY <1>6, <2>2 DEF ReadClear, TypeOK
  <2> QED BY <1>6, <2>3, <2>4, RequestsStayTyped DEF TypeOK, ReadClear, store
<1>7. CASE ListPreferences(r)
  <2>1. ListedAfter(request[r].cleared) \in SUBSET (1..MaxPreferences)
      BY <1>2 DEF ListedAfter, Preference
  <2>2. PICK ids \in SUBSET (1..MaxPreferences) :
            ids = ListedAfter(request[r].cleared)
      BY <2>1
  <2>3. [request[r] EXCEPT !.pc = "versioning", !.used = ids] \in Request
      BY <1>1, RequestLists
  <2>4. request' = [request EXCEPT ![r] =
            [request[r] EXCEPT !.pc = "versioning", !.used = ids]]
      BY <1>7, <2>2 DEF ListPreferences, TypeOK
  <2> QED BY <1>7, <2>3, <2>4, RequestsStayTyped
          DEF TypeOK, ListPreferences, store
<1>8. CASE ReadVersion(r)
  <2>1. PICK n \in 0..MaxPreferences : n = Version
      BY <1>2, MaxIdIs DEF Version
  <2>2. [request[r] EXCEPT !.pc = "saving", !.brief.version = n] \in Request
      BY <1>1, RequestVersions
  <2>3. request' = [request EXCEPT ![r] =
            [request[r] EXCEPT !.pc = "saving", !.brief.version = n]]
      BY <1>8, <2>1 DEF ReadVersion, TypeOK
  <2> QED BY <1>8, <2>2, <2>3, RequestsStayTyped
          DEF TypeOK, ReadVersion, store
<1>9. CASE Save(r)
  <2>1. Ended(request[r], "done") \in Request
      BY <1>1, RequestEnds DEF Phases
  <2>2. request' = [request EXCEPT ![r] = Ended(request[r], "done")]
      BY <1>9 DEF Save, Ends, Ended
  <2>3. request[r].brief \in Brief
      BY <1>1 DEF Request
  <2> QED BY <1>9, <2>1, <2>2, <2>3, RequestsStayTyped DEF TypeOK, Save
<1>10. CASE Fail(r)
  <2>1. Ended(request[r], "failed") \in Request
      BY <1>1, RequestEnds DEF Phases
  <2>2. request' = [request EXCEPT ![r] = Ended(request[r], "failed")]
      BY <1>10 DEF Fail, Ends, Ended
  <2> QED BY <1>10, <2>1, <2>2, RequestsStayTyped DEF TypeOK, Fail, store
<1> QED BY <1>3, <1>4, <1>5, <1>6, <1>7, <1>8, <1>9, <1>10 DEF Generate

\* A step leaves the tables and requests typed, and the preferences finite.
LEMMA FiniteGenerate ==
    ASSUME TypeOK, IsFiniteSet(preferences), NEW r \in Requests, Generate(r)
    PROVE  IsFiniteSet(preferences')
<1>1. CASE ChangePreferences(r)
  <2>1. PICK active \in BOOLEAN : Insert(active)
      BY <1>1, ChangeInserts
  <2> QED BY <2>1, TypesInsert, Zenon
<1>2. CASE preferences' = preferences
    BY <1>2
<1> QED BY <1>1, <1>2
        DEF Generate, Begin, ReadStream, ReadClear, ListPreferences,
            ReadVersion, Save, Fail, store

LEMMA TypesCommit ==
    ASSUME TypeOK, NEW s \in Streams, Commit(s),
           UNCHANGED <<preferences, lastId, briefs, request>>
    PROVE  TypeOK'
<1>1. rows[s] + 1 \in 0..MaxChanges
    BY AssistantAssumption DEF TypeOK, Seen, Commit
<1>2. rows' \in Seen
    BY <1>1 DEF TypeOK, Seen, Commit
<1> QED BY <1>2 DEF TypeOK

LEMMA TypesChangeOnly ==
    ASSUME TypeOK, IsFiniteSet(preferences), NEW active \in BOOLEAN,
           ChangeOnly(active)
    PROVE  TypeOK' /\ IsFiniteSet(preferences')
<1>1. Insert(active)
    BY DEF ChangeOnly
<1>2. /\ preferences' \subseteq Preference
      /\ lastId' \in 0..MaxPreferences
      /\ lastId + 1 \in 1..MaxPreferences
      /\ IsFiniteSet(preferences')
      /\ [id |-> lastId + 1, active |-> active] \in Preference
    BY <1>1, TypesInsert, Zenon
<1> QED BY <1>2 DEF TypeOK, ChangeOnly

LEMMA StagesAre ==
    /\ Len(Stages) = 3
    /\ 1..Len(Stages) = 1..3
BY DEF Stages

LEMMA DayGives ==
    ASSUME day \in Day, NEW code \in Codes, StageGives(code)
    PROVE  day' \in Day
<1>1. day.stage \in 1..3
    BY StagesAre DEF Day
<1>2. [day.code EXCEPT ![day.stage] = code]
         \in [1..3 -> Codes \cup {NoCode}]
    BY <1>1, StagesAre DEF Day
<1> QED BY <1>1, <1>2, StagesAre DEF Day, StageGives

LEMMA DayEnds ==
    ASSUME day \in Day, NEW code \in Codes \cup {NoCode}, StageEnds(code)
    PROVE  day' \in Day
<1>1. day.stage \in 1..3
    BY StagesAre DEF Day
<1>2. [day.code EXCEPT ![day.stage] = code]
         \in [1..3 -> Codes \cup {NoCode}]
    BY <1>1, StagesAre DEF Day
<1>3. NextStage(day.stage) \in {"identity", "open", "done"}
    BY <1>1 DEF NextStage
<1>4. (IF day.stage < Len(Stages) THEN day.stage + 1 ELSE day.stage) \in 1..3
    BY <1>1, StagesAre
<1> QED BY <1>2, <1>3, <1>4, StagesAre DEF Day, StageEnds

LEMMA LogStaysTyped ==
    ASSUME day \in Day, log \in [1..Len(Stages) -> Codes \cup {NoCode}],
           NEW code \in Codes \cup {NoCode}, log' \in {log, Recorded(code)}
    PROVE  log' \in [1..Len(Stages) -> Codes \cup {NoCode}]
BY DEF Recorded

LEMMA TypesDayStep ==
    ASSUME DayTypes, DayStep
    PROVE  DayTypes'
<1> USE DEF DayTypes
<1>0. day \in Day /\ Child \in Requests
    BY DayAssumption
<1>1. CASE Wake
    BY <1>1 DEF Wake, vars, TypeOK, Day
<1>2. CASE SyncStream
  <2>1. PICK s \in Streams \ day.synced :
            /\ Commit(s)
            /\ day' = [day EXCEPT !.synced = @ \cup {s},
                                  !.left[s] = rows[s] + 1]
      BY <1>2 DEF SyncStream
  <2>2. TypeOK'
      BY <1>2, <2>1, TypesCommit DEF SyncStream
  <2>3. rows[s] + 1 \in 0..MaxChanges
      BY <2>1, AssistantAssumption DEF TypeOK, Seen, Commit
  <2>4. [day.left EXCEPT ![s] = rows[s] + 1] \in Seen
      BY <1>0, <2>3 DEF Day, Seen
  <2>5. day' \in Day
      BY <1>0, <2>1, <2>4 DEF Day
  <2> QED BY <1>2, <2>2, <2>5 DEF SyncStream
<1>3. CASE SyncSucceeds
  <2>1. day' \in Day
      BY <1>0, <1>3, DayGives DEF SyncSucceeds, Codes
  <2> QED BY <1>3, <2>1 DEF SyncSucceeds, vars, TypeOK
<1>4. CASE SyncFails
  <2>1. day' \in Day
      BY <1>0, <1>4, DayGives DEF SyncFails, Codes
  <2> QED BY <1>4, <2>1 DEF SyncFails, vars, TypeOK
<1>5. CASE Identify
    BY <1>5 DEF Identify, vars, TypeOK, Day
<1>6. CASE StartBrief
  <2>1. TypeOK'
      BY <1>0, <1>6, TypesArrive DEF StartBrief
  <2> QED BY <1>6, <2>1 DEF StartBrief, Arrive, store
<1>7. CASE EndBrief
  <2>1. day' \in Day
      BY <1>0, <1>7, DayGives DEF EndBrief, Codes
  <2> QED BY <1>7, <2>1 DEF EndBrief, vars, TypeOK
<1>8. CASE StopBrief
  <2>1. day' \in Day
      BY <1>0, <1>8, DayGives DEF StopBrief, Codes
  <2>2. Ended(request[Child], "killed") \in Request
      BY <1>0, RequestEnds DEF TypeOK, Phases
  <2>3. request' = [request EXCEPT ![Child] = Ended(request[Child], "killed")]
      BY <1>8 DEF StopBrief, Ends, Ended
  <2>4. request' \in [Requests -> Request]
      BY <1>0, <2>2, <2>3, RequestsStayTyped DEF TypeOK
  <2> QED BY <1>8, <2>1, <2>4 DEF StopBrief, store, TypeOK
<1>9. CASE OpenPage
  <2>1. day' \in Day
      BY <1>0, <1>9, DayGives DEF OpenPage, Codes
  <2> QED BY <1>9, <2>1 DEF OpenPage, vars, TypeOK
<1>10. CASE Log
  <2>1. PICK code \in Codes \cup {NoCode} : code = day.code[day.stage]
      BY <1>0 DEF Day
  <2>2. log' \in {log, Recorded(code)}
      BY <1>10, <2>1 DEF Log
  <2>3. log' \in [1..Len(Stages) -> Codes \cup {NoCode}]
      BY <1>0, <2>2, LogStaysTyped
  <2>4. day' \in Day
    <3>1. CASE StageEnds(day.code[day.stage])
        BY <1>0, <2>1, <3>1, DayEnds
    <3>2. CASE day' = [day EXCEPT !.pc = "relogging"]
        BY <1>0, <3>2 DEF Day
    <3> QED BY <1>10, <3>1, <3>2 DEF Log
  <2> QED BY <1>10, <2>3, <2>4 DEF Log, vars, TypeOK
<1>11. CASE LogFailure
  <2>1. log' \in {log, Recorded(1)} /\ 1 \in Codes
      BY <1>11 DEF LogFailure, Codes
  <2>2. log' \in [1..Len(Stages) -> Codes \cup {NoCode}]
      BY <1>0, <2>1, LogStaysTyped
  <2>3. day' \in Day
    <3>1. CASE StageEnds(1)
        BY <1>0, <2>1, <3>1, DayEnds
    <3>2. CASE day' = [day EXCEPT !.pc = "aborted"]
        BY <1>0, <3>2 DEF Day
    <3> QED BY <1>11, <3>1, <3>2 DEF LogFailure
  <2> QED BY <1>11, <2>2, <2>3 DEF LogFailure, vars, TypeOK
<1> QED BY <1>1, <1>2, <1>3, <1>4, <1>5, <1>6, <1>7, <1>8, <1>9, <1>10,
           <1>11 DEF DayStep

LEMMA TypesElsewhere ==
    ASSUME DayTypes, Elsewhere, UNCHANGED <<day, log>>
    PROVE  DayTypes'
<1>1. CASE \E r \in Requests \ {Child} : Get(r)
    BY <1>1, TypesGet DEF DayTypes, Get, store
<1>2. CASE \E r \in Requests \ {Child} :
               \E kind \in {"refresh", "add", "clear"} : Arrive(r, kind)
    BY <1>2, TypesArrive DEF DayTypes, Arrive, store
<1>3. CASE \E r \in Requests : Generate(r)
    BY <1>3, TypesGenerate, FiniteGenerate DEF DayTypes
<1>4. CASE \E active \in BOOLEAN : ChangeOnly(active)
  <2>1. PICK active \in BOOLEAN : ChangeOnly(active)
      BY <1>4
  <2>2. TypeOK' /\ IsFiniteSet(preferences')
      BY <2>1, TypesChangeOnly, Zenon DEF DayTypes
  <2> QED BY <2>2 DEF DayTypes
<1>5. CASE \E s \in Streams :
               Commit(s) /\ UNCHANGED <<preferences, lastId, briefs, request>>
    BY <1>5, TypesCommit DEF DayTypes
<1> QED BY <1>1, <1>2, <1>3, <1>4, <1>5 DEF Elsewhere

LEMMA TypesStep ==
    ASSUME DayTypes, [DayNext]_dayVars
    PROVE  DayTypes'
<1>1. CASE UNCHANGED dayVars
    BY <1>1 DEF DayTypes, dayVars, vars, TypeOK
<1>2. CASE DayNext
    BY <1>2, TypesDayStep, TypesElsewhere DEF DayNext
<1> QED BY <1>1, <1>2

LEMMA TypesInit ==
    ASSUME DayInit
    PROVE  DayTypes
<1>1. TypeOK
    BY FreshIsRequest, AssistantAssumption DEF DayInit, Init, TypeOK, Seen
<1>2. IsFiniteSet(preferences)
    BY FS_EmptySet DEF DayInit, Init
<1>3. day \in Day
    BY AssistantAssumption, StagesAre DEF DayInit, Day, Seen
<1> QED BY <1>1, <1>2, <1>3 DEF DayInit, DayTypes

\* Variables keep their types, whatever the requests, the streams and the
\* bounds are.
THEOREM TypesHold == DaySpec => []DayTypes
<1>1. DayInit => DayTypes
    BY TypesInit
<1>2. DayTypes /\ [DayNext]_dayVars => DayTypes'
    BY TypesStep
<1> QED BY <1>1, <1>2, PTL DEF DaySpec

-----------------------------------------------------------------------------
(***************************************************************************)
(* Preferences                                                             *)
(***************************************************************************)

\* What an insertion leaves in the table.
LEMMA InsertIs ==
    ASSUME TypeOK, IsFiniteSet(preferences), Table,
           NEW active \in BOOLEAN, Insert(active)
    PROVE  LET new == [id |-> lastId + 1, active |-> active] IN
           /\ lastId' = lastId + 1
           /\ preferences' = Pruned(preferences \cup {new})
           /\ preferences' \subseteq preferences \cup {new}
           /\ new \in preferences'
           /\ \A p \in (preferences \cup {new}) \ preferences' :
                 \A q \in preferences' : q.id > p.id
<1> DEFINE new == [id |-> lastId + 1, active |-> active]
           all == preferences \cup {new}
<1>1. /\ preferences' \subseteq Preference
      /\ lastId' \in 0..MaxPreferences
      /\ lastId + 1 \in 1..MaxPreferences
      /\ IsFiniteSet(preferences')
      /\ new \in Preference
    BY TypesInsert, Zenon
<1>2. all \in SUBSET Preference /\ IsFiniteSet(all)
    BY <1>1, FS_AddElement DEF TypeOK
<1>3. preferences' = Pruned(all) /\ lastId' = lastId + 1
    BY DEF Insert
<1>4. \A q \in all : q.id <= new.id
    BY AssistantAssumption DEF Table, TypeOK, Preference
<1>5. new \in all
    OBVIOUS
<1> HIDE DEF new, all
<1>6. /\ Pruned(all) \subseteq all
      /\ \A p \in all \ Pruned(all) : \A q \in Pruned(all) : q.id > p.id
      /\ \A p \in all : (\A q \in all : q.id <= p.id) => p \in Pruned(all)
    BY <1>2, PrunedIs
<1>7. new \in Pruned(all)
    BY <1>4, <1>5, <1>6
<1>8. /\ lastId' = lastId + 1
      /\ preferences' = Pruned(all)
      /\ preferences' \subseteq all
      /\ new \in preferences'
      /\ \A p \in all \ preferences' : \A q \in preferences' : q.id > p.id
    BY <1>3, <1>6, <1>7
<1> QED BY <1>8 DEF new, all

\* As many ids as rows, when ids tell rows apart.
LEMMA AsManyIds ==
    ASSUME NEW rs \in SUBSET Preference, IsFiniteSet(rs),
           \A p, q \in rs : p.id = q.id => p = q
    PROVE  Cardinality({p.id : p \in rs}) = Cardinality(rs)
<1> DEFINE ids == {p.id : p \in rs}
           f == [p \in rs |-> p.id]
<1>1. f \in [rs -> ids]
    OBVIOUS
<1>2. \A p, q \in rs : f[p] = f[q] => p = q
    OBVIOUS
<1>3. \A i \in ids : \E p \in rs : f[p] = i
    OBVIOUS
<1> HIDE DEF f, ids
<1>4. f \in Bijection(rs, ids)
    BY <1>1, <1>2, <1>3 DEF Bijection, Injection, Surjection, IsInjective
<1>5. ExistsBijection(rs, ids)
    BY <1>4 DEF ExistsBijection
<1>6. Cardinality(ids) = Cardinality(rs)
    BY <1>5, FS_Bijection
<1> QED BY <1>6 DEF ids

\* Fewer than Keep insertions later a row is still there.
LEMMA NewestStay ==
    ASSUME NEW n \in Nat, NEW rs \in SUBSET Preference, IsFiniteSet(rs),
           \A p, q \in rs : p.id = q.id => p = q,
           \A p \in rs : p.id <= n,
           NEW p \in rs, n < p.id + Keep
    PROVE  p \in Pruned(rs)
<1> DEFINE ids == {q.id : q \in Newer(p, rs)}
<1>1. Newer(p, rs) \in SUBSET Preference /\ IsFiniteSet(Newer(p, rs))
    BY FS_Subset DEF Newer
<1>2. Cardinality(ids) = Cardinality(Newer(p, rs))
    BY <1>1, AsManyIds DEF Newer
<1>3. p.id \in Nat /\ Keep \in Nat \ {0} /\ p.id <= n
    BY AssistantAssumption DEF Preference
<1>4. ids \subseteq (p.id + 1)..n
    BY <1>3 DEF Newer, Preference
<1>5. /\ IsFiniteSet((p.id + 1)..n)
      /\ Cardinality((p.id + 1)..n) < Keep
  <2>1. PICK a \in Int : a = p.id + 1
      BY <1>3
  <2>2. a \in Int /\ n \in Int
      OBVIOUS
  <2>3. /\ IsFiniteSet(a..n)
        /\ Cardinality(a..n) = IF a > n THEN 0 ELSE n - a + 1
      BY ONLY <2>2, FS_Interval
  <2>4. (IF a > n THEN 0 ELSE n - a + 1) < Keep
      BY <1>3, <2>1
  <2> QED BY <2>1, <2>3, <2>4
<1> HIDE DEF ids
<1>6. /\ Cardinality(ids) <= Cardinality((p.id + 1)..n)
      /\ IsFiniteSet(ids)
    BY <1>4, <1>5, FS_Subset
<1>7. Cardinality(ids) \in Nat /\ Cardinality((p.id + 1)..n) \in Nat
    BY <1>5, <1>6, FS_CardinalityType
<1>8. Cardinality(Newer(p, rs)) < Keep
    BY <1>2, <1>3, <1>5, <1>6, <1>7
<1> QED BY <1>8 DEF Pruned

LEMMA TableInsert ==
    ASSUME TypeOK, IsFiniteSet(preferences), Table,
           NEW active \in BOOLEAN, Insert(active)
    PROVE  Table'
<1> DEFINE new == [id |-> lastId + 1, active |-> active]
<1>1. /\ lastId' = lastId + 1
      /\ preferences' \subseteq preferences \cup {new}
      /\ new \in preferences'
    BY InsertIs, Zenon
<1>2. new.id = lastId + 1
    OBVIOUS
<1>3. lastId \in Nat
    BY DEF TypeOK
<1>4. \A p \in preferences : p.id \in Nat /\ p.id <= lastId
    BY DEF TypeOK, Preference, Table
<1>5. \A p, q \in preferences : p.id = q.id => p = q
    BY DEF Table
<1> HIDE DEF new
<1>6. \A p, q \in preferences' : p.id = q.id => p = q
    BY <1>1, <1>2, <1>3, <1>4, <1>5
<1>7. \A p \in preferences' : p.id <= lastId'
    BY <1>1, <1>2, <1>3, <1>4
<1>8. ASSUME NEW i \in 1..lastId', lastId' < i + Keep
      PROVE  \E p \in preferences' : p.id = i
  <2> DEFINE all == preferences \cup {new}
  <2>1. CASE i = lastId + 1
      BY <1>1, <1>2, <2>1
  <2>2. CASE i # lastId + 1
    <3>1. i \in 1..lastId /\ lastId < i + Keep
        BY <1>1, <1>3, <1>8, <2>2, AssistantAssumption
    <3>2. PICK p \in preferences : p.id = i
        BY <3>1 DEF Table
    <3>3. new \in Preference /\ preferences' = Pruned(all)
        BY TypesInsert, InsertIs, Zenon DEF new
    <3>4. all \in SUBSET Preference /\ IsFiniteSet(all)
        BY <3>3, FS_AddElement DEF TypeOK
    <3>5. \A q, u \in all : q.id = u.id => q = u
        BY <1>2, <1>3, <1>4, <1>5
    <3>6. \A q \in all : q.id <= lastId + 1
        BY <1>2, <1>3, <1>4
    <3>7. p \in all /\ lastId + 1 \in Nat /\ lastId + 1 < p.id + Keep
        BY <1>1, <1>3, <1>8, <3>2
    <3> HIDE DEF all
    <3>8. p \in Pruned(all)
        BY <3>4, <3>5, <3>6, <3>7, NewestStay
    <3> QED BY <3>2, <3>3, <3>8
  <2> QED BY <2>1, <2>2
<1> QED BY <1>1, <1>6, <1>7, <1>8 DEF Table

\* Whatever is done, the table stays or one row is inserted.
LEMMA TableChanges ==
    ASSUME [DayNext]_dayVars
    PROVE  \/ UNCHANGED <<preferences, lastId>>
           \/ \E active \in BOOLEAN : Insert(active)
<1>1. CASE UNCHANGED dayVars
    BY <1>1 DEF dayVars, vars
<1>2. CASE DayStep
    BY <1>2 DEF DayStep, Wake, SyncStream, SyncSucceeds, SyncFails, Identify,
        StartBrief, EndBrief, StopBrief, OpenPage, Log, LogFailure, Arrive,
        vars, store
<1>3. CASE Elsewhere
  <2>1. ASSUME NEW r \in Requests, ChangePreferences(r)
        PROVE  \E active \in BOOLEAN : Insert(active)
      BY <2>1, ChangeInserts
  <2>2. ASSUME NEW r \in Requests, Generate(r), ~ChangePreferences(r)
        PROVE  UNCHANGED <<preferences, lastId>>
      BY <2>2 DEF Generate, Begin, ReadStream, ReadClear, ListPreferences,
            ReadVersion, Save, Fail, store
  <2> QED BY <1>3, <2>1, <2>2, Zenon
          DEF Elsewhere, Get, Arrive, ChangeOnly, store
<1> QED BY <1>1, <1>2, <1>3 DEF DayNext

LEMMA TableStep ==
    ASSUME DayTypes, Table, [DayNext]_dayVars
    PROVE  Table'
<1>1. CASE UNCHANGED <<preferences, lastId>>
    BY <1>1 DEF Table
<1>2. CASE \E active \in BOOLEAN : Insert(active)
  <2>1. PICK active \in BOOLEAN : Insert(active)
      BY <1>2
  <2> QED BY <2>1, TableInsert, Zenon DEF DayTypes
<1> QED BY <1>1, <1>2, TableChanges

\* The newest clear and what is listed after it.
LEMMA ClearedToIs ==
    ASSUME TypeOK
    PROVE  /\ ClearedTo \in 0..MaxPreferences
           /\ \/ ClearedTo = 0
              \/ \E p \in preferences : ~p.active /\ p.id = ClearedTo
           /\ \A p \in preferences : ~p.active => p.id <= ClearedTo
<1> DEFINE clears == {p \in preferences : ~p.active}
<1>1. clears \in SUBSET Preference
    BY DEF TypeOK
<1> HIDE DEF clears
<1>2. /\ MaxId(clears) \in 0..MaxPreferences
      /\ MaxId(clears) = 0 \/ \E p \in clears : MaxId(clears) = p.id
      /\ \A p \in clears : p.id <= MaxId(clears)
    BY <1>1, MaxIdIs
<1> QED BY <1>2 DEF clears, ClearedTo

\* The version is the id of the newest insertion: its row is never pruned.
LEMMA VersionIs ==
    ASSUME TypeOK, Table
    PROVE  Version = lastId
<1>1. preferences \in SUBSET Preference
    BY DEF TypeOK
<1>2. /\ Version \in 0..MaxPreferences
      /\ Version = 0 \/ \E p \in preferences : Version = p.id
      /\ \A p \in preferences : p.id <= Version
    BY <1>1, MaxIdIs DEF Version
<1>3. lastId \in Nat /\ \A p \in preferences : p.id <= lastId /\ p.id \in Nat
    BY DEF TypeOK, Table, Preference
<1>4. lastId # 0 => \E p \in preferences : p.id = lastId
    BY <1>3, AssistantAssumption DEF Table
<1> QED BY <1>2, <1>3, <1>4

-----------------------------------------------------------------------------
(***************************************************************************)
(* Briefings and the preferences they are made of                          *)
(***************************************************************************)

\* A request that does nothing while a row is inserted and old ones go.
LEMMA FollowsInsert ==
    ASSUME DayTypes, Table, NEW r \in Requests, Follows(r),
           NEW active \in BOOLEAN, Insert(active), request'[r] = request[r]
    PROVE  Follows(r)'
<1> DEFINE new == [id |-> lastId + 1, active |-> active]
           q == request[r]
<1>1. /\ lastId' = lastId + 1
      /\ preferences' \subseteq preferences \cup {new}
      /\ new \in preferences'
      /\ \A p \in (preferences \cup {new}) \ preferences' :
            \A u \in preferences' : u.id > p.id
    BY InsertIs, Zenon DEF DayTypes
<1>2. new.id = lastId + 1
    OBVIOUS
<1>3. /\ lastId \in Nat /\ q.own \in Nat /\ q.cleared \in Nat
      /\ q.brief.version \in Nat
      /\ \A i \in q.used : i \in Nat
      /\ \A p \in preferences : p.id \in Nat
    BY DEF DayTypes, TypeOK, Request, Brief, Preference
<1> HIDE DEF new
<1>4. OwnRow(r)'
  <2>1. /\ q.own <= lastId
        /\ \A p \in preferences :
              q.own # 0 /\ p.id = q.own => (p.active <=> q.kind = "add")
        /\ \/ q.own = 0
           \/ \E p \in preferences : p.id = q.own
           \/ \A p \in preferences : p.id > q.own
      BY DEF Follows, OwnRow
  <2>2. \A p \in preferences' :
            q.own # 0 /\ p.id = q.own => (p.active <=> q.kind = "add")
      BY <1>1, <1>2, <1>3, <2>1
  <2>3. \/ q.own = 0
        \/ \E p \in preferences' : p.id = q.own
        \/ \A p \in preferences' : p.id > q.own
    <3>1. CASE \E p \in preferences : p.id = q.own
        BY <1>1, <3>1
    <3>2. CASE \A p \in preferences : p.id > q.own
        BY <1>1, <1>2, <1>3, <2>1, <3>2
    <3> QED BY <2>1, <3>1, <3>2
  <2>4. q.own <= lastId'
      BY <1>1, <1>3, <2>1
  <2> HIDE DEF q
  <2> QED BY <2>2, <2>3, <2>4 DEF Follows, OwnRow, q
<1>5. ASSUME NEW i \in ListedAfter(q.cleared)'
      PROVE  i \in ListedAfter(q.cleared) \/ i = lastId + 1
    BY <1>1, <1>2 DEF ListedAfter
<1>6. OwnChangeIsRead(r)'
  <2>1. q.pc = "listing" /\ q.kind = "clear" =>
            \A i \in ListedAfter(q.cleared)' : i > q.own
      BY <1>3, <1>5 DEF Follows, OwnRow, OwnChangeIsRead
  <2>2. q.pc = "listing" /\ q.kind = "add" => q.cleared # q.own
      BY DEF Follows, OwnChangeIsRead
  <2>3. q.pc \in {"versioning", "saving"} /\ q.kind = "add" =>
            \/ q.own \in q.used \/ q.cleared > q.own
            \/ lastId' >= q.own + Keep
      BY <1>1, <1>3, AssistantAssumption DEF Follows, OwnChangeIsRead
  <2>4. q.pc \in {"versioning", "saving"} /\ q.kind = "clear" =>
            \A i \in q.used : i > q.own
      BY DEF Follows, OwnChangeIsRead
  <2>5. ListedAfter(request[r].cleared)' = ListedAfter(q.cleared)'
      OBVIOUS
  <2> QED BY <2>1, <2>2, <2>3, <2>4, <2>5 DEF OwnChangeIsRead
<1>7. VersionIsNewest(r)'
    BY <1>1, <1>3 DEF Follows, VersionIsNewest
<1> QED BY <1>4, <1>6, <1>7 DEF Follows

\* A request that does nothing while the table stays.
LEMMA FollowsStays ==
    ASSUME NEW r \in Requests, Follows(r), request'[r] = request[r],
           UNCHANGED <<preferences, lastId>>
    PROVE  Follows(r)'
BY DEF Follows, OwnRow, OwnChangeIsRead, VersionIsNewest, ListedAfter

\* A request that is over has forgotten what it read.
LEMMA FollowsEnds ==
    ASSUME DayTypes, NEW r \in Requests, UNCHANGED <<preferences, lastId>>,
           NEW p \in {"done", "failed", "killed"},
           request'[r] = Ended(request[r], p)
    PROVE  Follows(r)'
<1>1. /\ request'[r].pc = p /\ request'[r].own = 0
      /\ request'[r].kind = "none"
    BY DEF Ended, Fresh
<1>2. lastId \in Nat
    BY DEF DayTypes, TypeOK
<1> QED BY <1>1, <1>2 DEF Follows, OwnRow, OwnChangeIsRead, VersionIsNewest

\* A request is started, and has changed and read nothing yet.
LEMMA FollowsStart ==
    ASSUME DayTypes, NEW r \in Requests, Follows(r),
           Get(r) \/ \E kind \in {"refresh", "add", "clear"} : Arrive(r, kind)
    PROVE  Follows(r)'
<1>1. /\ UNCHANGED <<preferences, lastId>>
      /\ request[r].own = 0
      /\ lastId \in Nat
    BY DEF Get, Arrive, store, Follows, OwnRow, At, DayTypes, TypeOK
<1>2. CASE Get(r)
  <2>1. /\ request'[r].own = 0 /\ request'[r].kind = "get"
        /\ request'[r].pc \in {"starting", "done"}
      BY <1>1, <1>2 DEF Get, DayTypes, TypeOK, Request
  <2> QED BY <1>1, <2>1
          DEF Follows, OwnRow, OwnChangeIsRead, VersionIsNewest
<1>3. ASSUME NEW kind \in {"refresh", "add", "clear"}, Arrive(r, kind)
      PROVE  Follows(r)'
  <2>1. /\ request'[r].own = 0 /\ request'[r].kind = kind
        /\ request'[r].pc = IF kind = "refresh" THEN "starting"
                            ELSE "changing"
      BY <1>1, <1>3 DEF Arrive, DayTypes, TypeOK, Request
  <2> QED BY <1>1, <2>1
          DEF Follows, OwnRow, OwnChangeIsRead, VersionIsNewest
<1> QED BY <1>2, <1>3

\* A request inserts its own row.
LEMMA FollowsChange ==
    ASSUME DayTypes, Table, NEW r \in Requests, Follows(r),
           ChangePreferences(r)
    PROVE  Follows(r)'
<1>1. PICK active \in BOOLEAN :
          Insert(active) /\ (active <=> request[r].kind = "add")
    BY ChangeInserts
<1> DEFINE new == [id |-> lastId + 1, active |-> active]
<1>2. /\ lastId' = lastId + 1
      /\ preferences' \subseteq preferences \cup {new}
      /\ new \in preferences'
    BY <1>1, InsertIs, Zenon DEF DayTypes
<1>3. new.id = lastId + 1 /\ (new.active <=> active)
    OBVIOUS
<1>4. /\ lastId \in Nat
      /\ \A p \in preferences : p.id \in Nat /\ p.id <= lastId
    BY DEF DayTypes, TypeOK, Preference, Table
<1>5. /\ request'[r].pc = "starting" /\ request'[r].own = lastId + 1
      /\ request'[r].kind = request[r].kind
    BY DEF ChangePreferences, DayTypes, TypeOK, Request
<1> HIDE DEF new
<1>6. \A p \in preferences' :
          p.id = lastId + 1 => (p.active <=> request[r].kind = "add")
    BY <1>1, <1>2, <1>3, <1>4
<1>7. \E p \in preferences' : p.id = lastId + 1
    BY <1>2, <1>3
<1>8. OwnRow(r)'
    BY <1>2, <1>4, <1>5, <1>6, <1>7 DEF OwnRow
<1>9. OwnChangeIsRead(r)' /\ VersionIsNewest(r)'
    BY <1>5 DEF OwnChangeIsRead, VersionIsNewest
<1> QED BY <1>8, <1>9 DEF Follows

\* One stream is read.
LEMMA ReadStreamIs ==
    ASSUME TypeOK, NEW r \in Requests, ReadStream(r)
    PROVE  \E s \in request[r].unread :
              /\ request'[r].own = request[r].own
              /\ request'[r].kind = request[r].kind
              /\ request'[r].unread = request[r].unread \ {s}
              /\ request'[r].brief.hash
                    = [request[r].brief.hash EXCEPT ![s] = rows[s]]
              /\ request'[r].pc = IF request[r].unread = {s} THEN "clearing"
                                  ELSE "reading"
<1> DEFINE q == request[r]
<1>1. q \in Request /\ q.brief \in Brief /\ q.pc = "reading"
    BY DEF TypeOK, Request, ReadStream, At
<1>2. PICK s \in q.unread :
          request' = [request EXCEPT
              ![r].brief.hash[s] = rows[s],
              ![r].unread = @ \ {s},
              ![r].pc = IF request[r].unread = {s} THEN "clearing" ELSE @]
    BY DEF ReadStream
<1> DEFINE p == IF q.unread = {s} THEN "clearing" ELSE q.pc
           e == [q EXCEPT !.brief.hash[s] = rows[s],
                          !.unread = @ \ {s}, !.pc = p]
           b == [q.brief EXCEPT !.hash = [q.brief.hash EXCEPT ![s] = rows[s]]]
<1>3. request'[r] = e
    BY <1>2 DEF TypeOK
<1>4. e = [q EXCEPT !.brief = b, !.unread = q.unread \ {s}, !.pc = p]
    BY <1>1 DEF Request, Brief
<1>5. b.hash = [q.brief.hash EXCEPT ![s] = rows[s]]
    BY <1>1 DEF Brief
<1> HIDE DEF b, e
<1>6. /\ e.own = q.own /\ e.kind = q.kind /\ e.unread = q.unread \ {s}
      /\ e.brief = b /\ e.pc = p
    BY <1>1, <1>4 DEF Request
<1> QED BY <1>1, <1>3, <1>5, <1>6

\* A request reads: its own change is in what it reads, and what it reads
\* later is newer.
LEMMA FollowsRead ==
    ASSUME DayTypes, Table, NEW r \in Requests, Follows(r),
           \/ Begin(r) \/ ReadStream(r) \/ ReadClear(r)
           \/ ListPreferences(r) \/ ReadVersion(r)
    PROVE  Follows(r)'
<1> DEFINE q == request[r]
<1>1. UNCHANGED <<preferences, lastId>>
    BY DEF Begin, ReadStream, ReadClear, ListPreferences, ReadVersion, store
<1>2. /\ request \in [Requests -> Request] /\ q \in Request
      /\ lastId \in Nat /\ q.own \in Nat
      /\ \A p \in preferences : p.id \in Nat /\ p.id <= lastId
    BY DEF DayTypes, TypeOK, Request, Preference, Table
<1>3. ASSUME request'[r].own = q.own, request'[r].kind = q.kind,
             q.pc \in {"starting", "reading", "clearing", "listing",
                       "versioning"},
             request'[r].pc \in {"reading", "clearing", "listing",
                       "versioning", "saving"}
      PROVE  OwnRow(r)'
    BY <1>1, <1>3 DEF Follows, OwnRow
<1>4. CASE Begin(r) \/ ReadStream(r)
  <2>1. /\ request'[r].own = q.own /\ request'[r].kind = q.kind
        /\ q.pc \in {"starting", "reading"}
        /\ request'[r].pc \in {"reading", "clearing"}
    <3>1. CASE Begin(r)
        BY <1>2, <3>1 DEF Begin, At, Request
    <3>2. CASE ReadStream(r)
        BY <3>2, ReadStreamIs DEF DayTypes, ReadStream, At
    <3> QED BY <1>4, <3>1, <3>2
  <2> QED BY <1>3, <2>1 DEF Follows, OwnChangeIsRead, VersionIsNewest
<1>5. CASE ReadClear(r)
  <2>1. PICK n \in 0..MaxPreferences : n = ClearedTo
      BY ClearedToIs DEF DayTypes
  <2>2. /\ request'[r].own = q.own /\ request'[r].kind = q.kind
        /\ q.pc = "clearing" /\ request'[r].pc = "listing"
        /\ request'[r].cleared = n
      BY <1>2, <1>5, <2>1 DEF ReadClear, At, Request
  <2>3. OwnRow(r)'
      BY <1>3, <2>2
  <2>4. /\ q.own # 0 \/ q.kind \notin {"add", "clear"}
        /\ q.own <= lastId
        /\ \A p \in preferences :
              q.own # 0 /\ p.id = q.own => (p.active <=> q.kind = "add")
        /\ \/ q.own = 0
           \/ \E p \in preferences : p.id = q.own
           \/ \A p \in preferences : p.id > q.own
      BY <2>2 DEF Follows, OwnRow
  <2>5. /\ n = 0 \/ \E p \in preferences : ~p.active /\ p.id = n
        /\ \A p \in preferences : ~p.active => p.id <= n
      BY <2>1, ClearedToIs DEF DayTypes
  <2>6. ASSUME q.kind = "clear", NEW i \in ListedAfter(n)
        PROVE  i > q.own
    <3>1. PICK p \in preferences : p.id = i /\ p.active /\ p.id > n
        BY <2>6 DEF ListedAfter
    <3>2. CASE \E u \in preferences : u.id = q.own
      <4>1. PICK u \in preferences : u.id = q.own
          BY <3>2
      <4>2. ~u.active
          BY <2>4, <2>6, <4>1
      <4> QED BY <1>2, <2>1, <2>5, <3>1, <4>1, <4>2
    <3>3. CASE \A u \in preferences : u.id > q.own
        BY <3>1, <3>3
    <3> QED BY <2>4, <2>6, <3>2, <3>3
  <2>7. q.kind = "add" => n # q.own
      BY <2>4, <2>5
  <2>8. OwnChangeIsRead(r)'
    <3>1. ListedAfter(n)' = ListedAfter(n)
        BY <1>1 DEF ListedAfter
    <3>2. ListedAfter(request[r].cleared)' = ListedAfter(n)
        BY <2>2, <3>1
    <3> QED BY <1>1, <2>2, <2>6, <2>7, <3>2 DEF OwnChangeIsRead
  <2>9. VersionIsNewest(r)'
      BY <2>2 DEF VersionIsNewest
  <2> QED BY <2>3, <2>8, <2>9 DEF Follows
<1>6. CASE ListPreferences(r)
  <2>1. PICK ids \in SUBSET (1..MaxPreferences) :
            ids = ListedAfter(request[r].cleared)
    <3>1. ListedAfter(request[r].cleared) \in SUBSET (1..MaxPreferences)
        BY DEF ListedAfter, Preference, DayTypes, TypeOK
    <3> QED BY <3>1
  <2>2. /\ request'[r].own = q.own /\ request'[r].kind = q.kind
        /\ q.pc = "listing" /\ request'[r].pc = "versioning"
        /\ request'[r].used = ids /\ request'[r].cleared = q.cleared
      BY <1>2, <1>6, <2>1 DEF ListPreferences, At, Request
  <2>3. OwnRow(r)'
      BY <1>3, <2>2
  <2>4. \A i \in ids : i <= lastId
      BY <1>2, <2>1 DEF ListedAfter
  <2>5. q.kind = "clear" => \A i \in ids : i > q.own
      BY <2>1, <2>2 DEF Follows, OwnChangeIsRead
  <2>6. ASSUME q.kind = "add", ~(q.cleared > q.own),
               ~(lastId >= q.own + Keep)
        PROVE  q.own \in ids
    <3>1. /\ q.own # 0 /\ q.own <= lastId
          /\ q.cleared \in Nat /\ q.cleared # q.own
        BY <1>2, <2>2, <2>6 DEF Follows, OwnRow, OwnChangeIsRead, Request
    <3>2. q.own \in 1..lastId /\ lastId < q.own + Keep
        BY <1>2, <2>6, <3>1, AssistantAssumption
    <3>3. PICK p \in preferences : p.id = q.own
        BY <3>2 DEF Table
    <3>4. p.active
        BY <2>6, <3>1, <3>3 DEF Follows, OwnRow
    <3>5. q.cleared < q.own
        BY <1>2, <2>6, <3>1
    <3> QED BY <2>1, <3>3, <3>4, <3>5 DEF ListedAfter
  <2>7. OwnChangeIsRead(r)'
      BY <1>1, <2>2, <2>5, <2>6 DEF OwnChangeIsRead
  <2>8. VersionIsNewest(r)'
      BY <1>1, <2>2, <2>4 DEF VersionIsNewest
  <2> QED BY <2>3, <2>7, <2>8 DEF Follows
<1>7. CASE ReadVersion(r)
  <2>1. Version = lastId
      BY VersionIs DEF DayTypes
  <2>2. /\ request'[r].own = q.own /\ request'[r].kind = q.kind
        /\ q.pc = "versioning" /\ request'[r].pc = "saving"
        /\ request'[r].used = q.used /\ request'[r].cleared = q.cleared
        /\ request'[r].brief.version = lastId
      BY <1>2, <1>7, <2>1 DEF ReadVersion, At, Request, Brief
  <2>3. OwnRow(r)'
      BY <1>3, <2>2
  <2>4. OwnChangeIsRead(r)'
      BY <1>1, <2>2 DEF Follows, OwnChangeIsRead
  <2>5. VersionIsNewest(r)'
      BY <2>2 DEF Follows, OwnRow, VersionIsNewest
  <2> QED BY <2>3, <2>4, <2>5 DEF Follows
<1> QED BY <1>4, <1>5, <1>6, <1>7

\* Who changes a request's record: the request itself, and the day, which
\* starts and kills the briefing child.
LEMMA RequestChanges ==
    ASSUME DayTypes, [DayNext]_dayVars, NEW r \in Requests
    PROVE  \/ request'[r] = request[r]
           \/ Generate(r)
           \/ Get(r)
           \/ \E kind \in {"refresh", "add", "clear"} : Arrive(r, kind)
           \/ /\ request'[r] = Ended(request[r], "killed")
              /\ UNCHANGED <<preferences, lastId>>
<1>1. Child \in Requests /\ request \in [Requests -> Request]
    BY DayAssumption DEF DayTypes, TypeOK
<1>2. CASE UNCHANGED request
    BY <1>2
<1>3. CASE DayStep
  <2>1. CASE StartBrief
    <3>1. Arrive(Child, "refresh")
        BY <2>1 DEF StartBrief
    <3>2. CASE r = Child
        BY <3>1, <3>2
    <3>3. CASE r # Child
        BY <1>1, <3>1, <3>3 DEF Arrive
    <3> QED BY <3>2, <3>3
  <2>2. CASE StopBrief
    <3>1. request' = [request EXCEPT
                        ![Child] = Ended(request[Child], "killed")]
        BY <2>2 DEF StopBrief, Ends, Ended
    <3>2. UNCHANGED <<preferences, lastId>>
        BY <2>2 DEF StopBrief, store
    <3> QED BY <1>1, <3>1, <3>2
  <2>3. CASE ~StartBrief /\ ~StopBrief
      BY <1>2, <1>3, <2>3 DEF DayStep, Wake, SyncStream, SyncSucceeds,
          SyncFails, Identify, EndBrief, OpenPage, Log, LogFailure, vars
  <2> QED BY <2>1, <2>2, <2>3
<1>4. CASE Elsewhere
  <2>1. CASE \E u \in Requests \ {Child} : Get(u)
    <3>1. PICK u \in Requests \ {Child} : Get(u)
        BY <2>1
    <3>2. CASE r # u
        BY <1>1, <3>1, <3>2 DEF Get
    <3> QED BY <3>1, <3>2
  <2>2. CASE \E u \in Requests \ {Child} :
                 \E kind \in {"refresh", "add", "clear"} : Arrive(u, kind)
    <3>1. PICK u \in Requests \ {Child},
               kind \in {"refresh", "add", "clear"} : Arrive(u, kind)
        BY <2>2
    <3>2. CASE r # u
        BY <1>1, <3>1, <3>2 DEF Arrive
    <3> QED BY <3>1, <3>2
  <2>3. CASE \E u \in Requests : Generate(u)
    <3>1. PICK u \in Requests : Generate(u)
        BY <2>3
    <3>2. CASE r # u
        BY <1>1, <3>1, <3>2
           DEF Generate, ChangePreferences, Begin, ReadStream, ReadClear,
               ListPreferences, ReadVersion, Save, Fail, Ends
    <3> QED BY <3>1, <3>2
  <2>4. CASE UNCHANGED request
      BY <2>4
  <2>5. CASE \E active \in BOOLEAN : ChangeOnly(active)
      BY <2>4, <2>5 DEF ChangeOnly
  <2>6. CASE \E s \in Streams : Commit(s)
                 /\ UNCHANGED <<preferences, lastId, briefs, request>>
      BY <2>4, <2>6
  <2> QED BY <1>4, <2>1, <2>2, <2>3, <2>5, <2>6 DEF Elsewhere
<1>5. CASE UNCHANGED dayVars
    BY <1>2, <1>5 DEF dayVars, vars
<1> QED BY <1>3, <1>4, <1>5 DEF DayNext

LEMMA FollowsStep ==
    ASSUME DayTypes, Table, NEW r \in Requests, Follows(r),
           [DayNext]_dayVars
    PROVE  Follows(r)'
<1>1. CASE request'[r] = request[r]
  <2>1. CASE UNCHANGED <<preferences, lastId>>
      BY <1>1, <2>1, FollowsStays
  <2>2. CASE \E active \in BOOLEAN : Insert(active)
    <3>1. PICK active \in BOOLEAN : Insert(active)
        BY <2>2
    <3> QED BY <1>1, <3>1, FollowsInsert, Zenon
  <2> QED BY <2>1, <2>2, TableChanges
<1>2. CASE Generate(r)
  <2>1. CASE ChangePreferences(r)
      BY <2>1, FollowsChange
  <2>2. CASE \/ Begin(r) \/ ReadStream(r) \/ ReadClear(r)
             \/ ListPreferences(r) \/ ReadVersion(r)
      BY <2>2, FollowsRead
  <2>3. CASE Save(r)
    <3>1. request'[r] = Ended(request[r], "done")
        BY <2>3 DEF Save, Ends, Ended, DayTypes, TypeOK
    <3> QED BY <2>3, <3>1, FollowsEnds DEF Save
  <2>4. CASE Fail(r)
    <3>1. request'[r] = Ended(request[r], "failed")
        BY <2>4 DEF Fail, Ends, Ended, DayTypes, TypeOK
    <3> QED BY <2>4, <3>1, FollowsEnds DEF Fail, store
  <2> QED BY <1>2, <2>1, <2>2, <2>3, <2>4 DEF Generate
<1>3. CASE Get(r) \/ \E kind \in {"refresh", "add", "clear"} : Arrive(r, kind)
    BY <1>3, FollowsStart
<1>4. CASE /\ request'[r] = Ended(request[r], "killed")
           /\ UNCHANGED <<preferences, lastId>>
    BY <1>4, FollowsEnds
<1> QED BY <1>1, <1>2, <1>3, <1>4, RequestChanges

LEMMA BriefingsInit ==
    ASSUME DayInit
    PROVE  Briefings
<1>1. Table
    BY DEF DayInit, Init, Table
<1>2. ASSUME NEW r \in Requests
      PROVE  Follows(r)
  <2>1. request[r].pc = "idle" /\ request[r].own = 0
           /\ request[r].kind = "none" /\ lastId = 0
      BY DEF DayInit, Init, Fresh
  <2> QED BY <2>1 DEF Follows, OwnRow, OwnChangeIsRead, VersionIsNewest
<1> QED BY <1>1, <1>2 DEF Briefings

LEMMA BriefingsStep ==
    ASSUME DayTypes, Briefings, [DayNext]_dayVars
    PROVE  Briefings'
BY TableStep, FollowsStep DEF Briefings

\* A briefing is never filed under preferences older than those it was
\* ranked by, and one that is asked for with a change knows the change,
\* whatever others add, clear and prune between the reads: nothing but a
\* later clear, or Keep later rows, keeps an added text out of it.
THEOREM BriefsFollowChanges == DaySpec => []BriefsKnowTheirPreferences
<1>1. DayInit => DayTypes /\ Briefings
    BY TypesInit, BriefingsInit
<1>2. DayTypes /\ Briefings /\ [DayNext]_dayVars => DayTypes' /\ Briefings'
    BY TypesStep, BriefingsStep
<1>3. DayTypes /\ Briefings => BriefsKnowTheirPreferences
    BY DEF Briefings, Follows, OwnRow, OwnChangeIsRead, VersionIsNewest,
           BriefsKnowTheirPreferences
<1> QED BY <1>1, <1>2, <1>3, PTL DEF DaySpec

-----------------------------------------------------------------------------
(***************************************************************************)
(* The table is a list                                                     *)
(***************************************************************************)

LEMMA ListWords ==
    /\ \A S : Cardinality(S) = List!Cardinality(S)
    /\ \A ids : List!NewestOf(ids) =
          {i \in ids : Cardinality({j \in ids : j > i}) < Keep}
<1>1. \A S : Cardinality(S) = List!Cardinality(S)
    BY DEF Cardinality, List!Cardinality
<1> QED BY <1>1 DEF List!NewestOf

\* A text is inserted: the list is the newest of those it had and this one.
LEMMA AddedIsListed ==
    ASSUME TypeOK, IsFiniteSet(preferences), Table, Insert(TRUE)
    PROVE  /\ lastId + 1 \in 1..MaxPreferences
           /\ \A i \in Listed : i < lastId + 1
           /\ Listed' = List!NewestOf(Listed \cup {lastId + 1})
<1> DEFINE new == [id |-> lastId + 1, active |-> TRUE]
           all == preferences \cup {new}
           L == Listed \cup {lastId + 1}
<1>1. /\ preferences' \subseteq Preference
      /\ lastId + 1 \in 1..MaxPreferences
      /\ new \in Preference
    BY TypesInsert
<1>2. /\ lastId' = lastId + 1
      /\ preferences' = Pruned(all)
      /\ preferences' \subseteq all
      /\ new \in preferences'
      /\ \A p \in all \ preferences' : \A q \in preferences' : q.id > p.id
    BY InsertIs
<1>3. new.id = lastId + 1 /\ new.active
    OBVIOUS
<1>4. /\ lastId \in Nat
      /\ \A p \in preferences : p.id \in Nat /\ p.id # 0 /\ p.id <= lastId
      /\ \A p, q \in preferences : p.id = q.id => p = q
    BY DEF TypeOK, Preference, Table
<1>5. PICK c \in 0..MaxPreferences : c = ClearedTo
    BY ClearedToIs
<1>6. /\ c = 0 \/ \E p \in preferences : ~p.active /\ p.id = c
      /\ \A p \in preferences : ~p.active => p.id <= c
    BY <1>5, ClearedToIs
<1>7. c <= lastId
    BY <1>4, <1>6
<1>8. PICK d \in 0..MaxPreferences : d = ClearedTo'
  <2>1. {p \in preferences' : ~p.active} \in SUBSET Preference
      BY <1>1
  <2>2. MaxId({p \in preferences' : ~p.active}) \in 0..MaxPreferences
      BY <2>1, MaxIdIs
  <2> QED BY <2>2 DEF ClearedTo
<1>9. /\ d = 0 \/ \E p \in preferences' : ~p.active /\ p.id = d
      /\ \A p \in preferences' : ~p.active => p.id <= d
  <2> DEFINE clears == {p \in preferences' : ~p.active}
  <2>1. clears \in SUBSET Preference
      BY <1>1
  <2>2. d = MaxId(clears)
      BY <1>8 DEF ClearedTo
  <2> HIDE DEF clears
  <2>3. /\ MaxId(clears) = 0 \/ \E p \in clears : MaxId(clears) = p.id
        /\ \A p \in clears : p.id <= MaxId(clears)
      BY <2>1, MaxIdIs
  <2> QED BY <2>2, <2>3 DEF clears
<1>10. Listed = {p.id : p \in {q \in preferences : q.active /\ q.id > c}}
    BY <1>5 DEF Listed, ListedAfter
<1>11. Listed' = {p.id : p \in {q \in preferences' : q.active /\ q.id > d}}
    BY <1>8 DEF Listed, ListedAfter
<1>12. \A p \in all : p.id \in Nat /\ p.id # 0 /\ p.id <= lastId + 1
    BY <1>3, <1>4
<1>13. \A p, q \in all : p.id = q.id => p = q
  <2> HIDE DEF new
  <2> QED BY <1>3, <1>4
<1>14. \A p \in all : p.id > c => p.active
    BY <1>3, <1>4, <1>6
<1> HIDE DEF new
<1>15. L = {p.id : p \in {q \in all : q.id > c}}
    BY <1>3, <1>4, <1>6, <1>7, <1>10, <1>14
<1>16. ASSUME NEW p \in all, p.id > c
       PROVE  Cardinality({j \in L : j > p.id}) = Cardinality(Newer(p, all))
  <2>1. {j \in L : j > p.id} = {q.id : q \in Newer(p, all)}
    <3>1. \A q \in all : q.id > p.id => q.id > c
        BY <1>12, <1>16
    <3> HIDE DEF L, all
    <3> QED BY <1>15, <3>1 DEF Newer
  <2>2. Newer(p, all) \in SUBSET Preference
      BY <1>1 DEF Newer, TypeOK
  <2>3. IsFiniteSet(all)
      BY FS_AddElement
  <2>4. IsFiniteSet(Newer(p, all))
      BY <2>3, FS_Subset DEF Newer
  <2>5. \A q, u \in Newer(p, all) : q.id = u.id => q = u
      BY <1>13 DEF Newer
  <2> HIDE DEF all, L
  <2> QED BY <2>1, <2>2, <2>4, <2>5, AsManyIds
<1>17. ASSUME NEW p \in preferences'
       PROVE  (p.active /\ p.id > d) <=> p.id > c
  <2>1. p \in all /\ p.id \in Nat
      BY <1>2, <1>12
  <2>2. ASSUME p.id > c
        PROVE  p.active /\ p.id > d
    <3>1. p.active
        BY <1>14, <2>1, <2>2
    <3>2. d = 0 \/ d <= c
        BY <1>2, <1>3, <1>6, <1>9
    <3> QED BY <2>1, <2>2, <3>1, <3>2
  <2>3. ASSUME p.active, p.id > d, ~(p.id > c)
        PROVE  FALSE
    <3>1. PICK k \in preferences : ~k.active /\ k.id = c
        BY <1>6, <1>12, <2>1, <2>3
    <3>2. CASE k \in preferences'
        BY <1>9, <2>1, <2>3, <3>1, <3>2
    <3>3. CASE k \notin preferences'
        BY <1>2, <2>3, <3>1, <3>3
    <3> QED BY <3>2, <3>3
  <2> QED BY <2>2, <2>3
<1>18. Listed' = {p.id : p \in {q \in Pruned(all) : q.id > c}}
  <2> HIDE DEF all
  <2> QED BY <1>2, <1>11, <1>17
<1>19. {p.id : p \in {q \in Pruned(all) : q.id > c}}
          = {i \in L : Cardinality({j \in L : j > i}) < Keep}
  <2> HIDE DEF all, L
  <2>1. \A p \in all : p.id > c =>
            (p \in Pruned(all) <=> Cardinality({j \in L : j > p.id}) < Keep)
      BY <1>16 DEF Pruned
  <2>2. Pruned(all) \subseteq all
      BY DEF Pruned
  <2> QED BY <1>15, <2>1, <2>2
<1>20. \A i \in Listed : i < lastId + 1
    BY <1>4, <1>10
<1> QED BY <1>1, <1>18, <1>19, <1>20, ListWords

\* A clear is inserted: nothing is listed.
LEMMA ClearedIsEmpty ==
    ASSUME TypeOK, IsFiniteSet(preferences), Table, Insert(FALSE)
    PROVE  Listed' = {}
<1> DEFINE new == [id |-> lastId + 1, active |-> FALSE]
           clears == {p \in preferences' : ~p.active}
<1>1. preferences' \subseteq Preference /\ Table'
    BY TypesInsert, TableInsert
<1>2. lastId' = lastId + 1 /\ new \in preferences'
    BY InsertIs
<1>3. new \in clears /\ new.id = lastId + 1
    BY <1>2
<1>4. clears \in SUBSET Preference
    BY <1>1
<1>5. \A p \in preferences' : p.id <= lastId + 1 /\ p.id \in Nat
    BY <1>1, <1>2 DEF Table, Preference
<1> HIDE DEF new, clears
<1>6. MaxId(clears) \in 0..MaxPreferences /\ lastId + 1 <= MaxId(clears)
    BY <1>3, <1>4, MaxIdIs
<1>7. ClearedTo' = MaxId(clears)
    BY DEF ClearedTo, clears
<1>8. PICK d \in 0..MaxPreferences : d = ClearedTo' /\ lastId + 1 <= d
    BY <1>6, <1>7
<1>9. Listed' = {p.id : p \in {q \in preferences' : q.active /\ q.id > d}}
    BY <1>8 DEF Listed, ListedAfter
<1>10. lastId \in Nat
    BY DEF TypeOK
<1> QED BY <1>5, <1>8, <1>9, <1>10

LEMMA ListStep ==
    ASSUME DayTypes, Table, [DayNext]_dayVars
    PROVE  [List!Next]_(Listed)
<1>1. CASE UNCHANGED <<preferences, lastId>>
    BY <1>1 DEF Listed, ListedAfter, ClearedTo
<1>2. CASE Insert(TRUE)
  <2>1. /\ lastId + 1 \in 1..MaxPreferences
        /\ \A i \in Listed : i < lastId + 1
        /\ Listed' = List!NewestOf(Listed \cup {lastId + 1})
      BY <1>2, AddedIsListed DEF DayTypes
  <2>2. List!Add
      BY <2>1 DEF List!Add
  <2> QED BY <2>2 DEF List!Next
<1>3. CASE Insert(FALSE)
  <2>1. List!Clear
      BY <1>3, ClearedIsEmpty DEF DayTypes, List!Clear
  <2> QED BY <2>1 DEF List!Next
<1>4. ASSUME NEW active \in BOOLEAN, Insert(active)
      PROVE  Insert(TRUE) \/ Insert(FALSE)
  <2>1. CASE active = TRUE
      BY <1>4, <2>1
  <2>2. CASE active = FALSE
      BY <1>4, <2>2
  <2> QED BY <2>1, <2>2
<1> QED BY <1>1, <1>2, <1>3, <1>4, TableChanges

LEMMA ListInit ==
    ASSUME DayInit
    PROVE  List!Init
BY DEF DayInit, Init, Listed, ListedAfter, List!Init

\* The table of preferences, with clears among its rows and pruned as they
\* are, is the list that was promised: the texts since the last clear, the
\* newest Keep of them.  What was cleared never comes back.
THEOREM PreferencesKeepPromise == DaySpec => PreferencesAreAList
<1>1. DayInit => DayTypes /\ Briefings
    BY TypesInit, BriefingsInit
<1>2. DayTypes /\ Briefings /\ [DayNext]_dayVars => DayTypes' /\ Briefings'
    BY TypesStep, BriefingsStep
<1>3. DayInit => List!Init
    BY ListInit
<1>4. DayTypes /\ Briefings /\ [DayNext]_dayVars => [List!Next]_(Listed)
    BY ListStep DEF Briefings
<1> QED BY <1>1, <1>2, <1>3, <1>4, PTL DEF DaySpec, PreferencesAreAList, List!Spec

-----------------------------------------------------------------------------
(***************************************************************************)
(* The day                                                                 *)
(***************************************************************************)

\* The stage that is over has given its code, and the next one comes.
LEMMA StageOver ==
    ASSUME DayTypes, StagesInOrder, ZeroIsEarned,
           NEW code \in {1, day.code[day.stage]}, code # NoCode,
           StageEnds(code), log' = Recorded(code), UNCHANGED request
    PROVE  StagesInOrder' /\ ZeroIsEarned'
<1>1. /\ day.stage \in 1..3
      /\ day.code \in [1..3 -> Codes \cup {NoCode}]
      /\ DOMAIN log = 1..3
      /\ code # NoCode
    BY StagesAre DEF DayTypes, Day, NoCode
<1>2. /\ day'.pc = NextStage(day.stage)
      /\ day'.code = [day.code EXCEPT ![day.stage] = code]
      /\ day'.stage = IF day.stage < 3 THEN day.stage + 1 ELSE day.stage
      /\ day'.synced = day.synced
      /\ log' = [log EXCEPT ![day.stage] = code]
    BY StagesAre DEF StageEnds, DayTypes, Day, Recorded
<1>3. NextStage(1) = "identity" /\ NextStage(2) = "open"
         /\ NextStage(3) = "done"
    BY DEF NextStage
<1>4. \A i \in 1..3 : i < day.stage => day.code[i] # NoCode
                                          /\ log[i] = day.code[i]
    BY DEF StagesInOrder
<1>5. StagesInOrder'
  <2>1. CASE day.stage = 1
      BY <1>1, <1>2, <1>3, <1>4, <2>1 DEF StagesInOrder
  <2>2. CASE day.stage = 2
      BY <1>1, <1>2, <1>3, <1>4, <2>2 DEF StagesInOrder
  <2>3. CASE day.stage = 3
      BY <1>1, <1>2, <1>3, <1>4, <2>3 DEF StagesInOrder
  <2> QED BY <1>1, <2>1, <2>2, <2>3
<1>6. ZeroIsEarned'
    BY <1>1, <1>2 DEF ZeroIsEarned, At
<1> QED BY <1>5, <1>6

\* A stage gives its code, and zero only for what it has done.
LEMMA StageGave ==
    ASSUME DayTypes, StagesInOrder, ZeroIsEarned, NEW code \in Codes,
           day.pc \in {"sync", "brief", "open"}, StageGives(code),
           log' = log,
           day.stage = 1 /\ code = 0 => day.synced = Streams,
           day.stage = 2 /\ code = 0 => At(Child, "done"),
           At(Child, "done") => At(Child, "done")'
    PROVE  StagesInOrder' /\ ZeroIsEarned'
<1>1. /\ day.stage \in 1..3
      /\ day.code \in [1..3 -> Codes \cup {NoCode}]
      /\ code # NoCode
    BY StagesAre DEF DayTypes, Day, NoCode, Codes
<1>2. /\ day'.pc = "logging"
      /\ day'.code = [day.code EXCEPT ![day.stage] = code]
      /\ day'.stage = day.stage
      /\ day'.synced = day.synced
    BY StagesAre DEF StageGives, DayTypes, Day
<1>3. StagesInOrder'
    BY <1>1, <1>2 DEF StagesInOrder
<1>4. ZeroIsEarned'
    BY <1>1, <1>2 DEF ZeroIsEarned
<1> QED BY <1>3, <1>4

\* What leaves the codes and the log alone.
LEMMA StageMoves ==
    ASSUME DayTypes, StagesInOrder, ZeroIsEarned,
           day'.code = day.code, day'.stage = day.stage,
           day'.synced = day.synced \/ day.pc = "sync",
           \/ day'.pc = day.pc
           \/ day.pc = "idle" /\ day'.pc = "sync"
           \/ day.pc = "identity" /\ day'.pc = "brief"
           \/ day'.pc \in {"relogging", "aborted"},
           log' \in {log, Recorded(1), Recorded(day.code[day.stage])},
           day.pc \in {"logging", "relogging"} \/ log' = log,
           day.synced = Streams => day'.synced = Streams,
           At(Child, "done") => At(Child, "done")'
    PROVE  StagesInOrder' /\ ZeroIsEarned'
<1>1. day.stage \in 1..3 /\ DOMAIN log = 1..3
    BY StagesAre DEF DayTypes, Day
<1>2. \A i \in 1..3 : i < day.stage => log'[i] = log[i]
    BY <1>1 DEF Recorded
<1>3. StagesInOrder'
  <2>1. CASE day'.pc = "done"
      BY <2>1 DEF StagesInOrder
  <2>2. CASE day'.pc # "done"
      BY <1>1, <1>2, <2>2 DEF StagesInOrder
  <2> QED BY <2>1, <2>2
<1>4. ZeroIsEarned'
    BY DEF ZeroIsEarned
<1> QED BY <1>3, <1>4

\* Who changes the briefing child's record: itself, and the brief stage.
LEMMA ChildChanges ==
    ASSUME DayTypes, [DayNext]_dayVars
    PROVE  \/ request'[Child] = request[Child]
           \/ Generate(Child) /\ UNCHANGED <<day, log>>
           \/ day.pc = "brief" /\ Arrive(Child, "refresh") /\ UNCHANGED day
           \/ /\ day.pc = "brief" /\ request[Child].pc # "done"
              /\ request'[Child] = Ended(request[Child], "killed")
              /\ UNCHANGED rows /\ \E code \in Codes : StageGives(code)
<1>1. Child \in Requests /\ request \in [Requests -> Request]
    BY DayAssumption DEF DayTypes, TypeOK
<1>2. CASE UNCHANGED request
    BY <1>2
<1>3. CASE DayStep
  <2>1. CASE StartBrief
      BY <2>1 DEF StartBrief
  <2>2. CASE StopBrief
      BY <1>1, <2>2 DEF StopBrief, Ends, Ended, store, Codes, At
  <2>3. CASE ~StartBrief /\ ~StopBrief
      BY <1>2, <1>3, <2>3 DEF DayStep, Wake, SyncStream, SyncSucceeds,
          SyncFails, Identify, EndBrief, OpenPage, Log, LogFailure, vars
  <2> QED BY <2>1, <2>2, <2>3
<1>4. CASE Elsewhere /\ UNCHANGED <<day, log>>
  <2>1. CASE \E u \in Requests \ {Child} : Get(u)
      BY <1>1, <2>1 DEF Get
  <2>2. CASE \E u \in Requests \ {Child} :
                 \E kind \in {"refresh", "add", "clear"} : Arrive(u, kind)
      BY <1>1, <2>2 DEF Arrive
  <2>3. CASE \E u \in Requests : Generate(u)
    <3>1. PICK u \in Requests : Generate(u)
        BY <2>3
    <3>2. CASE Child # u
        BY <1>1, <3>1, <3>2
           DEF Generate, ChangePreferences, Begin, ReadStream, ReadClear,
               ListPreferences, ReadVersion, Save, Fail, Ends
    <3> QED BY <1>4, <3>1, <3>2
  <2>4. CASE UNCHANGED request
      BY <2>4
  <2>5. CASE \E active \in BOOLEAN : ChangeOnly(active)
      BY <2>4, <2>5 DEF ChangeOnly
  <2>6. CASE \E s \in Streams : Commit(s)
                 /\ UNCHANGED <<preferences, lastId, briefs, request>>
      BY <2>4, <2>6
  <2> QED BY <1>4, <2>1, <2>2, <2>3, <2>5, <2>6 DEF Elsewhere
<1>5. CASE UNCHANGED dayVars
    BY <1>2, <1>5 DEF dayVars, vars
<1> QED BY <1>3, <1>4, <1>5 DEF DayNext

\* A briefing that is done stays so.
LEMMA DoneStays ==
    ASSUME DayTypes, [DayNext]_dayVars, At(Child, "done")
    PROVE  At(Child, "done")'
<1>1. ~Generate(Child)
    BY DEF Generate, ChangePreferences, Begin, ReadStream, ReadClear,
           ListPreferences, ReadVersion, Save, Fail, At
<1>2. ~Arrive(Child, "refresh")
    BY DEF Arrive, At
<1>3. request'[Child] = request[Child]
    BY <1>1, <1>2, ChildChanges DEF At
<1> QED BY <1>3 DEF At

LEMMA StagesStep ==
    ASSUME DayTypes, StagesInOrder, ZeroIsEarned, [DayNext]_dayVars
    PROVE  StagesInOrder' /\ ZeroIsEarned'
<1>1. At(Child, "done") => At(Child, "done")'
    BY DoneStays
<1>2. day \in Day
    BY DEF DayTypes
<1>3. CASE UNCHANGED <<day, log>>
    BY <1>1, <1>3, StageMoves
<1>4. CASE Wake
    BY <1>1, <1>2, <1>4, StageMoves DEF Wake, Day
<1>5. CASE SyncStream
  <2>1. /\ day.pc = "sync" /\ day'.pc = day.pc /\ day'.code = day.code
        /\ day'.stage = day.stage /\ log' = log
        /\ day.synced = Streams => day'.synced = Streams
      BY <1>2, <1>5 DEF SyncStream, Day
  <2> QED BY <1>1, <2>1, StageMoves
<1>6. CASE SyncSucceeds
    BY <1>1, <1>6, StageGave DEF SyncSucceeds, Codes, StagesInOrder
<1>7. CASE SyncFails
  <2>1. PICK code \in {1, 124} : StageGives(code)
      BY <1>7 DEF SyncFails
  <2> QED BY <1>1, <1>7, <2>1, StageGave DEF SyncFails, Codes, StagesInOrder
<1>8. CASE Identify
    BY <1>1, <1>2, <1>8, StageMoves DEF Identify, Day
<1>9. CASE StartBrief
    BY <1>1, <1>3, <1>9 DEF StartBrief
<1>10. CASE EndBrief
    BY <1>1, <1>10, StageGave DEF EndBrief, Codes, StagesInOrder
<1>11. CASE StopBrief
  <2>1. PICK code \in {1, 124} : StageGives(code)
      BY <1>11 DEF StopBrief
  <2> QED BY <1>1, <1>11, <2>1, StageGave DEF StopBrief, Codes, StagesInOrder
<1>12. CASE OpenPage
  <2>1. PICK code \in Codes : StageGives(code)
      BY <1>12 DEF OpenPage
  <2> QED BY <1>1, <1>12, <2>1, StageGave DEF OpenPage, StagesInOrder
<1>13. CASE Log
  <2>1. day.code[day.stage] # NoCode
      BY <1>13 DEF Log, StagesInOrder
  <2>2. CASE /\ log' = Recorded(day.code[day.stage])
             /\ StageEnds(day.code[day.stage])
      BY <1>13, <2>1, <2>2, StageOver DEF Log, vars
  <2>3. CASE /\ log' \in {log, Recorded(day.code[day.stage])}
             /\ day' = [day EXCEPT !.pc = "relogging"]
      BY <1>1, <1>2, <1>13, <2>3, StageMoves DEF Log, Day
  <2> QED BY <1>13, <2>2, <2>3 DEF Log
<1>14. CASE LogFailure
  <2>1. CASE log' = Recorded(1) /\ StageEnds(1)
      BY <1>14, <2>1, StageOver DEF LogFailure, vars, NoCode
  <2>2. CASE /\ log' \in {log, Recorded(1)}
             /\ day' = [day EXCEPT !.pc = "aborted"]
      BY <1>1, <1>2, <1>14, <2>2, StageMoves DEF LogFailure, Day
  <2> QED BY <1>14, <2>1, <2>2 DEF LogFailure
<1> QED BY <1>3, <1>4, <1>5, <1>6, <1>7, <1>8, <1>9, <1>10, <1>11, <1>12,
           <1>13, <1>14 DEF DayNext, DayStep, dayVars

\* Rows are only added to, the stage never goes back, and only the sync
\* stage changes what is left behind.
LEMMA RowsAndStagesGrow ==
    ASSUME DayTypes, StagesInOrder, [DayNext]_dayVars
    PROVE  /\ \A s \in Streams : rows'[s] >= rows[s]
           /\ day'.stage = 1 => day.stage = 1
           /\ \/ day'.left = day.left
              \/ /\ day.stage = 1
                 /\ \A s \in Streams :
                       day'.left[s] = day.left[s] \/ day'.left[s] = rows'[s]
<1>1. /\ rows \in Seen /\ day \in Day /\ day.left \in Seen
      /\ day.stage \in 1..3
    BY StagesAre DEF DayTypes, TypeOK, Day
<1>2. \A s \in Streams : rows[s] \in Nat
    BY <1>1 DEF Seen
<1>3. CASE UNCHANGED <<rows, day>>
    BY <1>2, <1>3
<1>4. CASE SyncStream
  <2>1. PICK s \in Streams \ day.synced :
            /\ Commit(s)
            /\ day' = [day EXCEPT !.synced = @ \cup {s},
                                  !.left[s] = rows[s] + 1]
      BY <1>4 DEF SyncStream
  <2>2. /\ day'.stage = day.stage
        /\ day'.left = [day.left EXCEPT ![s] = rows[s] + 1]
      BY <1>1, <2>1 DEF Day
  <2>3. rows' = [rows EXCEPT ![s] = rows[s] + 1]
      BY <2>1 DEF Commit
  <2>4. day.stage = 1
      BY <1>4 DEF SyncStream, StagesInOrder
  <2> QED BY <1>1, <1>2, <2>2, <2>3, <2>4 DEF Seen
<1>5. ASSUME NEW s \in Streams, Commit(s), UNCHANGED day
      PROVE  /\ \A u \in Streams : rows'[u] >= rows[u]
             /\ day'.stage = day.stage /\ day'.left = day.left
    BY <1>1, <1>2, <1>5 DEF Commit, Seen
<1>6. CASE Elsewhere /\ UNCHANGED <<day, log>>
  <2>1. \/ UNCHANGED rows
        \/ \E s \in Streams : Commit(s)
      BY <1>6 DEF Elsewhere, Get, Arrive, Generate, ChangePreferences, Begin,
          ReadStream, ReadClear, ListPreferences, ReadVersion, Save, Fail,
          ChangeOnly, store
  <2> QED BY <1>3, <1>5, <1>6, <2>1
<1>7. ASSUME UNCHANGED rows, NEW code \in Codes \cup {NoCode},
             StageGives(code) \/ StageEnds(code)
      PROVE  /\ \A s \in Streams : rows'[s] >= rows[s]
             /\ day'.left = day.left
             /\ day'.stage = 1 => day.stage = 1
  <2>1. \A s \in Streams : rows'[s] >= rows[s]
      BY <1>2, <1>7
  <2>2. CASE StageGives(code)
    <3>1. day'.left = day.left /\ day'.stage = day.stage
        BY <1>1, <2>2 DEF StageGives, Day
    <3> QED BY <2>1, <3>1
  <2>3. CASE StageEnds(code)
    <3>1. /\ day'.left = day.left
          /\ day'.stage = IF day.stage < 3 THEN day.stage + 1 ELSE day.stage
        BY <1>1, <2>3, StagesAre DEF StageEnds, Day
    <3> QED BY <1>1, <2>1, <3>1
  <2> QED BY <1>7, <2>2, <2>3
<1>8. ASSUME UNCHANGED rows, NEW p, day' = [day EXCEPT !.pc = p]
      PROVE  /\ \A s \in Streams : rows'[s] >= rows[s]
             /\ day'.left = day.left /\ day'.stage = day.stage
    BY <1>1, <1>2, <1>8 DEF Day
<1>9. CASE Wake \/ Identify
    BY <1>8, <1>9 DEF Wake, Identify, vars
<1>10. CASE SyncSucceeds \/ SyncFails \/ EndBrief \/ StopBrief \/ OpenPage
  <2>1. UNCHANGED rows /\ \E code \in Codes : StageGives(code)
      BY <1>10 DEF SyncSucceeds, SyncFails, EndBrief, StopBrief, OpenPage,
          vars, store, Codes
  <2> QED BY <1>7, <2>1
<1>11. CASE StartBrief
    BY <1>3, <1>11 DEF StartBrief, Arrive, store
<1>12. CASE Log \/ LogFailure
  <2>1. day.code[day.stage] \in Codes \cup {NoCode} /\ 1 \in Codes
      BY <1>1, StagesAre DEF Day, Codes
  <2>2. /\ UNCHANGED rows
        /\ \/ \E code \in Codes \cup {NoCode} : StageEnds(code)
           \/ \E p : day' = [day EXCEPT !.pc = p]
      BY <1>12, <2>1 DEF Log, LogFailure, vars
  <2> QED BY <1>7, <1>8, <2>2
<1> QED BY <1>3, <1>4, <1>6, <1>9, <1>10, <1>11, <1>12
        DEF DayNext, DayStep, dayVars, vars

LEMMA ChildStep ==
    ASSUME DayTypes, StagesInOrder, ChildReadsAfterSync, [DayNext]_dayVars
    PROVE  ChildReadsAfterSync'
<1> DEFINE q == request[Child]
<1>1. /\ Child \in Requests /\ TypeOK /\ q \in Request
      /\ q.brief.hash \in Seen /\ day.left \in Seen /\ rows \in Seen
    BY DayAssumption DEF DayTypes, TypeOK, Request, Brief, Day
<1>2. \A s \in Streams : /\ rows[s] \in Nat /\ rows'[s] \in Nat
                         /\ day.left[s] \in Nat /\ q.brief.hash[s] \in Nat
  <2>1. DayTypes'
      BY TypesStep
  <2>2. rows' \in Seen
      BY <2>1 DEF DayTypes, TypeOK
  <2> QED BY <1>1, <2>2 DEF Seen
<1>3. /\ \A s \in Streams : rows'[s] >= rows[s]
      /\ day'.stage = 1 => day.stage = 1
      /\ \/ day'.left = day.left
         \/ /\ day.stage = 1
            /\ \A s \in Streams :
                  day'.left[s] = day.left[s] \/ day'.left[s] = rows'[s]
    BY RowsAndStagesGrow
<1>4. \A s \in Streams : day'.left[s] <= rows'[s]
    BY <1>2, <1>3 DEF ChildReadsAfterSync
<1>5. CASE request'[Child] = request[Child]
  <2>1. CASE day'.left = day.left
      BY <1>3, <1>4, <1>5, <2>1 DEF ChildReadsAfterSync
  <2>2. CASE day.stage = 1
      BY <1>3, <1>4, <1>5, <2>2 DEF ChildReadsAfterSync
  <2> QED BY <1>3, <2>1, <2>2
<1>6. ASSUME day.stage # 1, day'.left = day.left, request'[Child].pc # "idle",
             /\ request'[Child].pc \in {"idle", "changing", "starting",
                                        "reading"} =>
                   \A s \in Streams \ request'[Child].unread :
                      request'[Child].brief.hash[s] >= day.left[s]
             /\ request'[Child].pc \in {"clearing", "listing", "versioning",
                                        "saving", "done"} =>
                   \A s \in Streams :
                      request'[Child].brief.hash[s] >= day.left[s]
      PROVE  ChildReadsAfterSync'
    BY <1>3, <1>4, <1>6 DEF ChildReadsAfterSync
<1>7. CASE Generate(Child) /\ UNCHANGED <<day, log>>
  <2>1. q.pc # "idle" /\ day.stage # 1 /\ day'.left = day.left
      BY <1>7 DEF Generate, ChangePreferences, Begin, ReadStream, ReadClear,
          ListPreferences, ReadVersion, Save, Fail, At, ChildReadsAfterSync
  <2>2. /\ q.pc \in {"idle", "changing", "starting", "reading"} =>
              \A s \in Streams \ q.unread : q.brief.hash[s] >= day.left[s]
        /\ q.pc \in {"clearing", "listing", "versioning", "saving", "done"} =>
              \A s \in Streams : q.brief.hash[s] >= day.left[s]
      BY DEF ChildReadsAfterSync
  <2>3. CASE ReadStream(Child)
    <3>1. PICK s \in q.unread :
              /\ request'[Child].unread = q.unread \ {s}
              /\ request'[Child].brief.hash
                    = [q.brief.hash EXCEPT ![s] = rows[s]]
              /\ request'[Child].pc = IF q.unread = {s} THEN "clearing"
                                      ELSE "reading"
        BY <1>1, <2>3, ReadStreamIs
    <3>2. q.pc = "reading"
        BY <2>3 DEF ReadStream, At
    <3>3. \A u \in Streams \ (q.unread \ {s}) :
              request'[Child].brief.hash[u] >= day.left[u]
        BY <1>1, <1>2, <2>2, <3>1, <3>2 DEF Seen, ChildReadsAfterSync
    <3> QED BY <1>6, <2>1, <3>1, <3>3
  <2>4. CASE ChangePreferences(Child) \/ Begin(Child)
    <3>1. /\ q.pc \in {"changing", "starting"}
          /\ request'[Child].pc \in {"starting", "reading"}
          /\ request'[Child].unread = q.unread
          /\ request'[Child].brief = q.brief
        BY <1>1, <2>4 DEF ChangePreferences, Begin, At, TypeOK, Request
    <3> QED BY <1>6, <2>1, <2>2, <3>1
  <2>5. CASE ReadClear(Child) \/ ListPreferences(Child)
    <3>1. /\ q.pc \in {"clearing", "listing"}
          /\ request'[Child].pc \in {"listing", "versioning"}
          /\ request'[Child].brief = q.brief
        BY <1>1, <2>5 DEF ReadClear, ListPreferences, At, TypeOK, Request
    <3> QED BY <1>6, <2>1, <2>2, <3>1
  <2>6. CASE ReadVersion(Child)
    <3>1. /\ q.pc = "versioning" /\ request'[Child].pc = "saving"
          /\ request'[Child].brief.hash = q.brief.hash
        BY <1>1, <2>6 DEF ReadVersion, At, TypeOK, Request, Brief
    <3> QED BY <1>6, <2>1, <2>2, <3>1
  <2>7. CASE Save(Child)
    <3>1. /\ q.pc = "saving" /\ request'[Child].pc = "done"
          /\ request'[Child].brief = q.brief
        BY <1>1, <2>7 DEF Save, Ends, At, TypeOK, Fresh
    <3> QED BY <1>6, <2>1, <2>2, <3>1
  <2>8. CASE Fail(Child)
    <3>1. request'[Child].pc = "failed"
        BY <1>1, <2>8 DEF Fail, Ends, TypeOK, Fresh
    <3> QED BY <1>6, <2>1, <3>1
  <2> QED BY <1>7, <2>3, <2>4, <2>5, <2>6, <2>7, <2>8 DEF Generate
<1>8. CASE day.pc = "brief" /\ Arrive(Child, "refresh") /\ UNCHANGED day
  <2>1. day.stage # 1 /\ day'.left = day.left /\ q.pc = "idle"
      BY <1>8 DEF StagesInOrder, Arrive, At
  <2>2. /\ request'[Child].pc = "starting"
        /\ request'[Child].unread = q.unread
        /\ request'[Child].brief = q.brief
      BY <1>1, <1>8 DEF Arrive, TypeOK, Request
  <2> QED BY <1>6, <2>1, <2>2 DEF ChildReadsAfterSync
<1>9. CASE /\ day.pc = "brief"
           /\ request'[Child] = Ended(request[Child], "killed")
           /\ UNCHANGED rows /\ \E code \in Codes : StageGives(code)
  <2>1. request'[Child].pc = "killed"
      BY <1>9 DEF Ended, Fresh
  <2>2. day.stage # 1 /\ day'.left = day.left
      BY <1>3, <1>9 DEF StagesInOrder
  <2> QED BY <1>6, <2>1, <2>2
<1> QED BY <1>5, <1>7, <1>8, <1>9, ChildChanges

LEMMA DayKnowsInit ==
    ASSUME DayInit
    PROVE  DayKnows
<1>1. /\ day.pc = "idle" /\ day.stage = 1
      /\ day.left = [s \in Streams |-> 0]
      /\ day.code = [i \in 1..3 |-> NoCode]
      /\ rows = [s \in Streams |-> 0]
    BY StagesAre DEF DayInit, Init
<1>2. StagesInOrder
    BY <1>1 DEF StagesInOrder
<1>3. ZeroIsEarned
    BY <1>1 DEF ZeroIsEarned, NoCode
<1>4. ChildReadsAfterSync
  <2>1. request[Child].pc = "idle" /\ request[Child].unread = Streams
      BY DayAssumption DEF DayInit, Init, Fresh
  <2> QED BY <1>1, <2>1 DEF ChildReadsAfterSync
<1> QED BY <1>2, <1>3, <1>4 DEF DayKnows

LEMMA DayKnowsStep ==
    ASSUME DayTypes, DayKnows, [DayNext]_dayVars
    PROVE  DayKnows'
BY StagesStep, ChildStep DEF DayKnows

\* The exit code is that of the first stage that failed.
LEMMA ExitCodeIs ==
    ASSUME DayTypes, day.pc = "done"
    PROVE  \/ /\ ExitCode(day) = 0
              /\ \A i \in 1..3 : day.code[i] = 0
           \/ /\ ExitCode(day) # 0
              /\ \E i \in 1..3 : /\ day.code[i] = ExitCode(day)
                                 /\ \A j \in 1..(i - 1) : day.code[j] = 0
<1> DEFINE failed == {i \in 1..3 : day.code[i] # 0}
           first == CHOOSE i \in failed : \A j \in failed : i <= j
<1>1. failed = {i \in 1..Len(Stages) : day.code[i] # 0}
    BY StagesAre
<1>2. CASE failed = {}
  <2>1. ExitCode(day) = 0
      BY <1>1, <1>2 DEF ExitCode
  <2> QED BY <1>2, <2>1
<1>3. CASE failed # {}
  <2>1. ExitCode(day) = day.code[first]
      BY <1>1, <1>3 DEF ExitCode
  <2>2. \E i \in failed : \A j \in failed : i <= j
    <3>1. CASE 1 \in failed
        BY <3>1
    <3>2. CASE 1 \notin failed /\ 2 \in failed
        BY <3>2
    <3>3. CASE 1 \notin failed /\ 2 \notin failed
        BY <1>3, <3>3
    <3> QED BY <3>1, <3>2, <3>3
  <2>3. first \in failed /\ \A j \in failed : first <= j
    <3> HIDE DEF failed
    <3> QED BY <2>2
  <2> HIDE DEF first
  <2>4. \A j \in 1..(first - 1) : day.code[j] = 0
      BY <2>3
  <2> QED BY <2>1, <2>3, <2>4
<1> QED BY <1>2, <1>3

\* Zero tells that every stream was synchronised and the briefing made of
\* what that left or newer; any other exit code is in the log as that of
\* the first stage that failed, and every stage is there.
THEOREM ExitCodeIsTrue == DaySpec => []DayTellsTruth
<1>1. DayInit => DayTypes /\ DayKnows
    BY TypesInit, DayKnowsInit
<1>2. DayTypes /\ DayKnows /\ [DayNext]_dayVars => DayTypes' /\ DayKnows'
    BY TypesStep, DayKnowsStep
<1>3. DayTypes /\ DayKnows => DayTellsTruth
  <2> SUFFICES ASSUME DayTypes, DayKnows
               PROVE  DayTellsTruth
      OBVIOUS
  <2>1. day.pc = "aborted" => ExitCode(day) = 1
      BY DEF ExitCode
  <2>2. ASSUME day.pc = "done"
        PROVE  /\ \A i \in 1..Len(Stages) : log[i] # NoCode
               /\ ExitCode(day) = 0 =>
                     /\ day.synced = Streams
                     /\ \A s \in Streams :
                           request[Child].brief.hash[s] >= day.left[s]
               /\ ExitCode(day) # 0 =>
                     \E i \in 1..Len(Stages) :
                         /\ log[i] = ExitCode(day)
                         /\ \A j \in 1..(i - 1) : log[j] = 0
    <3>1. \A i \in 1..3 : day.code[i] # NoCode /\ log[i] = day.code[i]
        BY <2>2 DEF DayKnows, StagesInOrder
    <3>2. CASE /\ ExitCode(day) = 0
               /\ \A i \in 1..3 : day.code[i] = 0
      <4>1. day.synced = Streams /\ At(Child, "done")
          BY <3>2 DEF DayKnows, ZeroIsEarned
      <4>2. \A s \in Streams : request[Child].brief.hash[s] >= day.left[s]
          BY <4>1 DEF DayKnows, ChildReadsAfterSync, At
      <4> QED BY <3>1, <3>2, <4>1, <4>2, StagesAre
    <3>3. CASE /\ ExitCode(day) # 0
               /\ \E i \in 1..3 : /\ day.code[i] = ExitCode(day)
                                  /\ \A j \in 1..(i - 1) : day.code[j] = 0
      <4>1. PICK i \in 1..3 : /\ day.code[i] = ExitCode(day)
                              /\ \A j \in 1..(i - 1) : day.code[j] = 0
          BY <3>3
      <4>2. \A j \in 1..(i - 1) : log[j] = 0
          BY <3>1, <4>1
      <4> QED BY <3>1, <3>3, <4>1, <4>2, StagesAre
    <3> QED BY <2>2, <3>2, <3>3, ExitCodeIs
  <2> QED BY <2>1, <2>2 DEF DayTellsTruth
<1> QED BY <1>1, <1>2, <1>3, PTL DEF DaySpec
=============================================================================
