--------------------------- MODULE AssistantBrief ---------------------------
(***************************************************************************)
(* The assistant: generate_assistant_brief reads the personal rows stream  *)
(* by stream, the preferences and their version, each on a connection of   *)
(* its own, asks the model if there is one and keeps the briefing.         *)
(* Requests of the API and the daily briefing tool do so at the same time  *)
(* while preferences are added and cleared and streams are synchronised.   *)
(***************************************************************************)
EXTENDS Naturals, Sequences, FiniteSets, FiniteSetsExt

CONSTANTS
    Requests,
    Streams,
    Keep,             \* preferences that are kept (50 in the code)
    MaxPreferences,   \* bound: additions and clears
    MaxChanges        \* bound: changes of a stream

ASSUME AssistantAssumption ==
    /\ Keep \in Nat \ {0}
    /\ MaxPreferences \in Nat /\ MaxChanges \in Nat

VARIABLES
    rows,         \* how often the personal rows of a stream changed
    preferences,  \* assistant_preferences
    lastId,       \* its AUTOINCREMENT
    briefs,       \* assistant_briefs
    request

vars == <<rows, preferences, lastId, briefs, request>>

Seen == [Streams -> 0..MaxChanges]

\* A briefing names the candidates (snapshot_hash) and the version of the
\* preferences it was made of, which are its key on a business day; the runs
\* see one day, so none is past its retention.  What it says is left out: the
\* model orders and words the candidates, and whatever goes wrong with the
\* model the local order stands.
Brief == [hash : Seen, version : 0..MaxPreferences]

\* A row; a clear is a row too, one that is not active.
Preference == [id : 1..MaxPreferences, active : BOOLEAN]

Phases == {"idle", "changing", "starting", "reading", "clearing", "listing",
           "versioning", "saving", "done", "failed", "killed"}

\* own: the preference_id this request inserted.  brief: the briefing it
\* makes or answers with.  cleared, used: the newest clear it read and the
\* texts it ranks by, until it ends.
Request == [pc : Phases, kind : {"none", "get", "refresh", "add", "clear"},
            own : 0..MaxPreferences, brief : Brief,
            unread : SUBSET Streams, cleared : 0..MaxPreferences,
            used : SUBSET (1..MaxPreferences)]

Blank == [hash |-> [s \in Streams |-> 0], version |-> 0]

Fresh == [pc |-> "idle", kind |-> "none", own |-> 0,
          brief |-> Blank, unread |-> Streams, cleared |-> 0, used |-> {}]

Init ==
    /\ rows = [s \in Streams |-> 0]
    /\ preferences = {} /\ lastId = 0
    /\ briefs = {}
    /\ request = [r \in Requests |-> Fresh]

At(r, phase) == request[r].pc = phase
\* Only the briefing of a request that is done is looked at again.
Ends(r, phase) ==
    request' = [request EXCEPT ![r] = [Fresh EXCEPT
        !.pc = phase,
        !.brief = IF phase = "done" THEN request[r].brief ELSE @]]

store == <<rows, preferences, lastId, briefs>>

-----------------------------------------------------------------------------
(***************************************************************************)
(* Preferences                                                             *)
(***************************************************************************)

Newer(p, rs) == {q \in rs : q.id > p.id}

\* Mutant: texts alone are kept, and the clear that hid them goes.
NewestTexts(rs) ==
    LET texts == {p \in rs : p.active} IN
    IF Cardinality(rs) <= Keep THEN rs
    ELSE {p \in texts : Cardinality(Newer(p, texts)) < Keep}

\* _prune_assistant_preferences: the Keep newest rows, clears among them.
Pruned(rs) == {p \in rs : Cardinality(Newer(p, rs)) < Keep}

\* COALESCE(MAX(preference_id), 0)
MaxId(rs) == Max({0} \cup {p.id : p \in rs})

\* list_assistant_preferences: the newest clear, and the texts after one,
\* which are listed by their ids.
ClearedTo == MaxId({p \in preferences : ~p.active})

ListedAfter(cleared) ==
    {p.id : p \in {q \in preferences : q.active /\ q.id > cleared}}

Listed == ListedAfter(ClearedTo)

\* Mutant: preferences are counted.
CountedVersion == Cardinality(preferences)

\* assistant_preference_version: the newest id there is, a clear's too.
Version == MaxId(preferences)

\* add_assistant_preference and clear_assistant_preferences, one transaction.
Insert(active) ==
    /\ lastId < MaxPreferences
    /\ lastId' = lastId + 1
    /\ preferences' =
          Pruned(preferences \cup {[id |-> lastId + 1, active |-> active]})

ChangePreferences(r) ==
    /\ At(r, "changing")
    /\ Insert(request[r].kind = "add")
    /\ request' = [request EXCEPT ![r].pc = "starting", ![r].own = lastId + 1]
    /\ UNCHANGED <<rows, briefs>>

\* A request that changes them and fails before it generates anything.
ChangeOnly(active) ==
    /\ Insert(active)
    /\ UNCHANGED <<rows, briefs, request>>

-----------------------------------------------------------------------------
(***************************************************************************)
(* Requests                                                                *)
(***************************************************************************)

\* POST and DELETE; the tool's process refreshes.
Arrive(r, kind) ==
    /\ At(r, "idle")
    /\ request' = [request EXCEPT ![r].kind = kind,
           ![r].pc = IF kind = "refresh" THEN "starting" ELSE "changing"]
    /\ UNCHANGED store

\* GET: the newest briefing; when there is none one is generated without a model.
Get(r) ==
    /\ At(r, "idle")
    /\ request' = [request EXCEPT ![r].kind = "get",
           ![r].pc = IF briefs = {} THEN "starting" ELSE "done"]
    /\ UNCHANGED store

Begin(r) ==
    /\ At(r, "starting")
    /\ request' = [request EXCEPT ![r].pc = "reading"]
    /\ UNCHANGED store

ReadStream(r) ==
    /\ At(r, "reading")
    /\ \E s \in request[r].unread :
          request' = [request EXCEPT
              ![r].brief.hash[s] = rows[s],
              ![r].unread = @ \ {s},
              ![r].pc = IF request[r].unread = {s} THEN "clearing" ELSE @]
    /\ UNCHANGED store

\* The two queries of list_assistant_preferences are no transaction.
ReadClear(r) ==
    /\ At(r, "clearing")
    /\ request' = [request EXCEPT ![r].pc = "listing",
                                  ![r].cleared = ClearedTo]
    /\ UNCHANGED store

ListPreferences(r) ==
    /\ At(r, "listing")
    /\ request' = [request EXCEPT ![r].pc = "versioning",
                                  ![r].used = ListedAfter(request[r].cleared)]
    /\ UNCHANGED store

ReadVersion(r) ==
    /\ At(r, "versioning")
    /\ request' = [request EXCEPT ![r].pc = "saving",
                                  ![r].brief.version = Version]
    /\ UNCHANGED store

\* save_assistant_brief: over the briefing of the same key.
Save(r) ==
    /\ At(r, "saving")
    /\ briefs' = briefs \cup {request[r].brief}
    /\ Ends(r, "done")
    /\ UNCHANGED <<rows, preferences, lastId>>

\* The database or a cached row fails.
Fail(r) ==
    /\ request[r].pc \notin {"idle", "done", "failed", "killed"}
    /\ Ends(r, "failed")
    /\ UNCHANGED store

Generate(r) ==
    \/ ChangePreferences(r) \/ Begin(r) \/ ReadStream(r) \/ ReadClear(r)
    \/ ListPreferences(r) \/ ReadVersion(r) \/ Save(r) \/ Fail(r)

\* A synchronisation commits a stream.
Commit(s) ==
    /\ rows[s] < MaxChanges
    /\ rows' = [rows EXCEPT ![s] = @ + 1]

-----------------------------------------------------------------------------
(***************************************************************************)
(* Properties                                                              *)
(***************************************************************************)

\* Variables hold values of their types.
TypeOK ==
    /\ rows \in Seen
    /\ preferences \subseteq Preference
    /\ lastId \in 0..MaxPreferences
    /\ briefs \subseteq Brief
    /\ request \in [Requests -> Request]

\* Adding, clearing and pruning keep the promise of a list: pruning never
\* brings back what was cleared before.
List == INSTANCE PreferenceList
            WITH list <- Listed, Keep <- Keep, Ids <- 1..MaxPreferences
PreferencesAreAList == List!Spec

\* A briefing, whoever asked for it, is never filed under preferences older
\* than those it was ranked by, and a request that changed them is answered
\* with a briefing that knows the change: an added text, unless the newest
\* clear it read came after the text or Keep later rows had pushed the text
\* out, and after a clear nothing from before it.
BriefsKnowTheirPreferences ==
    \A r \in Requests :
        LET q == request[r] IN
        q.pc = "saving"
           => /\ \A i \in q.used : i <= q.brief.version
              /\ q.own <= q.brief.version
              /\ q.kind = "clear" => \A i \in q.used : i > q.own
              /\ q.kind = "add" /\ q.own \notin q.used
                    => q.cleared > q.own \/ lastId >= q.own + Keep
=============================================================================
