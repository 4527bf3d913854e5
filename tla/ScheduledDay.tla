---------------------------- MODULE ScheduledDay ----------------------------
(***************************************************************************)
(* run_scheduled_day beside the API: the sync child, the briefing child    *)
(* and the page, each with a time limit, one after another whatever became *)
(* of those before; each stage is logged and the first failure is the exit *)
(* code.                                                                   *)
(***************************************************************************)
EXTENDS AssistantBrief

CONSTANTS Child     \* the briefing child among the requests

ASSUME DayAssumption == Child \in Requests

VARIABLES
    day,          \* run_scheduled_day
    log           \* the last record of each stage in scheduled-sync.log

dayVars == <<vars, day, log>>

Stages == <<"sync", "brief", "open">>

\* 124 is a timeout; a stage that has not run has no code yet.
Codes == {0, 1, 124}
NoCode == 255

\* synced: the streams the sync child committed.  left: the rows it left.
Day == [pc : {"idle", "sync", "identity", "brief", "open", "logging",
              "relogging", "done", "aborted"},
        stage : 1..Len(Stages), code : [1..Len(Stages) -> Codes \cup {NoCode}],
        synced : SUBSET Streams, left : Seen]

DayInit ==
    /\ Init
    /\ day = [pc |-> "idle", stage |-> 1,
              code |-> [i \in 1..Len(Stages) |-> NoCode],
              synced |-> {}, left |-> [s \in Streams |-> 0]]
    /\ log = [i \in 1..Len(Stages) |-> NoCode]

\* ScheduledDayResult.exit_code; an exception makes the tool return 1.
ExitCode(d) ==
    LET failed == {i \in 1..Len(Stages) : d.code[i] # 0} IN
    IF d.pc = "aborted" THEN 1
    ELSE IF failed = {} THEN 0
    ELSE d.code[CHOOSE i \in failed : \A j \in failed : i <= j]

Wake ==
    /\ day.pc = "idle"
    /\ day' = [day EXCEPT !.pc = "sync"]
    /\ UNCHANGED <<vars, log>>

\* A stage ends with a code, which is to be logged.
StageGives(code) ==
    day' = [day EXCEPT !.pc = "logging", !.code[day.stage] = code]

SyncStream ==
    /\ day.pc = "sync"
    /\ \E s \in Streams \ day.synced :
          /\ Commit(s)
          /\ day' = [day EXCEPT !.synced = @ \cup {s}, !.left[s] = rows[s] + 1]
    /\ UNCHANGED <<preferences, lastId, briefs, request, log>>

\* The child's summary says succeeded for all streams.
SyncSucceeds ==
    /\ day.pc = "sync" /\ day.synced = Streams
    /\ StageGives(0)
    /\ UNCHANGED <<vars, log>>

\* The Keychain, the child or its summary fails, or the child is killed at
\* its time limit; what it had committed stays.
SyncFails ==
    /\ day.pc = "sync"
    /\ \E code \in {1, 124} : StageGives(code)
    /\ UNCHANGED <<vars, log>>

\* The user name is read again for the briefing child; this failure is
\* recorded once.
Identify ==
    /\ day.pc = "identity"
    /\ \/ day' = [day EXCEPT !.pc = "brief"]
       \/ day' = [day EXCEPT !.pc = "relogging"]
    /\ UNCHANGED <<vars, log>>

StartBrief ==
    /\ day.pc = "brief"
    /\ Arrive(Child, "refresh")
    /\ UNCHANGED <<day, log>>

EndBrief ==
    /\ day.pc = "brief"
    /\ \/ At(Child, "done") /\ StageGives(0)
       \/ At(Child, "failed") /\ StageGives(1)
    /\ UNCHANGED <<vars, log>>

\* The briefing child is killed at its time limit, or is not found.
StopBrief ==
    /\ day.pc = "brief"
    /\ \/ At(Child, "idle") /\ StageGives(1)
       \/ request[Child].pc \notin {"idle", "done", "failed"} /\ StageGives(124)
    /\ Ends(Child, "killed")
    /\ UNCHANGED <<store, log>>

OpenPage ==
    /\ day.pc = "open"
    /\ \E code \in Codes : StageGives(code)
    /\ UNCHANGED <<vars, log>>

\* Mutant: a failure ends the day.
NextUnlessFailed(stage) ==
    IF day.code[stage] # 0 THEN "done"
    ELSE <<"identity", "open", "done">>[stage]

NextStage(stage) == <<"identity", "open", "done">>[stage]

Recorded(code) == [log EXCEPT ![day.stage] = code]

StageEnds(code) ==
    day' = [day EXCEPT
        !.pc = NextStage(day.stage), !.code[day.stage] = code,
        !.stage = IF day.stage < Len(Stages) THEN @ + 1 ELSE @]

\* append_private_log of the stage's record.  It can fail before or after
\* the line is written, which is a failure of the stage.
Log ==
    /\ day.pc = "logging"
    /\ \/ log' = Recorded(day.code[day.stage]) /\ StageEnds(day.code[day.stage])
       \/ /\ log' \in {log, Recorded(day.code[day.stage])}
          /\ day' = [day EXCEPT !.pc = "relogging"]
    /\ UNCHANGED vars

\* _record_failure of the stage; when it fails too the exception leaves
\* run_scheduled_day.
LogFailure ==
    /\ day.pc = "relogging"
    /\ \/ log' = Recorded(1) /\ StageEnds(1)
       \/ /\ log' \in {log, Recorded(1)}
          /\ day' = [day EXCEPT !.pc = "aborted"]
    /\ UNCHANGED vars

DayStep ==
    \/ Wake \/ SyncStream \/ SyncSucceeds \/ SyncFails \/ Identify
    \/ StartBrief \/ EndBrief \/ StopBrief \/ OpenPage \/ Log \/ LogFailure

\* The API's requests, and a synchronisation asked for on the page.
Elsewhere ==
    \/ \E r \in Requests \ {Child} :
          Get(r) \/ \E kind \in {"refresh", "add", "clear"} : Arrive(r, kind)
    \/ \E r \in Requests : Generate(r)
    \/ \E active \in BOOLEAN : ChangeOnly(active)
    \/ \E s \in Streams :
          Commit(s)
          /\ UNCHANGED <<preferences, lastId, briefs, request>>

DayNext == DayStep \/ (Elsewhere /\ UNCHANGED <<day, log>>)

DaySpec == DayInit /\ [][DayNext]_dayVars

-----------------------------------------------------------------------------
(***************************************************************************)
(* Properties                                                              *)
(***************************************************************************)

\* The exit code and the log tell how the day went.  Zero: every stream was
\* synchronised and the briefing was made of rows not older than those.
\* Otherwise the code is that of the first stage whose last
\* record in the log says that it failed, and the stages after it ran all
\* the same: only a log that cannot be written ends the day early.
DayTellsTruth ==
    /\ day.pc = "done" =>
          /\ \A i \in 1..Len(Stages) : log[i] # NoCode
          /\ ExitCode(day) = 0 =>
                /\ day.synced = Streams
                /\ \A s \in Streams :
                      request[Child].brief.hash[s] >= day.left[s]
          /\ ExitCode(day) # 0 =>
                \E i \in 1..Len(Stages) :
                    log[i] = ExitCode(day) /\ \A j \in 1..(i - 1) : log[j] = 0
    /\ day.pc = "aborted" => ExitCode(day) = 1
=============================================================================
