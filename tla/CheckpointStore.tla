-------------------------- MODULE CheckpointStore --------------------------
(***************************************************************************)
(* What one synchronised stream promises: a run is begun and then, at one  *)
(* instant, either fails and changes nothing or replaces the current rows  *)
(* by its measurement, merged with the rows it replaces and told as events *)
(* relative to them; rows of a later measurement are never replaced.       *)
(***************************************************************************)
EXTENDS SnapshotRules

CONSTANTS Listings, MaxClock

VARIABLES
    runs,     \* sync_runs
    current,  \* workflow_current
    history,  \* workflow_snapshots
    log       \* workflow_events, the set of each commit, oldest first

storeVars == <<runs, current, history, log>>

Init ==
    /\ runs = [r \in Runs |-> RunStatus("none")]
    /\ current = NoDocs
    /\ history = {}
    /\ log = <<>>

Begin(r) ==
    /\ runs[r].status = "none"
    /\ runs' = [runs EXCEPT ![r] = RunStatus("running")]
    /\ UNCHANGED <<current, history, log>>

Fail(r) ==
    /\ runs[r].status = "running"
    /\ runs' = [runs EXCEPT ![r] = RunStatus("failed")]
    /\ UNCHANGED <<current, history, log>>

Checkpoint(r, listing, t) ==
    LET m    == Merge(listing, current)
        told == EventsOf(r, m, current)
        new  == {s \in SnapshotsOf(r, m, t) :
                    \A old \in history :
                        <<old.doc, old.observed>> # <<s.doc, t>>}
    IN
    /\ runs[r].status = "running"
    /\ \A d \in Present(current) : current[d].seen <= t
    /\ current' = Replaced(r, m, t, current)
    /\ history' = history \cup new
    /\ log' = Append(log, told)
    /\ runs' = [runs EXCEPT ![r] = Completed(t, m, new, told)]

Next ==
    \E r \in Runs :
        \/ Begin(r)
        \/ Fail(r)
        \/ \E listing \in Listings, t \in 0..MaxClock : Checkpoint(r, listing, t)

Spec == Init /\ [][Next]_storeVars
=============================================================================
