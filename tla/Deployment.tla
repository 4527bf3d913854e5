----------------------------- MODULE Deployment -----------------------------
(***************************************************************************)
(* The two LaunchAgent installers.  Each deploys the release of the        *)
(* sources it finds and seeds the private data, both shared, then replaces *)
(* the plist of its own agent and the service launchd has loaded from it,  *)
(* and rolls back when that fails.  launchctl may fail or run out of time, *)
(* having done its work or not.                                            *)
(***************************************************************************)
EXTENDS Naturals

CONSTANTS
    Agents,
    WebAgents,   \* those whose installer waits for the port to be free
    MaxSource,   \* bound: versions of the sources
    MaxRuns,     \* bound: runs of an agent's installer
    None

ASSUME DeploymentAssumption ==
    /\ WebAgents \subseteq Agents
    /\ MaxSource \in Nat \ {0} /\ MaxRuns \in Nat \ {0}
    /\ None \notin 1..MaxSource

VARIABLES
    source,      \* version of the source tree
    releases,    \* the release directories, named by runtime_release_id
    data,        \* the data directory: absent, seeded, or written to since
    plist,       \* the release an agent's plist names, or None
    backup,      \* plist.backup
    loaded,      \* the release of the service launchd has loaded, or None
    installer

vars == <<source, releases, data, plist, backup, loaded, installer>>

Versions == 1..MaxSource
MaybeVersion == Versions \cup {None}

Ended == {"idle", "installed", "written", "removed", "failed", "restored",
          "unrestored", "killed"}

Phases == Ended \cup
    {"deploying", "copying", "building", "placing", "smoking", "seeding",
     "seeded", "printing", "writing", "linting", "stopping", "releasing",
     "starting", "confirming", "undoing", "restoring", "reviving",
     "unloading", "unlinking"}

\* id: the release main rendered the plist for.  root: the one that
\* deploy_runtime_release found.
Installer == [pc : Phases, runs : 0..MaxRuns, id : MaybeVersion,
              root : MaybeVersion, wasLoaded : BOOLEAN,
              previous : MaybeVersion, stopped : BOOLEAN]

Fresh == [pc |-> "idle", runs |-> 0, id |-> None, root |-> None,
          wasLoaded |-> FALSE, previous |-> None, stopped |-> FALSE]

Init ==
    /\ source = 1 /\ releases = {} /\ data = "absent"
    /\ plist = [a \in Agents |-> None]
    /\ backup = [a \in Agents |-> None]
    /\ loaded = [a \in Agents |-> None]
    /\ installer = [a \in Agents |-> Fresh]

At(a, phase) == installer[a].pc = phase
Goes(a, phase) == installer' = [installer EXCEPT ![a].pc = phase]

files == <<releases, data, plist, backup>>

-----------------------------------------------------------------------------
(***************************************************************************)
(* The release and the data                                                *)
(***************************************************************************)

\* main: the plist is rendered for the release of the sources as they are.
Start(a) ==
    /\ installer[a].pc \in Ended /\ installer[a].runs < MaxRuns
    /\ \E phase \in {"deploying", "unloading"} :
          installer' = [installer EXCEPT
              ![a] = [Fresh EXCEPT !.pc = phase, !.id = source,
                                   !.runs = installer[a].runs + 1]]
    /\ UNCHANGED <<source, files, loaded>>

\* The sources are read again; a release that is there is only tried.
FindRelease(a) ==
    /\ At(a, "deploying")
    /\ installer' = [installer EXCEPT
           ![a].root = source,
           ![a].pc = IF source \in releases THEN "smoking" ELSE "copying"]
    /\ UNCHANGED <<source, files, loaded>>

\* Sources are copied to a private directory, uv builds and python imports.
BuildRelease(a) ==
    /\ At(a, "copying")
    /\ Goes(a, "placing")
    /\ UNCHANGED <<source, files, loaded>>

\* os.replace fails when another installer was faster.
PlaceRelease(a) ==
    /\ At(a, "placing")
    /\ IF installer[a].root \in releases
       THEN Goes(a, "failed") /\ UNCHANGED releases
       ELSE /\ releases' = releases \cup {installer[a].root}
            /\ Goes(a, "smoking")
    /\ UNCHANGED <<source, data, plist, backup, loaded>>

Smoke(a) ==
    /\ At(a, "smoking")
    /\ Goes(a, "seeding")
    /\ UNCHANGED <<source, files, loaded>>

\* seed_runtime_data: data that is there is only validated.
CopyData(a) ==
    /\ At(a, "seeding")
    /\ Goes(a, IF data = "absent" THEN "seeded" ELSE "printing")
    /\ UNCHANGED <<source, files, loaded>>

\* Mutant: the copy takes the place of what is there.
PlaceDataOver(a) ==
    /\ At(a, "seeded")
    /\ data' = "seed" /\ Goes(a, "printing")
    /\ UNCHANGED <<source, releases, plist, backup, loaded>>

\* os.replace fails on a directory that holds something.
PlaceData(a) ==
    /\ At(a, "seeded")
    /\ IF data = "absent"
       THEN data' = "seed" /\ Goes(a, "printing")
       ELSE Goes(a, "failed") /\ UNCHANGED data
    /\ UNCHANGED <<source, releases, plist, backup, loaded>>

-----------------------------------------------------------------------------
(***************************************************************************)
(* install_agent and install_web_agent                                     *)
(***************************************************************************)

\* --no-bootstrap
WriteOnly(a) ==
    /\ At(a, "printing")
    /\ plist' = [plist EXCEPT ![a] = installer[a].id]
    /\ Goes(a, "written")
    /\ UNCHANGED <<source, releases, data, backup, loaded>>

\* launchctl print, and the backup of the plist that is there.
BackUp(a) ==
    /\ At(a, "printing")
    /\ installer' = [installer EXCEPT
           ![a].pc = "writing", ![a].wasLoaded = loaded[a] # None,
           ![a].previous = plist[a]]
    /\ backup' = [backup EXCEPT ![a] = IF plist[a] = None THEN @ ELSE plist[a]]
    /\ UNCHANGED <<source, releases, data, plist, loaded>>

WritePlist(a) ==
    /\ At(a, "writing")
    /\ plist' = [plist EXCEPT ![a] = installer[a].id]
    /\ Goes(a, "linting")
    /\ UNCHANGED <<source, releases, data, backup, loaded>>

Lint(a) ==
    /\ At(a, "linting")
    /\ Goes(a, IF installer[a].wasLoaded THEN "stopping" ELSE "starting")
    /\ UNCHANGED <<source, files, loaded>>

StopOld(a) ==
    /\ At(a, "stopping") /\ loaded[a] # None
    /\ loaded' = [loaded EXCEPT ![a] = None]
    /\ installer' = [installer EXCEPT ![a].stopped = TRUE,
           ![a].pc = IF a \in WebAgents THEN "releasing" ELSE "starting"]
    /\ UNCHANGED <<source, files>>

PortReleased(a) ==
    /\ At(a, "releasing")
    /\ Goes(a, "starting")
    /\ UNCHANGED <<source, files, loaded>>

\* Mutant: a service that is loaded already will do.
BootstrapTolerant(a) ==
    /\ loaded' = [loaded EXCEPT ![a] = IF @ = None THEN plist[a] ELSE @]
    /\ Goes(a, IF At(a, "starting") THEN "confirming" ELSE "restored")

\* _bootstrap_agent, the attempt that succeeds: launchd loads the plist
\* unless the label is loaded already.
Bootstrap(a) ==
    /\ loaded[a] = None
    /\ loaded' = [loaded EXCEPT ![a] = plist[a]]
    /\ Goes(a, IF At(a, "starting") THEN "confirming" ELSE "restored")

StartNew(a) ==
    /\ installer[a].pc \in {"starting", "reviving"}
    /\ Bootstrap(a)
    /\ UNCHANGED <<source, files>>

\* An attempt runs out of its two seconds, and launchd loads all the same;
\* other attempts follow until the deadline.
SlowBootstrap(a) ==
    /\ installer[a].pc \in {"starting", "reviving"} /\ loaded[a] = None
    /\ loaded' = [loaded EXCEPT ![a] = plist[a]]
    /\ UNCHANGED <<source, files, installer>>

\* enable, print, and of the web agent that it runs and answers.
Confirm(a) ==
    /\ At(a, "confirming") /\ loaded[a] # None
    /\ Goes(a, "installed")
    /\ UNCHANGED <<source, files, loaded>>

\* A bootout that ran out of time and stopped the service all the same.
TimedOut(a, phase) ==
    IF At(a, phase) THEN {[loaded EXCEPT ![a] = None]} ELSE {}

\* A step of the installation fails.  Before the plist is written nothing is
\* to be undone; what was asked of launchd and timed out may have happened.
StepFails(a) ==
    \/ /\ installer[a].pc \in {"deploying", "copying", "placing", "smoking",
                               "seeding", "seeded", "printing", "unloading",
                               "unlinking"}
       /\ Goes(a, "failed")
       /\ loaded' \in {loaded} \cup TimedOut(a, "unloading")
       /\ UNCHANGED <<source, files>>
    \/ /\ installer[a].pc \in {"writing", "linting", "stopping", "releasing"}
       /\ Goes(a, "restoring")
       /\ loaded' \in {loaded} \cup TimedOut(a, "stopping")
       /\ UNCHANGED <<source, files>>
    \/ /\ installer[a].pc \in {"starting", "confirming"}
       /\ Goes(a, "undoing")
       /\ UNCHANGED <<source, files, loaded>>

\* The bootout of a new service that failed, whose own failure is ignored.
Undo(a) ==
    /\ At(a, "undoing")
    /\ loaded' \in {loaded, [loaded EXCEPT ![a] = None]}
    /\ Goes(a, "restoring")
    /\ UNCHANGED <<source, files>>

Restore(a) ==
    /\ At(a, "restoring")
    /\ \/ /\ plist' = [plist EXCEPT ![a] = installer[a].previous]
          /\ Goes(a, IF installer[a].previous # None /\ installer[a].stopped
                     THEN "reviving" ELSE "restored")
       \/ Goes(a, "failed") /\ UNCHANGED plist
    /\ UNCHANGED <<source, releases, data, backup, loaded>>

ReviveFails(a) ==
    /\ At(a, "reviving")
    /\ Goes(a, "unrestored")
    /\ UNCHANGED <<source, files, loaded>>

-----------------------------------------------------------------------------
(***************************************************************************)
(* uninstall_agent, and everything else                                    *)
(***************************************************************************)

Unload(a) ==
    /\ At(a, "unloading")
    /\ loaded' = [loaded EXCEPT ![a] = None]
    /\ Goes(a, "unlinking")
    /\ UNCHANGED <<source, files>>

Unlink(a) ==
    /\ At(a, "unlinking")
    /\ plist' = [plist EXCEPT ![a] = None]
    /\ Goes(a, "removed")
    /\ UNCHANGED <<source, releases, data, backup, loaded>>

\* Ctrl-C is no Exception: nothing is rolled back.
Interrupt(a) ==
    /\ installer[a].pc \notin Ended
    /\ Goes(a, "killed")
    /\ UNCHANGED <<source, files, loaded>>

Edit ==
    /\ source < MaxSource
    /\ source' = source + 1
    /\ UNCHANGED <<files, loaded, installer>>

\* A loaded service writes to the data.
Serve ==
    /\ data = "seed" /\ \E a \in Agents : loaded[a] # None
    /\ data' = "live"
    /\ UNCHANGED <<source, releases, plist, backup, loaded, installer>>

Install(a) ==
    \/ Start(a) \/ FindRelease(a) \/ BuildRelease(a) \/ PlaceRelease(a)
    \/ Smoke(a) \/ CopyData(a) \/ PlaceData(a)
    \/ WriteOnly(a) \/ BackUp(a) \/ WritePlist(a) \/ Lint(a) \/ StopOld(a)
    \/ PortReleased(a) \/ StartNew(a) \/ SlowBootstrap(a) \/ Confirm(a)
    \/ StepFails(a) \/ Undo(a) \/ Restore(a) \/ ReviveFails(a)
    \/ Unload(a) \/ Unlink(a) \/ Interrupt(a)

Next == (\E a \in Agents : Install(a)) \/ Edit \/ Serve

Spec == Init /\ [][Next]_vars

-----------------------------------------------------------------------------
(***************************************************************************)
(* Properties                                                              *)
(***************************************************************************)

\* Variables hold values of their types.
TypeOK ==
    /\ source \in Versions /\ releases \subseteq MaybeVersion
    /\ data \in {"absent", "seed", "live"}
    /\ plist \in [Agents -> MaybeVersion]
    /\ backup \in [Agents -> MaybeVersion]
    /\ loaded \in [Agents -> MaybeVersion]
    /\ installer \in [Agents -> Installer]

\* What an installer says when it ends.  Installed: launchd has loaded the
\* plist that main rendered.  Restored: the plist is the old one, and a
\* service whose bootout returned (stopped) is loaded from it again, though
\* the bootout of the new one failed or a bootstrap came late.  A bootout
\* that ran out of time, and a service that had no plist, are left out: then
\* the old service may be gone, as PreviousStateRestored shows.  Rollback
\* failed: the plist is the old one all the same.
InstallerIsHonest ==
    \A a \in Agents :
        /\ At(a, "installed") =>
              plist[a] = installer[a].id /\ loaded[a] = plist[a]
        /\ At(a, "restored") =>
              /\ plist[a] = installer[a].previous
              /\ installer[a].stopped /\ plist[a] # None
                    => loaded[a] = plist[a]
        /\ At(a, "unrestored") => plist[a] = installer[a].previous

\* "previous state was restored": the plist is the old one, and a service
\* that was loaded before is loaded.
PreviousStateRestored ==
    \A a \in Agents :
        At(a, "restored") =>
            /\ plist[a] = installer[a].previous
            /\ installer[a].wasLoaded => loaded[a] # None

\* Data that a service has written to is not replaced by the seed, though
\* two installers seed it at the same time.
LiveDataIsKept == [][data = "live" => data' = "live"]_vars
=============================================================================
