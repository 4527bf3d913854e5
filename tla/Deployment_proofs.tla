-------------------------- MODULE Deployment_proofs --------------------------
(***************************************************************************)
(* What an installer says when it ends is true, and live data is kept, for *)
(* any agents, versions of the sources and number of runs.                 *)
(***************************************************************************)
EXTENDS Deployment, TLAPS

\* What is on disk and in launchd while the installer is still at work: the
\* plist main rendered until launchd has loaded it, the old one when that is
\* loaded again.
OnTheWay ==
    \A a \in Agents :
        /\ installer[a].pc \in {"linting", "stopping", "releasing",
                                "starting", "confirming"}
              => plist[a] = installer[a].id
        /\ At(a, "confirming") => loaded[a] = plist[a]
        /\ At(a, "reviving") => plist[a] = installer[a].previous

\* InstallerIsHonest depends on how the installer got there.
IInv == TypeOK /\ OnTheWay /\ InstallerIsHonest

\* An installer's record keeps its type when fields are assigned.
LEMMA BackUpTyped ==
    ASSUME TypeOK, NEW a \in Agents, NEW w \in BOOLEAN,
           NEW p \in MaybeVersion
    PROVE  [installer EXCEPT ![a].pc = "writing", ![a].wasLoaded = w,
                             ![a].previous = p] \in [Agents -> Installer]
<1>1. installer[a] \in Installer /\ "writing" \in Phases
  BY DEF TypeOK, Phases
<1>2. [installer[a] EXCEPT !.pc = "writing", !.wasLoaded = w, !.previous = p]
          \in Installer
  BY <1>1 DEF Installer
<1> QED BY <1>2 DEF TypeOK

LEMMA StoppedTyped ==
    ASSUME TypeOK, NEW a \in Agents
    PROVE  [installer EXCEPT ![a].stopped = TRUE,
                ![a].pc = IF a \in WebAgents THEN "releasing" ELSE "starting"]
               \in [Agents -> Installer]
<1> DEFINE phase == IF a \in WebAgents THEN "releasing" ELSE "starting"
<1>1. installer[a] \in Installer /\ phase \in Phases
  BY DEF TypeOK, Phases
<1> HIDE DEF phase
<1>2. [installer[a] EXCEPT !.stopped = TRUE, !.pc = phase] \in Installer
  BY <1>1 DEF Installer
<1>3. [installer EXCEPT ![a].stopped = TRUE, ![a].pc = phase]
          = [installer EXCEPT ![a] = [installer[a] EXCEPT !.stopped = TRUE,
                                                          !.pc = phase]]
  BY <1>1 DEF TypeOK, Installer
<1> QED BY <1>2, <1>3 DEF TypeOK, phase

\* The steps of an agent's installer keep the types.
LEMMA InstallTyped ==
    ASSUME TypeOK, NEW a \in Agents, Install(a)
    PROVE  TypeOK'
<1> USE DeploymentAssumption
<1>1. CASE Start(a)
  <2>1. installer' \in [Agents -> Installer]
    <3> PICK phase \in {"deploying", "unloading"} :
            installer' = [installer EXCEPT
              ![a] = [Fresh EXCEPT !.pc = phase, !.id = source,
                                   !.runs = installer[a].runs + 1]]
      BY <1>1 DEF Start
    <3>1. [Fresh EXCEPT !.pc = phase, !.id = source,
                        !.runs = installer[a].runs + 1] \in Installer
      <4>1. installer[a].runs \in 0..MaxRuns /\ installer[a].runs < MaxRuns
        BY <1>1 DEF Start, TypeOK, Installer
      <4>2. installer[a].runs + 1 \in 0..MaxRuns
        BY <4>1
      <4>3. source \in MaybeVersion /\ None \in MaybeVersion /\ phase \in Phases
        BY DEF TypeOK, MaybeVersion, Phases
      <4> QED BY <4>2, <4>3 DEF Fresh, Installer
    <3> QED BY <3>1 DEF TypeOK
  <2> QED BY <1>1, <2>1 DEF Start, TypeOK, files
<1>2. CASE FindRelease(a)
  BY <1>2 DEF FindRelease, At, TypeOK, Installer, Phases, MaybeVersion, files
<1>3. CASE BuildRelease(a) \/ Smoke(a) \/ CopyData(a) \/ Lint(a)
           \/ PortReleased(a) \/ Confirm(a) \/ ReviveFails(a) \/ Interrupt(a)
  BY <1>3 DEF BuildRelease, Smoke, CopyData, Lint, PortReleased, Confirm,
              ReviveFails, Interrupt, Goes, TypeOK, Installer, Phases, Ended,
              files
<1>4. CASE PlaceRelease(a)
  BY <1>4 DEF PlaceRelease, Goes, TypeOK, Installer, Phases, Ended
<1>5. CASE PlaceData(a)
  BY <1>5 DEF PlaceData, Goes, TypeOK, Installer, Phases, Ended
<1>6. CASE WriteOnly(a) \/ WritePlist(a) \/ Restore(a) \/ Unlink(a)
  BY <1>6 DEF WriteOnly, WritePlist, Restore, Unlink, Goes, TypeOK, Installer,
              Phases, Ended, MaybeVersion
<1>7. CASE BackUp(a)
  <2>1. plist[a] \in MaybeVersion /\ (loaded[a] # None) \in BOOLEAN
    BY DEF TypeOK
  <2>2. backup' \in [Agents -> MaybeVersion]
    BY <1>7, <2>1 DEF BackUp, TypeOK
  <2>3. installer' \in [Agents -> Installer]
    <3> DEFINE w == loaded[a] # None
    <3>1. installer' = [installer EXCEPT ![a].pc = "writing",
                            ![a].wasLoaded = w, ![a].previous = plist[a]]
      BY <1>7 DEF BackUp
    <3>2. w \in BOOLEAN
      OBVIOUS
    <3> HIDE DEF w
    <3> QED BY <2>1, <3>1, <3>2, BackUpTyped
  <2> QED BY <1>7, <2>2, <2>3 DEF BackUp, TypeOK
<1>8. CASE StopOld(a) \/ Undo(a) \/ Unload(a) \/ StepFails(a)
  <2>1. [loaded EXCEPT ![a] = None] \in [Agents -> MaybeVersion]
    BY DEF TypeOK, MaybeVersion
  <2>2. loaded' \in [Agents -> MaybeVersion]
    BY <1>8, <2>1 DEF StopOld, Undo, Unload, StepFails, TimedOut, TypeOK
  <2>3. installer' \in [Agents -> Installer]
    <3>1. CASE StopOld(a)
      BY <3>1, StoppedTyped DEF StopOld
    <3>2. CASE Undo(a) \/ Unload(a)
      BY <3>2 DEF Undo, Unload, Goes, TypeOK, Installer, Phases
    <3>3. CASE StepFails(a)
      <4>1. \E phase \in {"failed", "restoring", "undoing"} : Goes(a, phase)
        BY <3>3 DEF StepFails
      <4>2. {"failed", "restoring", "undoing"} \subseteq Phases
        BY DEF Phases, Ended
      <4> QED BY <4>1, <4>2 DEF Goes, TypeOK, Installer
    <3> QED BY <1>8, <3>1, <3>2, <3>3
  <2> QED
    BY <1>8, <2>2, <2>3 DEF StopOld, Undo, Unload, StepFails, TypeOK, files
<1>9. CASE StartNew(a) \/ SlowBootstrap(a)
  BY <1>9 DEF StartNew, SlowBootstrap, Bootstrap, Goes, TypeOK, Installer,
              Phases, Ended, MaybeVersion, files
<1> QED
  BY <1>1, <1>2, <1>3, <1>4, <1>5, <1>6, <1>7, <1>8, <1>9 DEF Install

LEMMA StepTyped == TypeOK /\ [Next]_vars => TypeOK'
<1> SUFFICES ASSUME TypeOK, [Next]_vars PROVE TypeOK'
  OBVIOUS
<1>1. CASE \E a \in Agents : Install(a)
  BY <1>1, InstallTyped
<1>2. CASE Edit
  BY <1>2, DeploymentAssumption DEF Edit, TypeOK, Versions, files
<1>3. CASE Serve
  BY <1>3 DEF Serve, TypeOK
<1>4. CASE UNCHANGED vars
  BY <1>4 DEF vars, TypeOK
<1> QED BY <1>1, <1>2, <1>3, <1>4 DEF Next

\* A step of one agent's installer leaves the others' alone.
LEMMA OthersAlone ==
    ASSUME TypeOK, NEW a \in Agents, Install(a), NEW b \in Agents, b # a
    PROVE  /\ installer'[b] = installer[b] /\ plist'[b] = plist[b]
           /\ loaded'[b] = loaded[b]
<1> USE DEF TypeOK, Goes, files
<1>1. CASE \/ Start(a) \/ FindRelease(a) \/ BuildRelease(a) \/ PlaceRelease(a)
           \/ Smoke(a) \/ CopyData(a) \/ PlaceData(a)
  BY <1>1 DEF Start, FindRelease, BuildRelease, PlaceRelease, Smoke, CopyData,
              PlaceData
<1>2. CASE \/ WriteOnly(a) \/ BackUp(a) \/ WritePlist(a) \/ Lint(a)
           \/ StopOld(a) \/ PortReleased(a) \/ Confirm(a)
  BY <1>2 DEF WriteOnly, BackUp, WritePlist, Lint, StopOld, PortReleased,
              Confirm
<1>3. CASE StartNew(a) \/ SlowBootstrap(a)
  BY <1>3 DEF StartNew, SlowBootstrap, Bootstrap
<1>4. CASE StepFails(a) \/ Undo(a) \/ Unload(a)
  BY <1>4 DEF StepFails, TimedOut, Undo, Unload
<1>5. CASE Restore(a) \/ ReviveFails(a) \/ Unlink(a) \/ Interrupt(a)
  BY <1>5 DEF Restore, ReviveFails, Unlink, Interrupt
<1> QED BY <1>1, <1>2, <1>3, <1>4, <1>5 DEF Install

\* What IInv says of one agent.
Honest(a) ==
    /\ installer[a].pc \in {"linting", "stopping", "releasing", "starting",
                            "confirming"}
          => plist[a] = installer[a].id
    /\ At(a, "confirming") => loaded[a] = plist[a]
    /\ At(a, "reviving") => plist[a] = installer[a].previous
    /\ At(a, "installed") =>
          plist[a] = installer[a].id /\ loaded[a] = plist[a]
    /\ At(a, "restored") =>
          /\ plist[a] = installer[a].previous
          /\ installer[a].stopped /\ plist[a] # None => loaded[a] = plist[a]
    /\ At(a, "unrestored") => plist[a] = installer[a].previous

LEMMA InstallHonest ==
    ASSUME TypeOK, NEW a \in Agents, Honest(a), Install(a)
    PROVE  Honest(a)'
<1> USE DEF TypeOK, Installer, Goes, At, Honest, files
<1>1. CASE Restore(a)
  BY <1>1 DEF Restore
<1>2. CASE StartNew(a)
  BY <1>2 DEF StartNew, Bootstrap
<1>3. CASE SlowBootstrap(a)
  BY <1>3 DEF SlowBootstrap
<1>4. CASE Start(a)
  BY <1>4 DEF Start, Fresh
<1>5. CASE \/ FindRelease(a) \/ BuildRelease(a) \/ PlaceRelease(a)
           \/ Smoke(a) \/ CopyData(a) \/ PlaceData(a)
  BY <1>5 DEF FindRelease, BuildRelease, PlaceRelease, Smoke, CopyData,
              PlaceData
<1>6. CASE \/ WriteOnly(a) \/ BackUp(a) \/ WritePlist(a) \/ Lint(a)
           \/ StopOld(a) \/ PortReleased(a) \/ Confirm(a)
  BY <1>6 DEF WriteOnly, BackUp, WritePlist, Lint, StopOld, PortReleased,
              Confirm
<1>7. CASE StepFails(a) \/ Undo(a) \/ Unload(a)
  BY <1>7 DEF StepFails, Undo, Unload
<1>8. CASE ReviveFails(a) \/ Unlink(a) \/ Interrupt(a)
  BY <1>8 DEF ReviveFails, Unlink, Interrupt
<1> QED BY <1>1, <1>2, <1>3, <1>4, <1>5, <1>6, <1>7, <1>8 DEF Install

\* Every agent's installer keeps to IInv.
LEMMA StepHonest ==
    ASSUME TypeOK, \A a \in Agents : Honest(a), [Next]_vars
    PROVE  \A a \in Agents : Honest(a)'
<1>1. ASSUME NEW a \in Agents, Install(a), NEW b \in Agents PROVE Honest(b)'
  <2>1. CASE b = a
    BY <1>1, <2>1, InstallHonest
  <2>2. CASE b # a
    BY <1>1, <2>2, OthersAlone DEF Honest, At
  <2> QED BY <2>1, <2>2
<1>2. CASE Edit \/ Serve \/ UNCHANGED vars
  BY <1>2 DEF Edit, Serve, vars, files, Honest, At
<1> QED BY <1>1, <1>2 DEF Next

LEMMA InitHolds == Init => IInv
BY DeploymentAssumption
   DEF Init, IInv, TypeOK, OnTheWay, InstallerIsHonest, At, Fresh,
       Installer, Phases, Ended, MaybeVersion, Versions

\* An installer that ends as installed has its plist loaded; one that
\* reports the previous state has put the old plist back, and has loaded it
\* again if the bootout of the old service returned.  Nothing is said of a
\* bootout that ran out of time after it had stopped the service.
THEOREM InstallerHonest == Spec => []InstallerIsHonest
<1>1. IInv /\ [Next]_vars => IInv'
  BY StepTyped, StepHonest
     DEF IInv, OnTheWay, InstallerIsHonest, Honest
<1>2. IInv => InstallerIsHonest
  BY DEF IInv
<1> QED BY InitHolds, <1>1, <1>2, PTL DEF Spec

\* The seed never takes the place of data a service has written to.
THEOREM LiveDataKept == Spec => LiveDataIsKept
<1>1. [Next]_vars => [data = "live" => data' = "live"]_vars
  <2> SUFFICES ASSUME Next, data = "live" PROVE data' = "live"
    OBVIOUS
  <2>1. ASSUME NEW a \in Agents, Install(a) PROVE data' = "live"
    <3>1. CASE \/ Start(a) \/ FindRelease(a) \/ BuildRelease(a)
               \/ PlaceRelease(a) \/ Smoke(a) \/ CopyData(a)
      BY <3>1 DEF Start, FindRelease, BuildRelease, PlaceRelease, Smoke,
                  CopyData, files
    <3>2. CASE PlaceData(a)
      BY <3>2 DEF PlaceData
    <3>3. CASE \/ WriteOnly(a) \/ BackUp(a) \/ WritePlist(a) \/ Lint(a)
               \/ StopOld(a) \/ PortReleased(a) \/ StartNew(a)
               \/ SlowBootstrap(a) \/ Confirm(a)
      BY <3>3 DEF WriteOnly, BackUp, WritePlist, Lint, StopOld, PortReleased,
                  StartNew, SlowBootstrap, Confirm, files
    <3>4. CASE \/ StepFails(a) \/ Undo(a) \/ Restore(a) \/ ReviveFails(a)
               \/ Unload(a) \/ Unlink(a) \/ Interrupt(a)
      BY <3>4 DEF StepFails, Undo, Restore, ReviveFails, Unload, Unlink,
                  Interrupt, files
    <3> QED BY <2>1, <3>1, <3>2, <3>3, <3>4 DEF Install
  <2>2. CASE Edit \/ Serve
    BY <2>2 DEF Edit, Serve, files
  <2> QED BY <2>1, <2>2 DEF Next
<1> QED BY <1>1, PTL DEF Spec, LiveDataIsKept
=============================================================================
