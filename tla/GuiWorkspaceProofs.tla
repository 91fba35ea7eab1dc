-------------------------- MODULE GuiWorkspaceProofs --------------------------
(* Launches of the GUI workspace, for every number of launches, areas, paths and
   contents and whatever mishaps happen: the saved workspace is well formed, a
   launch uses the staging areas only as StagingArea allows, what it leaves
   reserved is what the saved workspace has not exported, a reload spares the
   changes of an orderly save, and a started image has all of HEAD.           *)
EXTENDS GuiWorkspace, StagingAreaProofs

-----------------------------------------------------------------------------
(* The invariant.  Types alone are not inductive: that workspace.json exists
   when a launch updates it follows from the workspace lock.                  *)

\* The phases in which a launch has prepared the workspace.
Prepared == {"prepared", "leased", "bound", "running", "finishing"}

Phases == {"start", "locked", "released"} \cup Prepared

\* Launches that are over hold nothing, one launch is past the lock at a time,
\* and what it prepared stays there.
LaunchesSafe ==
    /\ \A g \in GuiProcs : g \notin alive => launch[g].phase = "start"
    /\ \A g, h \in GuiProcs :
           launch[g].phase # "start" /\ launch[h].phase # "start" => g = h
    /\ \A g \in GuiProcs :
           launch[g].phase \in Prepared =>
               /\ launch[g].area \in Areas
               /\ workspace # NoWorkspace

\* workspace.json is only written beside an image file.
WorkspaceHasImage == workspace # NoWorkspace => image # NoImage

GuiInv == GuiTypeOK /\ LaunchesSafe /\ WorkspaceHasImage
-----------------------------------------------------------------------------
(* What changes in launch.                                                    *)

LEMMA LaunchUpdate ==
    ASSUME NEW l \in Launches, NEW phase \in Phases
    PROVE  /\ [l EXCEPT !.phase = phase] \in Launches
           /\ [l EXCEPT !.phase = phase].phase = phase
           /\ [l EXCEPT !.phase = phase].area = l.area
BY DEF Launches, Phases, Prepared

LEMMA EnterEffect ==
    ASSUME GuiTypeOK, NEW g \in GuiProcs, NEW phase \in Phases, Enter(g, phase)
    PROVE  /\ launch' \in [GuiProcs -> Launches]
           /\ launch'[g].phase = phase /\ launch'[g].area = launch[g].area
           /\ \A h \in GuiProcs \ {g} : launch'[h] = launch[h]
<1>1. launch \in [GuiProcs -> Launches]
  BY DEF GuiTypeOK
<1>2. launch' = [launch EXCEPT ![g] = [launch[g] EXCEPT !.phase = phase]]
  BY DEF Enter
<1>3. launch[g] \in Launches
  BY <1>1
<1> QED
  BY <1>1, <1>2, <1>3, LaunchUpdate

LEMMA LeaveEffect ==
    ASSUME GuiTypeOK, NEW g \in GuiProcs, Leave(g)
    PROVE  /\ launch' \in [GuiProcs -> Launches]
           /\ launch'[g].phase = "start"
           /\ \A h \in GuiProcs \ {g} : launch'[h] = launch[h]
<1>1. NewLaunch \in Launches /\ NewLaunch.phase = "start"
  BY DEF NewLaunch, Launches
<1> QED
  BY <1>1 DEF Leave, GuiTypeOK

\* A launch moves on: it is alive and the only one past the lock, or it is over.
LEMMA LaunchMoves ==
    ASSUME LaunchesSafe, NEW g \in GuiProcs,
           \A h \in GuiProcs \ {g} : launch'[h] = launch[h],
           alive' = alive \/ (alive' = alive \ {g} /\ launch'[g].phase = "start"),
           launch'[g].phase # "start" =>
               /\ g \in alive
               /\ \A h \in GuiProcs \ {g} : launch[h].phase = "start",
           launch'[g].phase \in Prepared =>
               /\ launch'[g].area \in Areas
               /\ workspace' # NoWorkspace,
           \/ \A h \in GuiProcs \ {g} : launch[h].phase = "start"
           \/ UNCHANGED workspace
    PROVE  LaunchesSafe'
<1>1. "start" \notin Prepared
  BY DEF Prepared
<1>2. ASSUME NEW h \in GuiProcs, h \notin alive' PROVE launch'[h].phase = "start"
  BY <1>2 DEF LaunchesSafe
<1>3. ASSUME NEW f \in GuiProcs, NEW h \in GuiProcs,
             launch'[f].phase # "start", launch'[h].phase # "start"
      PROVE  f = h
  BY <1>3 DEF LaunchesSafe
<1>4. ASSUME NEW h \in GuiProcs, launch'[h].phase \in Prepared
      PROVE  launch'[h].area \in Areas /\ workspace' # NoWorkspace
  BY <1>1, <1>4 DEF LaunchesSafe
<1> QED
  BY <1>2, <1>3, <1>4 DEF LaunchesSafe, Prepared

\* A step of something else.
LEMMA LaunchesStay ==
    ASSUME LaunchesSafe, launch' = launch, alive' \cap GuiProcs = alive \cap GuiProcs,
           workspace # NoWorkspace => workspace' # NoWorkspace
    PROVE  LaunchesSafe'
BY DEF LaunchesSafe, Prepared

LEMMA AloneWhenMoving ==
    ASSUME LaunchesSafe, NEW g \in GuiProcs, launch[g].phase # "start"
    PROVE  g \in alive /\ \A h \in GuiProcs \ {g} : launch[h].phase = "start"
BY DEF LaunchesSafe
-----------------------------------------------------------------------------
(* Every step of a launch, of its image and of the workspace's reset is a step
   of the staging areas or leaves them alone.                                 *)

LEMMA StagingStep ==
    ASSUME GuiInv,
           \/ \E a \in Areas :
                  \/ CreateStaging(a) \/ RebaseStaging(a) \/ ReconcileStaging(a)
                  \/ PromoteStaging(a) \/ DiscardWorkspace(a)
           \/ \E p \in Procs : ProcStep(p)
           \/ \E path \in Paths, value \in Contents \cup {Missing} : EditStep(path, value)
           \/ UNCHANGED vars
    PROVE  [Next]_vars /\ AreasStay
<1>1. TypeOK
  BY DEF GuiInv, GuiTypeOK
<1>2. UNCHANGED vars => AreasStay
  BY DEF vars, areaVars, AreasStay, Exists
<1> QED
  BY <1>1, <1>2, AreaStepCommits, ProcStepCommits, EditStepCommits DEF Next, AreaStep

\* A workspace that exists names an area.
LEMMA WorkspaceArea ==
    ASSUME GuiTypeOK, workspace # NoWorkspace
    PROVE  workspace.area \in Areas
BY DEF GuiTypeOK, Workspaces

LEMMA PreparedArea ==
    ASSUME LaunchesSafe, NEW g \in GuiProcs, launch[g].phase \in Prepared
    PROVE  launch[g].area \in Areas /\ workspace # NoWorkspace
BY DEF LaunchesSafe

LEMMA LaunchStepIsStep ==
    ASSUME GuiInv, NEW g \in GuiProcs, LaunchStep(g)
    PROVE  [Next]_vars /\ AreasStay
<1>0. g \in Procs /\ GuiTypeOK /\ LaunchesSafe
  BY ProcsAssumption DEF GuiInv
<1>1. CASE UNCHANGED vars
  BY <1>1, StagingStep
<1>2. CASE ReleaseForFresh(g)
  <2>1. DiscardWorkspace(workspace.area) /\ workspace.area \in Areas
    BY <1>0, <1>2, WorkspaceArea DEF ReleaseForFresh
  <2> QED BY <2>1, StagingStep
<1>3. ASSUME NEW a \in Areas, CreateForWorkspace(g, a) PROVE [Next]_vars /\ AreasStay
  BY <1>3, StagingStep DEF CreateForWorkspace
<1>4. CASE AttachWorkspace(g) \/ AttachFails(g)
  <2>1. launch[g].area \in Areas
    BY <1>0, <1>4, PreparedArea DEF AttachWorkspace, AttachFails, In, Prepared
  <2> QED BY <1>0, <1>4, <2>1, StagingStep DEF AttachWorkspace, AttachFails, ProcStep
<1>5. CASE LaunchFails(g) \/ BindFails(g) \/ RefuseReload(g) \/ ForeignCompletion(g)
           \/ FinishLaunch(g)
  <2>1. PICK dirty \in BOOLEAN : ReleaseLease(g, dirty)
    <3>1. Pending \in BOOLEAN
      BY DEF Pending
    <3> QED BY <1>5, <3>1 DEF LaunchFails, BindFails, RefuseReload, ForeignCompletion, FinishLaunch
  <2> QED BY <1>0, <2>1, StagingStep DEF ProcStep
<1>6. CASE ServiceRequest(g) \/ ServiceFails(g) \/ LeaveEarly(g) \/ NoOrphan(g)
  <2>1. ProcStep(g)
    BY <1>6 DEF ServiceRequest, ServiceFails, LeaveEarly, NoOrphan, ProcStep
  <2> QED BY <1>0, <2>1, StagingStep
<1> QED
  BY <1>1, <1>2, <1>3, <1>4, <1>5, <1>6
     DEF LaunchStep, LockWorkspace, RemoveForFresh, PrepareWorkspace, BindImage, KeepImage,
         StartImage, RecordOutcome

LEMMA ImageStepIsStep ==
    ASSUME GuiInv, NEW g \in GuiProcs, ImageStep(g)
    PROVE  [Next]_vars /\ AreasStay
<1>0. g \in Procs
  BY ProcsAssumption
<1>1. ASSUME NEW path \in Paths, NEW value \in Contents \cup {Missing},
             ExportFromImage(g, path, value)
      PROVE  [Next]_vars /\ AreasStay
  <2>1. EditStep(path, value)
    BY <1>0, <1>1 DEF ExportFromImage, EditStep
  <2> QED BY <2>1, StagingStep
<1>2. CASE OrphanExit(g)
  BY <1>0, <1>2, StagingStep DEF ProcStep
<1>3. CASE UNCHANGED vars
  BY <1>3, StagingStep
<1> QED
  BY <1>1, <1>2, <1>3 DEF ImageStep, EditImage, WriteCompletion, QuitImage, ImageDies, ImageEnds

LEMMA OtherStepIsStep ==
    ASSUME GuiInv, OtherStep
    PROVE  [Next]_vars
<1>1. ASSUME NEW path \in Paths, NEW value \in Contents \cup {Missing},
             \/ EditSource(path, value)
             \/ \E a \in Areas : EditOverlay(a, path, value)
             \/ \E p \in Procs \ GuiProcs : ImageExport(p, path, value)
      PROVE  [Next]_vars
  <2>1. EditStep(path, value)
    BY <1>1 DEF EditStep
  <2> QED BY <2>1, StagingStep
<1>2. ASSUME NEW p \in Procs \ GuiProcs, ProcStep(p) PROVE [Next]_vars
  BY <1>2, StagingStep
<1>3. ASSUME NEW a \in Areas,
             CreateStaging(a) \/ RebaseStaging(a) \/ ReconcileStaging(a) \/ PromoteStaging(a)
      PROVE  [Next]_vars
  BY <1>3, StagingStep
<1>4. ASSUME NEW a \in Areas, ResetStaging(a) PROVE [Next]_vars
  BY <1>4 DEF Next, AreaStep
<1> QED
  BY <1>1, <1>2, <1>3, <1>4 DEF OtherStep

LEMMA GuiStepIsStep ==
    ASSUME GuiInv, [GuiNext]_guiVars
    PROVE  [Next]_vars
<1>1. CASE ResetWorkspace
  <2>1. DiscardWorkspace(workspace.area) /\ workspace.area \in Areas
    BY <1>1, WorkspaceArea DEF ResetWorkspace, GuiInv
  <2> QED BY <2>1, StagingStep DEF AreaStep
<1>2. CASE UNCHANGED guiVars
  BY <1>2 DEF guiVars
<1> QED
  BY <1>1, <1>2, LaunchStepIsStep, ImageStepIsStep, OtherStepIsStep DEF GuiNext
-----------------------------------------------------------------------------
(* GuiInv is preserved: first by the stages before the image runs.            *)

LEMMA LockWorkspaceKeeps ==
    ASSUME GuiInv, TypeOK', provenance' \in Provenances, NEW g \in GuiProcs, LockWorkspace(g)
    PROVE  GuiInv'
<1>1. GuiTypeOK /\ LaunchesSafe /\ Enter(g, "locked") /\ g \in alive /\ alive' = alive
  BY DEF GuiInv, LockWorkspace, In, vars
<1>2. "locked" \in Phases \ Prepared
  BY DEF Phases, Prepared
<1>3. /\ launch' \in [GuiProcs -> Launches] /\ launch'[g].phase = "locked"
      /\ \A h \in GuiProcs \ {g} : launch'[h] = launch[h]
  BY <1>1, <1>2, EnterEffect
<1>4. \A h \in GuiProcs \ {g} : launch[h].phase = "start"
  BY <1>1 DEF LockWorkspace, LockFree, LaunchesSafe
<1>5. UNCHANGED <<workspace, completion, image, run>>
  BY DEF LockWorkspace
<1>6. LaunchesSafe'
  BY <1>1, <1>2, <1>3, <1>4, <1>5, LaunchMoves
<1> QED
  BY <1>1, <1>3, <1>5, <1>6 DEF GuiInv, GuiTypeOK, WorkspaceHasImage

LEMMA RemovalForFreshKeeps ==
    ASSUME GuiInv, TypeOK', provenance' \in Provenances, NEW g \in GuiProcs, ReleaseForFresh(g) \/ RemoveForFresh(g)
    PROVE  GuiInv'
<1>1. /\ GuiTypeOK /\ LaunchesSafe /\ alive' = alive /\ launch[g].phase # "start"
      /\ run' = run
  BY DEF GuiInv, ReleaseForFresh, RemoveForFresh, DiscardWorkspace, In, vars
<1>2. PICK phase \in {"locked", "released"} : Enter(g, phase)
  BY DEF ReleaseForFresh, RemoveForFresh
<1>3. phase \in Phases \ Prepared
  BY DEF Phases, Prepared
<1>4. /\ launch' \in [GuiProcs -> Launches] /\ launch'[g].phase = phase
      /\ \A h \in GuiProcs \ {g} : launch'[h] = launch[h]
  BY <1>1, <1>2, <1>3, EnterEffect
<1>5. g \in alive /\ \A h \in GuiProcs \ {g} : launch[h].phase = "start"
  BY <1>1, AloneWhenMoving
<1>6. LaunchesSafe'
  BY <1>1, <1>3, <1>4, <1>5, LaunchMoves
<1>7. /\ workspace' \in Workspaces \cup {NoWorkspace}
      /\ completion' \in Completions \cup {NoCompletion}
      /\ image' \in Images \cup {NoImage}
      /\ WorkspaceHasImage'
  BY <1>1 DEF GuiInv, ReleaseForFresh, RemoveForFresh, RemoveWorkspace, GuiTypeOK, WorkspaceHasImage
<1> QED
  BY <1>1, <1>4, <1>6, <1>7 DEF GuiInv, GuiTypeOK

LEMMA CreateForWorkspaceKeeps ==
    ASSUME GuiInv, TypeOK', provenance' \in Provenances, NEW g \in GuiProcs, NEW a \in Areas, CreateForWorkspace(g, a)
    PROVE  GuiInv'
<1>1. /\ GuiTypeOK /\ LaunchesSafe /\ alive' = alive
      /\ UNCHANGED <<workspace, completion, image, run, launch>>
  BY DEF GuiInv, CreateForWorkspace, CreateStaging
<1>2. LaunchesSafe'
  BY <1>1, LaunchesStay
<1> QED
  BY <1>1, <1>2 DEF GuiInv, GuiTypeOK, WorkspaceHasImage

LEMMA InitialWorkspaceType ==
    ASSUME TypeOK, NEW a \in Areas, Exists(a)
    PROVE  InitialWorkspace(a) \in Workspaces
<1>1. record[a].generation \in Nat
  BY RecordFields DEF Records
<1> QED
  BY <1>1 DEF InitialWorkspace, Workspaces

LEMMA CorrectedType ==
    ASSUME NEW ws \in Workspaces
    PROVE  Corrected(ws) \in Workspaces
BY DEF Corrected, Workspaces

LEMMA CanonicalImageType == CanonicalImage \in Images
BY DEF CanonicalImage, Images

LEMMA PrepareEffect ==
    ASSUME GuiTypeOK, NEW g \in GuiProcs, NEW a \in Areas, PrepareWorkspace(g, a)
    PROVE  /\ workspace' \in Workspaces
           /\ launch' \in [GuiProcs -> Launches]
           /\ launch'[g].phase = "prepared" /\ launch'[g].area = a
           /\ \A h \in GuiProcs \ {g} : launch'[h] = launch[h]
<1>1. TypeOK /\ Exists(a)
  BY DEF GuiTypeOK, PrepareWorkspace
<1>2. workspace' \in Workspaces
  BY <1>1, InitialWorkspaceType, CorrectedType DEF PrepareWorkspace, GuiTypeOK
<1>3. workspace'.generation \in Nat
  BY <1>2 DEF Workspaces
<1>4. ASSUME NEW l \in Launches, NEW i \in BOOLEAN, NEW n \in Nat
      PROVE  /\ [l EXCEPT !.phase = "prepared", !.area = a, !.initialized = i, !.loaded = n]
                    \in Launches
             /\ [l EXCEPT !.phase = "prepared", !.area = a, !.initialized = i, !.loaded = n].phase
                    = "prepared"
             /\ [l EXCEPT !.phase = "prepared", !.area = a, !.initialized = i, !.loaded = n].area
                    = a
  BY DEF Launches
<1>5. PICK l \in Launches : l = launch[g]
  BY DEF GuiTypeOK
<1>6. PICK i \in BOOLEAN : i = (workspace = NoWorkspace)
  BY Zenon
<1>7. PICK n \in Nat : n = workspace'.generation
  BY <1>3
<1>8. PICK m : m = [l EXCEPT !.phase = "prepared", !.area = a, !.initialized = i, !.loaded = n]
  OBVIOUS
<1>9. launch' = [launch EXCEPT ![g] = m]
  BY <1>5, <1>6, <1>7, <1>8, Zenon DEF PrepareWorkspace
<1>10. m \in Launches /\ m.phase = "prepared" /\ m.area = a
  BY <1>4, <1>8
<1> QED
  BY <1>2, <1>9, <1>10 DEF GuiTypeOK

LEMMA PrepareWorkspaceKeeps ==
    ASSUME GuiInv, TypeOK', provenance' \in Provenances, NEW g \in GuiProcs, NEW a \in Areas, PrepareWorkspace(g, a)
    PROVE  GuiInv'
<1>1. /\ GuiTypeOK /\ LaunchesSafe /\ alive' = alive
      /\ launch[g].phase # "start"
      /\ UNCHANGED <<completion, run>>
  BY DEF GuiInv, PrepareWorkspace, In, vars
<1>2. /\ workspace' \in Workspaces
      /\ launch' \in [GuiProcs -> Launches]
      /\ launch'[g].phase = "prepared" /\ launch'[g].area = a
      /\ \A h \in GuiProcs \ {g} : launch'[h] = launch[h]
  BY <1>1, PrepareEffect
<1>3. image' \in Images
  <2>1. workspace # NoWorkspace => image \in Images
    BY <1>1 DEF GuiInv, GuiTypeOK, WorkspaceHasImage
  <2> QED BY <2>1, CanonicalImageType DEF PrepareWorkspace
<1>4. workspace' # NoWorkspace /\ image' # NoImage
  BY <1>2, <1>3, NonesAssumption
<1>5. g \in alive /\ \A h \in GuiProcs \ {g} : launch[h].phase = "start"
  BY <1>1, AloneWhenMoving
<1>6. LaunchesSafe'
  BY <1>1, <1>2, <1>4, <1>5, LaunchMoves
<1> QED
  BY <1>1, <1>2, <1>3, <1>4, <1>6 DEF GuiInv, GuiTypeOK, WorkspaceHasImage

LEMMA AttachEffect ==
    ASSUME GuiInv, TypeOK', NEW g \in GuiProcs, AttachWorkspace(g)
    PROVE  /\ launch[g].phase = "prepared" /\ launch[g].area \in Areas
           /\ AcquireLease(g, launch[g].area)
           /\ launch' \in [GuiProcs -> Launches]
           /\ launch'[g].phase = "leased" /\ launch'[g].area = launch[g].area
           /\ \A h \in GuiProcs \ {g} : launch'[h] = launch[h]
<1>1. /\ GuiTypeOK /\ TypeOK /\ LaunchesSafe
      /\ launch[g].phase = "prepared" /\ AcquireLease(g, launch[g].area)
  BY DEF GuiInv, GuiTypeOK, AttachWorkspace, In
<1>2. launch[g].area \in Areas
  BY <1>1, PreparedArea DEF Prepared
<1>3. PICK l \in Launches : l = launch[g]
  BY <1>1 DEF GuiTypeOK
<1>4. PICK n \in Nat : n = record'[l.area].generation
  <2>1. g \in Procs
    BY ProcsAssumption
  <2>2. Exists(l.area)'
    BY <1>1, <1>2, <1>3, <2>1, AcquireEffect
  <2>3. record'[l.area] \in Records
    BY <1>2, <1>3, <2>2 DEF TypeOK, Exists
  <2> QED BY <2>3 DEF Records
<1>5. PICK m : m = [l EXCEPT !.phase = "leased", !.current = n]
  OBVIOUS
<1>6. m \in Launches /\ m.phase = "leased" /\ m.area = l.area
  BY <1>5 DEF Launches
<1>7. launch' = [launch EXCEPT ![g] = m]
  <2>1. launch' = [launch EXCEPT ![g] = [launch[g] EXCEPT !.phase = "leased",
                                             !.current = record'[launch[g].area].generation]]
    BY <1>1 DEF AttachWorkspace, GuiTypeOK
  <2> QED BY <1>3, <1>4, <1>5, <2>1, Zenon
<1> QED
  BY <1>1, <1>2, <1>3, <1>6, <1>7 DEF GuiTypeOK

LEMMA AttachWorkspaceKeeps ==
    ASSUME GuiInv, TypeOK', provenance' \in Provenances, NEW g \in GuiProcs, AttachWorkspace(g)
    PROVE  GuiInv'
<1>1. /\ GuiTypeOK /\ LaunchesSafe /\ alive' = alive
      /\ UNCHANGED <<workspace, completion, image, run>>
  BY DEF GuiInv, AttachWorkspace, AcquireLease
<1>2. /\ launch[g].phase = "prepared"
      /\ launch' \in [GuiProcs -> Launches]
      /\ launch'[g].phase = "leased" /\ launch'[g].area = launch[g].area
      /\ \A h \in GuiProcs \ {g} : launch'[h] = launch[h]
  BY AttachEffect
<1>3. launch[g].area \in Areas /\ workspace # NoWorkspace
  BY <1>1, <1>2, PreparedArea DEF Prepared
<1>4. g \in alive /\ \A h \in GuiProcs \ {g} : launch[h].phase = "start"
  BY <1>1, <1>2, AloneWhenMoving
<1>5. LaunchesSafe'
  BY <1>1, <1>2, <1>3, <1>4, LaunchMoves
<1> QED
  BY <1>1, <1>2, <1>5 DEF GuiInv, GuiTypeOK, WorkspaceHasImage

\* A launch ends, in whatever way.
LEMMA LeavingKeeps ==
    ASSUME GuiInv, TypeOK', provenance' \in Provenances, NEW g \in GuiProcs, Leave(g),
           alive' = alive \ {g},
           UNCHANGED <<workspace, image, run>>,
           completion' \in {completion, NoCompletion}
    PROVE  GuiInv'
<1>1. GuiTypeOK /\ LaunchesSafe /\ "start" \notin Prepared
  BY DEF GuiInv, Prepared
<1>2. /\ launch' \in [GuiProcs -> Launches] /\ launch'[g].phase = "start"
      /\ \A h \in GuiProcs \ {g} : launch'[h] = launch[h]
  BY <1>1, LeaveEffect
<1>3. LaunchesSafe'
  BY <1>1, <1>2, LaunchMoves
<1> QED
  BY <1>1, <1>2, <1>3 DEF GuiInv, GuiTypeOK, WorkspaceHasImage

LEMMA EndingsKeep ==
    ASSUME GuiInv, TypeOK', provenance' \in Provenances, NEW g \in GuiProcs,
           \/ AttachFails(g) \/ LaunchFails(g) \/ BindFails(g) \/ RefuseReload(g)
           \/ ForeignCompletion(g) \/ FinishLaunch(g) \/ ServiceFails(g) \/ LeaveEarly(g)
    PROVE  GuiInv'
<1>1. /\ Leave(g)
      /\ UNCHANGED <<workspace, image, run>>
      /\ completion' \in {completion, NoCompletion}
  BY DEF AttachFails, LaunchFails, BindFails, RefuseReload, ForeignCompletion, FinishLaunch,
         ServiceFails, LeaveEarly
<1>2. alive' = alive \ {g}
  BY DEF AttachFails, LaunchFails, BindFails, RefuseReload, ForeignCompletion, FinishLaunch,
         ServiceFails, LeaveEarly, AttachConflicted, ReleaseLease, AbandonLease, Exit
<1> QED
  BY <1>1, <1>2, LeavingKeeps

LEMMA BindEffect ==
    ASSUME GuiTypeOK, NEW g \in GuiProcs, BindImage(g)
    PROVE  /\ launch' \in [GuiProcs -> Launches]
           /\ launch'[g].phase = "bound" /\ launch'[g].area = launch[g].area
           /\ \A h \in GuiProcs \ {g} : launch'[h] = launch[h]
<1>1. PICK l \in Launches : l = launch[g]
  BY DEF GuiTypeOK
<1>2. PICK m : m = [l EXCEPT !.phase = "bound", !.loaded = l.current]
  OBVIOUS
<1>3. m \in Launches /\ m.phase = "bound" /\ m.area = l.area
  BY <1>2 DEF Launches
<1>4. launch' = [launch EXCEPT ![g] = m]
  <2>1. launch' = [launch EXCEPT ![g] = [launch[g] EXCEPT !.phase = "bound",
                                             !.loaded = launch[g].current]]
    BY DEF BindImage, GuiTypeOK
  <2> QED BY <1>1, <1>2, <2>1, Zenon
<1> QED
  BY <1>1, <1>3, <1>4 DEF GuiTypeOK

LEMMA BindImageKeeps ==
    ASSUME GuiInv, TypeOK', provenance' \in Provenances, NEW g \in GuiProcs, BindImage(g)
    PROVE  GuiInv'
<1>1. /\ GuiTypeOK /\ TypeOK /\ LaunchesSafe /\ alive' = alive
      /\ launch[g].phase = "leased"
      /\ completion' = NoCompletion
      /\ UNCHANGED <<workspace, run>>
  BY DEF GuiInv, GuiTypeOK, BindImage, In, vars
<1>2. launch[g].area \in Areas /\ workspace # NoWorkspace
  BY <1>1, PreparedArea DEF Prepared
<1>3. image' \in Images
  <2>1. head[launch[g].area] \in Nat
    BY <1>1, <1>2 DEF TypeOK
  <2> QED BY <2>1 DEF BindImage, Images
<1>4. /\ launch' \in [GuiProcs -> Launches]
      /\ launch'[g].phase = "bound" /\ launch'[g].area = launch[g].area
      /\ \A h \in GuiProcs \ {g} : launch'[h] = launch[h]
  BY <1>1, BindEffect
<1>5. g \in alive /\ \A h \in GuiProcs \ {g} : launch[h].phase = "start"
  BY <1>1, AloneWhenMoving
<1>6. LaunchesSafe'
  BY <1>1, <1>2, <1>4, <1>5, LaunchMoves
<1>7. image' # NoImage
  BY <1>3, NonesAssumption
<1> QED
  BY <1>1, <1>3, <1>4, <1>6, <1>7 DEF GuiInv, GuiTypeOK, WorkspaceHasImage

\* A launch goes on to its next phase; workspace.json stays well formed.
LEMMA AdvancingKeeps ==
    ASSUME GuiInv, TypeOK', provenance' \in Provenances, NEW g \in GuiProcs, NEW phase \in Prepared, Enter(g, phase),
           launch[g].phase \in Prepared, alive' = alive,
           workspace' \in Workspaces,
           completion' \in {completion, NoCompletion},
           run' \in [GuiProcs -> Runs \cup {NoImage}],
           image' = image
    PROVE  GuiInv'
<1>1. GuiTypeOK /\ LaunchesSafe /\ WorkspaceHasImage
  BY DEF GuiInv
<1>2. launch[g].phase # "start" /\ phase \in Phases
  BY DEF Prepared, Phases
<1>3. launch[g].area \in Areas /\ workspace # NoWorkspace
  BY <1>1, PreparedArea
<1>4. /\ launch' \in [GuiProcs -> Launches]
      /\ launch'[g].phase = phase /\ launch'[g].area = launch[g].area
      /\ \A h \in GuiProcs \ {g} : launch'[h] = launch[h]
  BY <1>1, <1>2, EnterEffect
<1>5. g \in alive /\ \A h \in GuiProcs \ {g} : launch[h].phase = "start"
  BY <1>1, <1>2, AloneWhenMoving
<1>6. workspace' # NoWorkspace
  BY NonesAssumption
<1>7. LaunchesSafe'
  BY <1>1, <1>3, <1>4, <1>5, <1>6, LaunchMoves
<1>8. WorkspaceHasImage'
  BY <1>1, <1>3 DEF WorkspaceHasImage
<1> QED
  BY <1>1, <1>4, <1>7, <1>8 DEF GuiInv, GuiTypeOK

LEMMA StartImageKeeps ==
    ASSUME GuiInv, TypeOK', provenance' \in Provenances, NEW g \in GuiProcs, KeepImage(g) \/ StartImage(g)
    PROVE  GuiInv'
<1>1. /\ GuiTypeOK /\ LaunchesSafe /\ WorkspaceHasImage /\ alive' = alive
      /\ launch[g].phase \in Prepared
      /\ image' = image
      /\ completion' \in {completion, NoCompletion}
  BY DEF GuiInv, KeepImage, StartImage, In, vars, Prepared
<1>2. workspace # NoWorkspace
  BY <1>1, PreparedArea
<1>3. workspace \in Workspaces /\ image \in Images
  BY <1>1, <1>2 DEF GuiTypeOK, WorkspaceHasImage
<1>4. CASE KeepImage(g)
  <2>1. Enter(g, "bound") /\ UNCHANGED <<workspace, run>> /\ "bound" \in Prepared
    BY <1>4 DEF KeepImage, Prepared
  <2> QED BY <1>1, <1>3, <2>1, AdvancingKeeps DEF GuiTypeOK
<1>5. CASE StartImage(g)
  <2>1. Enter(g, "running") /\ "running" \in Prepared
    BY <1>5 DEF StartImage, Prepared
  <2>2. launch[g].loaded \in Nat
    BY <1>1 DEF GuiTypeOK, Launches
  <2>3. workspace' \in Workspaces
    BY <1>3, <1>5, <2>2 DEF StartImage, Workspaces
  <2>4. [loaded |-> image.loaded, dirty |-> image.dirty, from |-> image.savedBy,
         quitting |-> "no"] \in Runs
    BY <1>3 DEF Images, Runs
  <2>5. run' \in [GuiProcs -> Runs \cup {NoImage}]
    BY <1>1, <1>5, <2>4 DEF StartImage, GuiTypeOK
  <2> QED BY <1>1, <2>1, <2>3, <2>5, AdvancingKeeps
<1> QED
  BY <1>4, <1>5

LEMMA RecordOutcomeKeeps ==
    ASSUME GuiInv, TypeOK', provenance' \in Provenances, NEW g \in GuiProcs, RecordOutcome(g)
    PROVE  GuiInv'
<1>1. /\ GuiTypeOK /\ LaunchesSafe /\ alive' = alive
      /\ launch[g].phase \in Prepared
      /\ Enter(g, "finishing")
      /\ UNCHANGED <<completion, image, run>>
  BY DEF GuiInv, RecordOutcome, In, vars, Prepared
<1>2. workspace \in Workspaces
  BY <1>1, PreparedArea DEF GuiTypeOK
<1>3. Outcome(g) \in Completions
  BY <1>1 DEF Outcome, Completions, GuiTypeOK
<1>4. workspace' \in Workspaces
  <2>1. ASSUME NEW c \in Completions, NEW s \in {"saved", "ready"}
        PROVE  [workspace EXCEPT !.completion = c, !.pid = NoPid, !.state = s] \in Workspaces
    BY <1>2 DEF Workspaces
  <2>2. PICK c \in Completions : c = Outcome(g)
    BY <1>3
  <2>3. PICK s \in {"saved", "ready"} : s = IF c.state = "saved" THEN "saved" ELSE "ready"
    OBVIOUS
  <2>4. workspace' = [workspace EXCEPT !.completion = c, !.pid = NoPid, !.state = s]
    BY <2>2, <2>3 DEF RecordOutcome
  <2> QED BY <2>1, <2>4
<1>5. "finishing" \in Prepared
  BY DEF Prepared
<1> QED
  BY <1>1, <1>4, <1>5, AdvancingKeeps DEF GuiTypeOK
-----------------------------------------------------------------------------
(* The steps during which no launch moves.                                    *)

LEMMA StandingKeeps ==
    ASSUME GuiInv, TypeOK', provenance' \in Provenances, launch' = launch, alive' \cap GuiProcs = alive \cap GuiProcs,
           workspace' = workspace,
           completion' \in Completions \cup {NoCompletion},
           image' \in Images \/ image' = image,
           run' \in [GuiProcs -> Runs \cup {NoImage}]
    PROVE  GuiInv'
<1>1. LaunchesSafe'
  BY LaunchesStay DEF GuiInv
<1>2. WorkspaceHasImage' /\ image' \in Images \cup {NoImage}
  BY NonesAssumption DEF GuiInv, GuiTypeOK, WorkspaceHasImage
<1> QED
  BY <1>1, <1>2 DEF GuiInv, GuiTypeOK

LEMMA ServiceKeeps ==
    ASSUME GuiInv, TypeOK', provenance' \in Provenances, NEW g \in GuiProcs, ServiceRequest(g) \/ NoOrphan(g)
    PROVE  GuiInv'
<1>1. UNCHANGED <<alive, workspace, completion, image, run, launch>>
  BY DEF ServiceRequest, ServiceExport, ServicePromote, ReconcileStaging, PromoteStaging,
         NoOrphan, OrphanExit
<1> QED
  BY <1>1, StandingKeeps DEF GuiInv, GuiTypeOK

LEMMA RunUpdate ==
    ASSUME NEW r \in Runs, NEW d \in BOOLEAN, NEW n \in Nat,
           NEW q \in {"no", "saved", "discarded"}
    PROVE  /\ [r EXCEPT !.dirty = d] \in Runs
           /\ [r EXCEPT !.dirty = d, !.loaded = n] \in Runs
           /\ [r EXCEPT !.quitting = q] \in Runs
BY DEF Runs

LEMMA EditImageKeeps ==
    ASSUME GuiInv, TypeOK', provenance' \in Provenances, NEW g \in GuiProcs, EditImage(g)
    PROVE  GuiInv'
<1>1. /\ GuiTypeOK /\ run[g] \in Runs
      /\ UNCHANGED <<alive, workspace, completion, image, launch>>
  BY DEF GuiInv, GuiTypeOK, EditImage, Working, vars
<1>2. run' = [run EXCEPT ![g] = [run[g] EXCEPT !.dirty = TRUE]]
  BY DEF EditImage
<1>3. run' \in [GuiProcs -> Runs \cup {NoImage}]
  BY <1>1, <1>2, RunUpdate DEF GuiTypeOK
<1> QED
  BY <1>1, <1>3, StandingKeeps DEF GuiTypeOK

LEMMA ExportFromImageKeeps ==
    ASSUME GuiInv, TypeOK', provenance' \in Provenances, NEW g \in GuiProcs,
           NEW path \in Paths, NEW value \in Contents \cup {Missing},
           ExportFromImage(g, path, value)
    PROVE  GuiInv'
<1>1. /\ GuiTypeOK /\ TypeOK /\ run[g] \in Runs
      /\ UNCHANGED <<alive, workspace, completion, launch>>
  BY DEF GuiInv, GuiTypeOK, ExportFromImage, ImageExport, Working
<1>2. PICK n \in Nat : n = IF run[g].loaded = head[attached[g]] THEN commits' ELSE run[g].loaded
  BY <1>1 DEF TypeOK, Runs
<1>3. PICK r \in Runs : r = run[g]
  BY <1>1
<1>4. PICK s : s = [r EXCEPT !.dirty = FALSE, !.loaded = n]
  OBVIOUS
<1>5. run' = [run EXCEPT ![g] = s]
  <2>1. run' = [run EXCEPT ![g] = [run[g] EXCEPT !.dirty = FALSE,
                   !.loaded = IF run[g].loaded = head[attached[g]] THEN commits'
                              ELSE run[g].loaded]]
    BY <1>1 DEF ExportFromImage, GuiTypeOK, Runs
  <2> QED BY <1>2, <1>3, <1>4, <2>1, Zenon
<1>6. run' \in [GuiProcs -> Runs \cup {NoImage}]
  BY <1>1, <1>4, <1>5, RunUpdate DEF GuiTypeOK
<1>7. image' \in Images \/ image' = image
  <2>1. image # NoImage => [image EXCEPT !.dirty = FALSE] \in Images
    BY <1>1 DEF GuiTypeOK, Images
  <2> QED BY <2>1 DEF ExportFromImage
<1> QED
  BY <1>1, <1>6, <1>7, StandingKeeps DEF GuiTypeOK

LEMMA WriteCompletionKeeps ==
    ASSUME GuiInv, TypeOK', provenance' \in Provenances, NEW g \in GuiProcs, NEW state \in {"saved", "discarded"},
           WriteCompletion(g, state)
    PROVE  GuiInv'
<1>1. /\ GuiTypeOK /\ run[g] \in Runs
      /\ UNCHANGED <<alive, workspace, image, launch>>
  BY DEF GuiInv, GuiTypeOK, WriteCompletion, Working, vars
<1>2. completion' \in Completions
  BY <1>1 DEF WriteCompletion, Completions, Runs
<1>3. run' = [run EXCEPT ![g] = [run[g] EXCEPT !.quitting = state]]
  BY DEF WriteCompletion
<1>4. run' \in [GuiProcs -> Runs \cup {NoImage}]
  BY <1>1, <1>3, RunUpdate DEF GuiTypeOK
<1> QED
  BY <1>1, <1>2, <1>4, StandingKeeps DEF GuiTypeOK

LEMMA ImageEndKeeps ==
    ASSUME GuiInv, TypeOK', provenance' \in Provenances, NEW g \in GuiProcs, QuitImage(g) \/ ImageDies(g)
    PROVE  GuiInv'
<1>1. /\ GuiTypeOK /\ run[g] \in Runs
      /\ run' = [run EXCEPT ![g] = NoImage]
      /\ UNCHANGED <<alive, workspace, completion, launch>>
  BY DEF GuiInv, GuiTypeOK, QuitImage, ImageDies, ImageEnds, OrphanExit, vars
<1>2. run' \in [GuiProcs -> Runs \cup {NoImage}]
  BY <1>1 DEF GuiTypeOK
<1>3. [loaded |-> run[g].loaded, dirty |-> run[g].dirty, savedBy |-> g] \in Images
  BY <1>1 DEF Images, Runs
<1>4. image' \in Images \/ image' = image
  BY <1>3 DEF QuitImage, ImageDies
<1> QED
  BY <1>1, <1>2, <1>4, StandingKeeps DEF GuiTypeOK

\* Coordinators other than GUI launches come and go.
LEMMA OthersKeepLaunchesAlive ==
    ASSUME OtherStep
    PROVE  alive' \cap GuiProcs = alive \cap GuiProcs
<1>1. ASSUME NEW p \in Procs \ GuiProcs, ProcStep(p)
      PROVE  alive' = alive \/ alive' = alive \ {p}
  BY <1>1 DEF ProcStep, AcquireLease, AttachConflicted, ReleaseLease, AbandonLease,
              ServiceExport, ReconcileStaging, ServicePromote, PromoteStaging, Exit, OrphanExit
<1>2. ASSUME NEW a \in Areas,
             CreateStaging(a) \/ ResetStaging(a) \/ RebaseStaging(a) \/ ReconcileStaging(a)
             \/ PromoteStaging(a)
      PROVE  alive' = alive
  BY <1>2 DEF CreateStaging, ResetStaging, RebaseStaging, ReconcileStaging, PromoteStaging
<1>3. ASSUME NEW path \in Paths, NEW value \in Contents \cup {Missing},
             \/ EditSource(path, value)
             \/ \E a \in Areas : EditOverlay(a, path, value)
             \/ \E p \in Procs \ GuiProcs : ImageExport(p, path, value)
      PROVE  alive' = alive
  BY <1>3 DEF EditSource, EditOverlay, ImageExport
<1>4. (\E p \in Procs \ GuiProcs : alive' = alive \ {p}) \/ alive' = alive
  BY <1>1, <1>2, <1>3 DEF OtherStep
<1> QED
  BY <1>4

LEMMA OtherStepKeeps ==
    ASSUME GuiInv, TypeOK', provenance' \in Provenances, OtherStep
    PROVE  GuiInv'
<1>1. GuiTypeOK /\ UNCHANGED <<workspace, completion, image, run, launch>>
  BY DEF GuiInv, OtherStep
<1> QED
  BY <1>1, OthersKeepLaunchesAlive, StandingKeeps DEF GuiTypeOK

LEMMA ResetWorkspaceKeeps ==
    ASSUME GuiInv, TypeOK', provenance' \in Provenances, ResetWorkspace
    PROVE  GuiInv'
<1>1. /\ GuiTypeOK /\ LaunchesSafe /\ UNCHANGED <<alive, run, launch>>
      /\ workspace' = NoWorkspace /\ completion' = NoCompletion /\ image' = NoImage
  BY DEF GuiInv, ResetWorkspace, RemoveWorkspace, DiscardWorkspace
<1>2. \A g \in GuiProcs : launch[g].phase = "start"
  BY <1>1 DEF ResetWorkspace, LaunchesSafe
<1>3. LaunchesSafe' /\ WorkspaceHasImage'
  BY <1>1, <1>2 DEF LaunchesSafe, Prepared, WorkspaceHasImage
<1> QED
  BY <1>1, <1>3 DEF GuiInv, GuiTypeOK
-----------------------------------------------------------------------------
LEMMA GuiInvInit == GuiInit => GuiInv
<1> SUFFICES ASSUME GuiInit PROVE GuiInv
  OBVIOUS
<1>1. TypeOK
  BY TypeInit DEF GuiInit
<1>2. NewLaunch \in Launches /\ NewLaunch.phase = "start" /\ "start" \notin Prepared
  BY DEF NewLaunch, Launches, Prepared
<1>3. GuiTypeOK
  BY <1>1, <1>2 DEF GuiInit, GuiTypeOK, Provenances
<1>4. LaunchesSafe /\ WorkspaceHasImage
  BY <1>2 DEF GuiInit, LaunchesSafe, WorkspaceHasImage
<1> QED
  BY <1>3, <1>4 DEF GuiInv

LEMMA ProvenanceType ==
    ASSUME provenance \in Provenances, [GuiNext]_guiVars
    PROVE  provenance' \in Provenances
<1>1. {"unknown", "bound", "recorded"} \subseteq Provenances
  BY DEF Provenances
<1>2. ASSUME NEW g \in GuiProcs, LaunchStep(g) \/ ImageStep(g)
      PROVE  provenance' \in {provenance, "unknown", "bound", "recorded"}
  BY <1>2 DEF LaunchStep, LockWorkspace, ReleaseForFresh, RemoveForFresh, RemoveWorkspace,
     CreateForWorkspace, PrepareWorkspace, AttachWorkspace, AttachFails, LaunchFails, BindFails,
     RefuseReload, BindImage, KeepImage, StartImage, RecordOutcome, ForeignCompletion,
     FinishLaunch, ServiceRequest, ServiceFails, LeaveEarly, NoOrphan, ImageStep, EditImage,
     ExportFromImage, WriteCompletion, QuitImage, ImageDies
<1>3. CASE ResetWorkspace \/ OtherStep
  BY <1>1, <1>3 DEF ResetWorkspace, RemoveWorkspace, OtherStep
<1> QED
  BY <1>1, <1>2, <1>3 DEF GuiNext, guiVars

LEMMA GuiInvStep == GuiInv /\ [GuiNext]_guiVars => GuiInv'
<1> SUFFICES ASSUME GuiInv, [GuiNext]_guiVars PROVE GuiInv'
  OBVIOUS
<1>1. TypeOK' /\ provenance' \in Provenances
  BY GuiStepIsStep, TypeStep, ProvenanceType DEF GuiInv, GuiTypeOK
<1>2. ASSUME NEW g \in GuiProcs, LaunchStep(g) PROVE GuiInv'
  BY <1>1, <1>2, LockWorkspaceKeeps, RemovalForFreshKeeps, CreateForWorkspaceKeeps,
     PrepareWorkspaceKeeps, AttachWorkspaceKeeps, EndingsKeep, BindImageKeeps,
     StartImageKeeps, RecordOutcomeKeeps, ServiceKeeps DEF LaunchStep
<1>3. ASSUME NEW g \in GuiProcs, ImageStep(g) PROVE GuiInv'
  BY <1>1, <1>3, EditImageKeeps, ExportFromImageKeeps, WriteCompletionKeeps, ImageEndKeeps
     DEF ImageStep
<1>4. CASE UNCHANGED guiVars
  BY <1>1, <1>4, StandingKeeps DEF guiVars, vars, GuiInv, GuiTypeOK
<1> QED
  BY <1>1, <1>2, <1>3, <1>4, ResetWorkspaceKeeps, OtherStepKeeps DEF GuiNext

LEMMA GuiInvariant == GuiSpec => []GuiInv
BY GuiInvInit, GuiInvStep, PTL DEF GuiSpec

\* workspace.json, completion.json, the image file and every launch keep their
\* type: a launch never updates a workspace.json another command has removed.
THEOREM GuiTypeCorrect == GuiSpec => []GuiTypeOK
<1>1. GuiInv => GuiTypeOK
  BY DEF GuiInv
<1> QED
  BY <1>1, GuiInvariant, PTL

\* Everything launches, their images and the workspace's reset do to the staging
\* areas is what StagingArea allows, so all that is proved there holds of them.
THEOREM LaunchesUseAreasAsAllowed == GuiSpec => Spec
<1>1. GuiInit => Init
  BY DEF GuiInit
<1>2. GuiInv /\ [GuiNext]_guiVars => [Next]_vars
  BY GuiStepIsStep
<1> QED
  BY <1>1, <1>2, GuiInvariant, PTL DEF GuiSpec, Spec

\* The launches, images and resets of the GUI workspace never take away the
\* attachment of a live coordinator, a headless session's included.
THEOREM LaunchesLeaveLeases == GuiSpec => []LeaseHeld
BY LaunchesUseAreasAsAllowed, LeaseIsHeld, PTL
-----------------------------------------------------------------------------
(* Reservations.  That each is justified is not inductive: a launch must also
   work in the area workspace.json names, and find no reservation once it is
   attached or has discarded the workspace.                                   *)

NothingReserved == \A a \in Areas : ~Reserved(a)

\* The phases in which a launch holds the lease.
Attaching == {"leased", "bound", "running", "finishing"}

LaunchOwns(g) ==
    /\ launch[g].phase \in Prepared => workspace.area = launch[g].area
    /\ launch[g].phase \in Attaching => attached[g] = launch[g].area /\ NothingReserved
    /\ launch[g].phase = "released" => NothingReserved

JustifiedInv ==
    /\ GuiInv
    /\ LeaseInv
    /\ ReservationIsJustified
    /\ \A g \in GuiProcs : LaunchOwns(g)

\* A step that lets no GUI launch end reserves nothing.
LEMMA NoNewReservation ==
    ASSUME LeaseInv, [Next]_vars, alive' \cap GuiProcs = alive \cap GuiProcs,
           NEW a \in Areas, Reserved(a)'
    PROVE  Reserved(a)
<1> SUFFICES ASSUME ~Reserved(a) PROVE FALSE
  OBVIOUS
<1>0. TypeOK /\ TypeOK'
  BY TypeStep DEF LeaseInv
<1>1. LeaseOf(a)' # LeaseOf(a)
  BY DEF Reserved
<1>2. ~KeepsLeases
  BY <1>1 DEF KeepsLeases
<1>3. ASSUME NEW b \in Areas, AreaStep(b) PROVE FALSE
  <2>1. CASE ResetStaging(b)
    <3>1. LeaseOf(a)' \in {LeaseOf(a), NoLease}
      BY <1>0, <2>1 DEF ResetStaging, LeaseOf, Exists, TypeOK
    <3> QED BY <1>1, <3>1 DEF Reserved
  <2>2. CASE DiscardWorkspace(b)
    <3>1. LeaseOf(a)' \in {LeaseOf(a), NoLease}
      BY <1>0, <2>2, DiscardEffect
    <3> QED BY <1>1, <3>1 DEF Reserved
  <2> QED BY <1>0, <1>2, <1>3, <2>1, <2>2, AreaStepKeepsLeases DEF AreaStep
<1>4. ASSUME NEW p \in Procs, ProcStep(p) PROVE FALSE
  <2>1. ASSUME NEW b \in Areas, AcquireLease(p, b) PROVE FALSE
    <3>1. a = b /\ LeaseOf(a)' = NewLease(p)
      BY <1>0, <1>1, <2>1, AcquireEffect
    <3> QED BY <3>1, NewLeaseFields DEF Reserved
  <2>2. ASSUME NEW b \in Areas, AttachConflicted(p, b) PROVE FALSE
    BY <1>0, <1>2, <2>2, AttachConflictedKeepsLeases
  <2>3. ASSUME NEW dirty \in BOOLEAN, ReleaseLease(p, dirty) \/ (AbandonLease(p) /\ ~dirty)
        PROVE  FALSE
    <3>1. PICK b : b = attached[p]
      OBVIOUS
    <3>2. /\ p \in alive /\ alive' = alive \ {p}
          /\ dirty => p \in GuiProcs
          /\ LeaseOf(b)' = IF dirty THEN [NewLease(p) EXCEPT !.pid = NoPid, !.reserved = TRUE]
                           ELSE NoLease
          /\ \A c \in Areas \ {b} : LeaseOf(c)' = LeaseOf(c)
      BY <2>3, <3>1, ReleaseEffect
    <3>3. ~dirty
      BY <3>2
    <3> QED BY <1>1, <3>2, <3>3 DEF Reserved
  <2>4. ~(ServiceExport(p) \/ ServicePromote(p))
    <3> SUFFICES ASSUME ServiceExport(p) \/ ServicePromote(p) PROVE FALSE
      OBVIOUS
    <3>1. PICK b \in Areas : ReconcileStaging(b) \/ PromoteStaging(b)
      BY <1>0 DEF TypeOK, ServiceExport, ServicePromote
    <3> QED BY <1>0, <1>2, <3>1, AreaStepKeepsLeases
  <2>5. ~Exit(p)
    BY <1>2, ExitKeepsLeases
  <2>6. ~OrphanExit(p)
    BY <1>1 DEF OrphanExit, areaVars, LeaseOf, Exists
  <2> QED
    BY <1>4, <2>1, <2>2, <2>3, <2>4, <2>5, <2>6 DEF ProcStep
<1>5. ASSUME NEW path \in Paths, NEW value \in Contents \cup {Missing}, EditStep(path, value)
      PROVE  FALSE
  BY <1>2, <1>5, EditStepKeepsLeases
<1>6. ~UNCHANGED vars
  BY <1>1 DEF vars, areaVars, LeaseOf, Exists
<1> QED
  BY <1>3, <1>4, <1>5, <1>6 DEF Next

\* No step takes a live coordinator's image elsewhere.
LEMMA AttachedStays ==
    ASSUME TypeOK, [Next]_vars, NEW h \in Procs, h \in alive, h \in alive',
           attached[h] # NoArea
    PROVE  attached'[h] = attached[h]
<1>1. ASSUME NEW a \in Areas, AreaStep(a) PROVE attached' = attached
  BY <1>1 DEF AreaStep, CreateStaging, ResetStaging, RebaseStaging, ReconcileStaging,
              PromoteStaging, DiscardWorkspace
<1>2. ASSUME NEW p \in Procs, ProcStep(p) PROVE attached'[h] = attached[h]
  <2>1. ASSUME NEW a \in Areas, AcquireLease(p, a) PROVE attached'[h] = attached[h]
    <3>1. attached[p] = NoArea /\ attached' = [attached EXCEPT ![p] = a]
      BY <2>1 DEF AcquireLease, MayAttach
    <3> QED BY <3>1 DEF TypeOK
  <2>2. ASSUME NEW dirty \in BOOLEAN, ReleaseLease(p, dirty) PROVE attached'[h] = attached[h]
    <3>1. alive' = alive \ {p} /\ attached' = [attached EXCEPT ![p] = NoArea]
      BY <2>2 DEF ReleaseLease
    <3> QED BY <3>1 DEF TypeOK
  <2>3. CASE OrphanExit(p)
    <3>1. p \notin alive /\ attached' = [attached EXCEPT ![p] = NoArea]
      BY <2>3 DEF OrphanExit
    <3> QED BY <3>1 DEF TypeOK
  <2> QED
    BY <1>2, <2>1, <2>2, <2>3 DEF ProcStep, AttachConflicted, AbandonLease, ServiceExport,
       ServicePromote, ReconcileStaging, PromoteStaging, Exit
<1>3. ASSUME NEW path \in Paths, NEW value \in Contents \cup {Missing}, EditStep(path, value)
      PROVE  attached' = attached
  BY <1>3 DEF EditStep, EditSource, EditOverlay, ImageExport
<1> QED
  BY <1>1, <1>2, <1>3 DEF Next, vars

\* The launch g moves; the others are before the lock, or the workspace and the
\* reservations they rely on stay.
LEMMA OwnershipMoves ==
    ASSUME JustifiedInv, [Next]_vars, GuiInv', LeaseInv', ReservationIsJustified',
           NEW g \in GuiProcs, LaunchOwns(g)',
           \A h \in GuiProcs \ {g} : launch'[h] = launch[h],
           \/ \A h \in GuiProcs \ {g} : launch[h].phase = "start"
           \/ UNCHANGED workspace /\ (NothingReserved => NothingReserved')
    PROVE  JustifiedInv'
<1>1. "start" \notin Prepared /\ "start" \notin Attaching /\ Attaching \subseteq Prepared
  BY DEF Prepared, Attaching
<1>2. ASSUME NEW h \in GuiProcs PROVE LaunchOwns(h)'
  <2>1. CASE h = g
    BY <2>1
  <2>2. CASE h # g /\ launch[h].phase = "start"
    BY <1>1, <2>2 DEF LaunchOwns
  <2>3. CASE h # g /\ launch[h].phase # "start"
    <3>1. /\ launch'[h] = launch[h] /\ workspace' = workspace
          /\ NothingReserved => NothingReserved'
      BY <2>3
    <3>2. h \in alive /\ h \in alive' /\ h \in Procs
      BY <2>3, <3>1, ProcsAssumption DEF JustifiedInv, GuiInv, LaunchesSafe
    <3>3. ASSUME launch[h].phase \in Attaching PROVE attached'[h] = attached[h]
      <4>1. attached[h] = launch[h].area /\ launch[h].area \in Areas
        BY <1>1, <3>3, PreparedArea DEF JustifiedInv, LaunchOwns, GuiInv
      <4> QED BY <3>2, <4>1, AttachedStays, AreasAssumption DEF JustifiedInv, LeaseInv
    <3> QED BY <3>1, <3>3 DEF JustifiedInv, LaunchOwns
  <2> QED BY <2>1, <2>2, <2>3
<1> QED
  BY <1>2 DEF JustifiedInv

\* Steps during which no launch moves and workspace.json stays.
LEMMA OwnershipStays ==
    ASSUME JustifiedInv, [Next]_vars, GuiInv', LeaseInv',
           UNCHANGED <<launch, workspace>>, alive' \cap GuiProcs = alive \cap GuiProcs
    PROVE  JustifiedInv'
<1>1. LeaseInv /\ ReservationIsJustified /\ \A a \in Areas : Reserved(a)' => Reserved(a)
  BY NoNewReservation DEF JustifiedInv
<1>2. ReservationIsJustified'
  BY <1>1 DEF ReservationIsJustified, Pending
<1>3. NothingReserved => NothingReserved'
  BY <1>1 DEF NothingReserved
<1>4. ASSUME NEW g \in GuiProcs PROVE LaunchOwns(g)'
  <2>1. ASSUME launch[g].phase \in Attaching PROVE attached'[g] = attached[g]
    <3>1. launch[g].phase # "start" /\ launch[g].phase \in Prepared
      BY <2>1 DEF Attaching, Prepared
    <3>2. /\ g \in alive /\ g \in alive' /\ g \in Procs
          /\ attached[g] = launch[g].area /\ launch[g].area \in Areas
      BY <2>1, <3>1, PreparedArea, ProcsAssumption
         DEF JustifiedInv, LaunchOwns, GuiInv, LaunchesSafe
    <3> QED BY <3>2, AttachedStays, AreasAssumption DEF JustifiedInv, LeaseInv
  <2> QED BY <1>3, <2>1 DEF JustifiedInv, LaunchOwns
<1> QED
  BY <1>2, <1>4 DEF JustifiedInv


\* A launch past the lock is the only one there.
LEMMA AloneMoves ==
    ASSUME JustifiedInv, [Next]_vars, GuiInv', LeaseInv', ReservationIsJustified',
           NEW g \in GuiProcs, launch[g].phase # "start", LaunchOwns(g)',
           \A h \in GuiProcs \ {g} : launch'[h] = launch[h]
    PROVE  JustifiedInv'
<1>1. \A h \in GuiProcs \ {g} : launch[h].phase = "start"
  BY AloneWhenMoving DEF JustifiedInv, GuiInv
<1> QED
  BY <1>1, OwnershipMoves

\* A reservation is the GUI context's, and discarding the workspace of the only
\* area that can have one leaves none.
LEMMA DiscardLeavesNone ==
    ASSUME JustifiedInv, workspace # NoWorkspace, DiscardWorkspace(workspace.area)
    PROVE  NothingReserved'
<1>1. TypeOK /\ LeaseInv /\ workspace.area \in Areas /\ ReservationIsJustified
  BY WorkspaceArea DEF JustifiedInv, LeaseInv, GuiInv
<1>2. PICK a \in Areas : a = workspace.area
  BY <1>1
<1>3. /\ LeaseOf(a)' = IF ~Names(LeaseOf(a), GuiDefault) THEN LeaseOf(a) ELSE NoLease
      /\ \A b \in Areas \ {a} : LeaseOf(b)' = LeaseOf(b)
  BY <1>1, <1>2, DiscardEffect
<1>4. ASSUME NEW b \in Areas, b # a PROVE ~Reserved(b)'
  <2>1. ~Reserved(b)
    BY <1>1, <1>2, <1>4 DEF ReservationIsJustified
  <2> QED BY <1>3, <1>4, <2>1 DEF Reserved
<1>5. ~Reserved(a)'
  <2> SUFFICES ASSUME Reserved(a)' PROVE FALSE
    OBVIOUS
  <2>1. LeaseOf(a)' = LeaseOf(a) /\ ~Names(LeaseOf(a), GuiDefault) /\ LeaseOf(a) # NoLease
    BY <1>3 DEF Reserved
  <2>2. LeaseOf(a).reserved
    BY <2>1 DEF Reserved
  <2>3. LeaseOf(a).context = GuiDefault
    BY <1>1, <2>1, <2>2 DEF LeaseInv, LeaseShape, Context
  <2> QED BY <2>1, <2>3 DEF Names
<1> QED
  BY <1>4, <1>5 DEF NothingReserved

LEMMA EarlyPhasesJustified ==
    ASSUME JustifiedInv, [Next]_vars, GuiInv', LeaseInv', NEW g \in GuiProcs,
           LockWorkspace(g) \/ ReleaseForFresh(g) \/ RemoveForFresh(g)
    PROVE  JustifiedInv'
<1>1. GuiTypeOK
  BY DEF JustifiedInv, GuiInv
<1>2. ASSUME NEW phase \in {"locked", "released"}, Enter(g, phase)
      PROVE  /\ launch'[g].phase = phase
             /\ \A h \in GuiProcs \ {g} : launch'[h] = launch[h]
             /\ phase \notin Prepared \cup Attaching
  BY <1>1, <1>2, EnterEffect DEF Phases, Prepared, Attaching
<1>3. CASE LockWorkspace(g)
  <2>1. Enter(g, "locked") /\ UNCHANGED <<vars, workspace>>
    BY <1>3 DEF LockWorkspace
  <2>2. ReservationIsJustified' /\ (NothingReserved => NothingReserved')
    BY <2>1 DEF JustifiedInv, ReservationIsJustified, NothingReserved, Pending, Reserved,
                LeaseOf, Exists, vars, areaVars
  <2>3. LaunchOwns(g)'
    BY <1>2, <2>1 DEF LaunchOwns
  <2> QED BY <1>2, <2>1, <2>2, <2>3, OwnershipMoves
<1>4. CASE ReleaseForFresh(g)
  <2>1. Enter(g, "released") /\ UNCHANGED workspace /\ launch[g].phase # "start"
    BY <1>4 DEF ReleaseForFresh, In
  <2>2. NothingReserved'
    BY <1>4, DiscardLeavesNone DEF ReleaseForFresh
  <2>3. LaunchOwns(g)' /\ ReservationIsJustified'
    BY <1>2, <2>1, <2>2 DEF LaunchOwns, ReservationIsJustified, NothingReserved
  <2> QED BY <1>2, <2>1, <2>3, AloneMoves
<1>5. CASE RemoveForFresh(g)
  <2>1. Enter(g, "locked") /\ UNCHANGED vars /\ launch[g].phase = "released"
    BY <1>5 DEF RemoveForFresh, In
  <2>2. NothingReserved'
    BY <2>1 DEF JustifiedInv, LaunchOwns, NothingReserved, Reserved, LeaseOf, Exists, vars, areaVars
  <2>3. LaunchOwns(g)' /\ ReservationIsJustified'
    BY <1>2, <2>1, <2>2 DEF LaunchOwns, ReservationIsJustified, NothingReserved
  <2> QED BY <1>2, <2>1, <2>3, AloneMoves
<1> QED
  BY <1>3, <1>4, <1>5

LEMMA CorrectedFields ==
    ASSUME NEW ws \in Workspaces
    PROVE  /\ Corrected(ws).area = ws.area
           /\ Corrected(ws).completion = ws.completion
           /\ Corrected(ws).generation = ws.generation
BY DEF Corrected, Workspaces

LEMMA PrepareJustified ==
    ASSUME JustifiedInv, [Next]_vars, GuiInv', LeaseInv', NEW g \in GuiProcs,
           NEW a \in Areas, PrepareWorkspace(g, a)
    PROVE  JustifiedInv'
<1>1. /\ GuiTypeOK /\ launch[g].phase # "start" /\ UNCHANGED vars
      /\ ReservationIsJustified
  BY DEF JustifiedInv, GuiInv, PrepareWorkspace, In
<1>2. /\ launch'[g].phase = "prepared" /\ launch'[g].area = a
      /\ \A h \in GuiProcs \ {g} : launch'[h] = launch[h]
      /\ workspace' \in Workspaces
  BY <1>1, PrepareEffect
<1>3. \A b \in Areas : Reserved(b)' = Reserved(b)
  BY <1>1 DEF Reserved, LeaseOf, Exists, vars, areaVars
<1>4. workspace'.area = a /\ ReservationIsJustified'
  <2>1. CASE workspace = NoWorkspace
    <3>1. workspace'.area = a
      BY <2>1 DEF PrepareWorkspace, InitialWorkspace
    <3> QED BY <1>1, <1>3, <2>1, <3>1 DEF ReservationIsJustified
  <2>2. CASE workspace # NoWorkspace
    <3>1. workspace' = Corrected(workspace) /\ workspace \in Workspaces /\ workspace.area = a
      BY <1>1, <2>2 DEF PrepareWorkspace, GuiTypeOK
    <3>2. workspace'.area = a /\ workspace'.completion = workspace.completion
      BY <3>1, CorrectedFields
    <3>3. workspace' # NoWorkspace
      BY <1>2, NonesAssumption
    <3> QED BY <1>1, <1>3, <3>1, <3>2, <3>3 DEF ReservationIsJustified, Pending
  <2> QED BY <2>1, <2>2
<1>5. LaunchOwns(g)'
  BY <1>2, <1>4 DEF LaunchOwns, Attaching
<1> QED
  BY <1>1, <1>2, <1>4, <1>5, AloneMoves

LEMMA AttachJustified ==
    ASSUME JustifiedInv, [Next]_vars, GuiInv', LeaseInv', NEW g \in GuiProcs, AttachWorkspace(g)
    PROVE  JustifiedInv'
<1>0. g \in Procs /\ TypeOK /\ TypeOK'
  BY ProcsAssumption DEF JustifiedInv, LeaseInv
<1>1. /\ launch[g].phase = "prepared" /\ launch[g].area \in Areas
      /\ AcquireLease(g, launch[g].area)
      /\ launch'[g].phase = "leased" /\ launch'[g].area = launch[g].area
      /\ \A h \in GuiProcs \ {g} : launch'[h] = launch[h]
  BY <1>0, AttachEffect DEF JustifiedInv
<1>2. workspace.area = launch[g].area /\ ReservationIsJustified /\ workspace' = workspace
  BY <1>1 DEF JustifiedInv, LaunchOwns, Prepared, AttachWorkspace
<1>3. PICK a \in Areas : a = launch[g].area
  BY <1>1
<1>4. /\ attached' = [attached EXCEPT ![g] = a]
      /\ LeaseOf(a)' = NewLease(g)
      /\ \A b \in Areas \ {a} : LeaseOf(b)' = LeaseOf(b)
  BY <1>0, <1>1, <1>3, AcquireEffect
<1>5. ~Reserved(a)'
  BY <1>0, <1>4, NewLeaseFields DEF Reserved
<1>6. ASSUME NEW b \in Areas, b # a PROVE ~Reserved(b)'
  <2>1. ~Reserved(b)
    BY <1>2, <1>3, <1>6 DEF ReservationIsJustified
  <2> QED BY <1>4, <1>6, <2>1 DEF Reserved
<1>7. NothingReserved' /\ ReservationIsJustified'
  BY <1>5, <1>6 DEF NothingReserved, ReservationIsJustified
<1>8. attached'[g] = a
  BY <1>0, <1>4 DEF TypeOK
<1>9. LaunchOwns(g)'
  BY <1>1, <1>2, <1>3, <1>7, <1>8 DEF LaunchOwns
<1> QED
  BY <1>1, <1>7, <1>9, AloneMoves

\* The launch that holds the lease goes on; the areas stay as they are.
LEMMA AdvancingJustified ==
    ASSUME JustifiedInv, [Next]_vars, GuiInv', LeaseInv', NEW g \in GuiProcs,
           BindImage(g) \/ KeepImage(g) \/ StartImage(g) \/ RecordOutcome(g)
    PROVE  JustifiedInv'
<1>1. /\ GuiTypeOK /\ LaunchesSafe /\ UNCHANGED vars
      /\ launch[g].phase \in {"leased", "bound", "running"}
  BY DEF JustifiedInv, GuiInv, BindImage, KeepImage, StartImage, RecordOutcome, In
<1>2. launch[g].phase \in Attaching \cap Prepared /\ launch[g].phase # "start"
  BY <1>1 DEF Attaching, Prepared
<1>3. /\ launch'[g].phase \in Attaching \cap Prepared /\ launch'[g].phase # "released"
      /\ launch'[g].area = launch[g].area
      /\ \A h \in GuiProcs \ {g} : launch'[h] = launch[h]
  <2>1. CASE BindImage(g)
    BY <1>1, <2>1, BindEffect DEF Attaching, Prepared
  <2>2. CASE KeepImage(g) \/ StartImage(g) \/ RecordOutcome(g)
    <3>1. PICK phase \in {"bound", "running", "finishing"} : Enter(g, phase)
      BY <2>2 DEF KeepImage, StartImage, RecordOutcome
    <3>2. phase \in Phases /\ phase \in Attaching \cap Prepared /\ phase # "released"
      BY DEF Phases, Attaching, Prepared
    <3> QED BY <1>1, <3>1, <3>2, EnterEffect
  <2> QED BY <2>1, <2>2
<1>4. workspace'.area = workspace.area
  <2>1. workspace \in Workspaces
    BY <1>1, <1>2, PreparedArea DEF GuiTypeOK
  <2> QED BY <2>1 DEF BindImage, KeepImage, StartImage, RecordOutcome, Workspaces
<1>5. NothingReserved'
  BY <1>1, <1>2 DEF JustifiedInv, LaunchOwns, NothingReserved, Reserved, LeaseOf, Exists,
                    vars, areaVars
<1>6. ReservationIsJustified'
  BY <1>5 DEF NothingReserved, ReservationIsJustified
<1>7. LaunchOwns(g)'
  BY <1>1, <1>2, <1>3, <1>4, <1>5 DEF JustifiedInv, LaunchOwns, vars
<1> QED
  BY <1>2, <1>3, <1>6, <1>7, AloneMoves

\* What the end of a launch reserves: the area of a workspace with changes
\* pending, or nothing.
LEMMA EndingReserves ==
    ASSUME JustifiedInv, NEW g \in GuiProcs,
           \/ AttachFails(g) \/ LaunchFails(g) \/ BindFails(g) \/ RefuseReload(g)
           \/ ForeignCompletion(g) \/ FinishLaunch(g) \/ ServiceFails(g) \/ LeaveEarly(g),
           NEW a \in Areas, Reserved(a)'
    PROVE  \/ Reserved(a)
           \/ launch[g].phase # "start" /\ workspace # NoWorkspace /\ workspace.area = a /\ Pending
<1>0. g \in Procs /\ LeaseInv /\ TypeOK /\ LaunchesSafe
  BY ProcsAssumption DEF JustifiedInv, LeaseInv, GuiInv
<1>1. ASSUME KeepsLeases PROVE Reserved(a)
  BY <1>1 DEF KeepsLeases, Reserved
<1>2. ASSUME NEW dirty \in BOOLEAN, ReleaseLease(g, dirty) \/ (AbandonLease(g) /\ ~dirty)
      PROVE  Reserved(a) \/ (dirty /\ a = attached[g])
  <2>1. PICK b : b = attached[g]
    OBVIOUS
  <2>2. /\ LeaseOf(b)' = IF dirty THEN [NewLease(g) EXCEPT !.pid = NoPid, !.reserved = TRUE]
                         ELSE NoLease
        /\ \A c \in Areas \ {b} : LeaseOf(c)' = LeaseOf(c)
    BY <1>0, <1>2, <2>1, ReleaseEffect
  <2>3. CASE a # b
    BY <2>2, <2>3 DEF Reserved
  <2>4. CASE a = b
    BY <2>1, <2>2, <2>4 DEF Reserved
  <2> QED BY <2>3, <2>4
<1>3. CASE AttachFails(g)
  <2>1. launch[g].area \in Areas /\ AttachConflicted(g, launch[g].area)
    BY <1>0, <1>3, PreparedArea DEF AttachFails, In, Prepared
  <2> QED BY <1>0, <1>1, <2>1, AttachConflictedKeepsLeases
<1>4. CASE LeaveEarly(g)
  BY <1>1, <1>4, ExitKeepsLeases DEF LeaveEarly
<1>5. CASE LaunchFails(g) \/ BindFails(g) \/ ForeignCompletion(g)
  <2>1. ReleaseLease(g, FALSE)
    BY <1>5 DEF LaunchFails, BindFails, ForeignCompletion
  <2> QED BY <1>2, <2>1
<1>6. CASE ServiceFails(g)
  BY <1>2, <1>6 DEF ServiceFails
<1>7. CASE RefuseReload(g) \/ FinishLaunch(g)
  <2>1. PICK dirty \in BOOLEAN : dirty = Pending
    BY DEF Pending
  <2>2. ReleaseLease(g, dirty)
    <3>1. MustRefuse(g) => Pending
      BY DEF MustRefuse
    <3> QED BY <1>7, <2>1, <3>1 DEF RefuseReload, FinishLaunch
  <2>3. launch[g].phase \in Attaching \cap Prepared /\ launch[g].phase # "start"
    BY <1>7 DEF RefuseReload, FinishLaunch, In, Attaching, Prepared
  <2>4. workspace # NoWorkspace /\ attached[g] = launch[g].area /\ workspace.area = launch[g].area
    BY <1>0, <2>3, PreparedArea DEF JustifiedInv, LaunchOwns
  <2> QED BY <1>2, <2>1, <2>2, <2>3, <2>4
<1> QED
  BY <1>3, <1>4, <1>5, <1>6, <1>7

LEMMA EndingJustified ==
    ASSUME JustifiedInv, [Next]_vars, GuiInv', LeaseInv', NEW g \in GuiProcs,
           \/ AttachFails(g) \/ LaunchFails(g) \/ BindFails(g) \/ RefuseReload(g)
           \/ ForeignCompletion(g) \/ FinishLaunch(g) \/ ServiceFails(g) \/ LeaveEarly(g)
    PROVE  JustifiedInv'
<1>1. Leave(g) /\ UNCHANGED workspace
  BY DEF AttachFails, LaunchFails, BindFails, RefuseReload, ForeignCompletion, FinishLaunch,
         ServiceFails, LeaveEarly
<1>2. launch'[g].phase = "start" /\ \A h \in GuiProcs \ {g} : launch'[h] = launch[h]
  BY <1>1, LeaveEffect DEF JustifiedInv, GuiInv
<1>3. ReservationIsJustified'
  BY <1>1, EndingReserves DEF JustifiedInv, ReservationIsJustified, Pending
<1>4. LaunchOwns(g)'
  BY <1>2 DEF LaunchOwns, Prepared, Attaching
<1>5. CASE launch[g].phase = "start"
  <2>1. NothingReserved => NothingReserved'
    BY <1>5, EndingReserves DEF NothingReserved
  <2> QED BY <1>1, <1>2, <1>3, <1>4, <2>1, OwnershipMoves
<1>6. CASE launch[g].phase # "start"
  BY <1>2, <1>3, <1>4, <1>6, AloneMoves
<1> QED
  BY <1>5, <1>6

LEMMA ResetJustified ==
    ASSUME JustifiedInv, [Next]_vars, GuiInv', LeaseInv', ResetWorkspace
    PROVE  JustifiedInv'
<1>1. UNCHANGED launch /\ LaunchesSafe
  BY DEF JustifiedInv, GuiInv, ResetWorkspace
<1>2. NothingReserved'
  BY DiscardLeavesNone DEF ResetWorkspace
<1>3. ReservationIsJustified'
  BY <1>2 DEF NothingReserved, ReservationIsJustified
<1>4. \A g \in GuiProcs : launch'[g].phase = "start"
  BY <1>1 DEF ResetWorkspace, LaunchesSafe
<1>5. \A g \in GuiProcs : LaunchOwns(g)'
  BY <1>4 DEF LaunchOwns, Prepared, Attaching
<1> QED
  BY <1>3, <1>5 DEF JustifiedInv

LEMMA JustifiedStep == JustifiedInv /\ [GuiNext]_guiVars => JustifiedInv'
<1> SUFFICES ASSUME JustifiedInv, [GuiNext]_guiVars PROVE JustifiedInv'
  OBVIOUS
<1>1. [Next]_vars /\ GuiInv' /\ LeaseInv'
  BY GuiStepIsStep, GuiInvStep, LeaseInvStep DEF JustifiedInv
<1>2. ASSUME UNCHANGED <<launch, workspace>>, alive' \cap GuiProcs = alive \cap GuiProcs
      PROVE  JustifiedInv'
  BY <1>1, <1>2, OwnershipStays
<1>3. ASSUME NEW g \in GuiProcs, LaunchStep(g) PROVE JustifiedInv'
  <2>1. ASSUME NEW a \in Areas, CreateForWorkspace(g, a) PROVE JustifiedInv'
    BY <1>2, <2>1 DEF CreateForWorkspace, CreateStaging
  <2>2. CASE ServiceRequest(g) \/ NoOrphan(g)
    BY <1>2, <2>2 DEF ServiceRequest, ServiceExport, ServicePromote, ReconcileStaging,
                      PromoteStaging, NoOrphan, OrphanExit
  <2> QED
    BY <1>1, <1>3, <2>1, <2>2, EarlyPhasesJustified, PrepareJustified, AttachJustified,
       AdvancingJustified, EndingJustified DEF LaunchStep
<1>4. ASSUME NEW g \in GuiProcs, ImageStep(g) PROVE JustifiedInv'
  <2>1. UNCHANGED <<launch, workspace, alive>>
    BY <1>4 DEF ImageStep, EditImage, ExportFromImage, ImageExport, WriteCompletion, QuitImage,
                ImageDies, ImageEnds, OrphanExit, vars
  <2> QED BY <1>2, <2>1
<1>5. CASE OtherStep
  BY <1>2, <1>5, OthersKeepLaunchesAlive DEF OtherStep
<1>6. CASE UNCHANGED guiVars
  BY <1>2, <1>6 DEF guiVars, vars
<1> QED
  BY <1>1, <1>3, <1>4, <1>5, <1>6, ResetJustified DEF GuiNext

LEMMA JustifiedInit == GuiInit => JustifiedInv
<1> SUFFICES ASSUME GuiInit PROVE JustifiedInv
  OBVIOUS
<1>1. GuiInv /\ LeaseInv
  BY GuiInvInit, LeaseInvInit DEF GuiInit
<1>2. ReservationIsJustified
  BY DEF GuiInit, Init, ReservationIsJustified, Reserved, LeaseOf, Exists
<1>3. \A g \in GuiProcs : launch[g].phase = "start"
  BY DEF GuiInit, NewLaunch
<1> QED
  BY <1>1, <1>2, <1>3 DEF JustifiedInv, LaunchOwns, Prepared, Attaching

\* A reservation always stands for a saved workspace that names the area and
\* has unexported changes: no launch, reset, failure or crash leaves an area
\* locked for a GUI that will not come back for it.
THEOREM ReservationsAreJustified == GuiSpec => []ReservationIsJustified
<1>1. JustifiedInv => ReservationIsJustified
  BY DEF JustifiedInv
<1> QED
  BY <1>1, JustifiedInit, JustifiedStep, PTL DEF GuiSpec
-----------------------------------------------------------------------------
(* Reloads.  That a bind finds no unexported changes the last completion is
   silent about needs what completions, images and the image file have to do
   with each other.                                                           *)

\* The completions in completion.json and workspace.json.
OnFile ==
    {c \in Completions : \/ c = completion
                         \/ workspace # NoWorkspace /\ c = workspace.completion}

\* The phases before a launch has started its image.
Early == {"start", "locked", "released", "prepared", "leased", "bound"}

\* A completion on file that says "saved" is that of an image about to quit in
\* the state it reports, or of one that has quit; then the image file, if that
\* image saved it, has no changes the completion does not report.
SavesAreTrue ==
    \A c \in OnFile : c.state = "saved" =>
        /\ run[c.session] # NoImage =>
               run[c.session].quitting = "saved" /\ run[c.session].dirty = c.dirty
        /\ image # NoImage /\ image.savedBy = c.session /\ image.dirty => c.dirty

\* Only a session leaves changes in the image file, and only at its end.
SavedAtEnd ==
    image # NoImage =>
        /\ image.dirty => image.savedBy # NoPid
        /\ \A g \in GuiProcs : image.savedBy = g => run[g] = NoImage

\* A launch that has not started its image has left nothing behind.
NotStarted ==
    \A g \in GuiProcs :
        g \in alive /\ launch[g].phase \in Early =>
            /\ run[g] = NoImage
            /\ image # NoImage => image.savedBy # g
            /\ \A c \in OnFile : c.session # g

\* A launch that has written workspace.json itself finds no completion in it.
NewIsEmpty ==
    \A g \in GuiProcs :
        launch[g].phase \in {"prepared", "leased"} /\ launch[g].initialized =>
            workspace.completion = NoCompletion

SaveInv == GuiInv /\ SavesAreTrue /\ SavedAtEnd /\ NotStarted /\ NewIsEmpty
-----------------------------------------------------------------------------
(* What steps leave alone.                                                    *)

\* Nobody comes back to life.
LEMMA AliveShrinks ==
    ASSUME [Next]_vars
    PROVE  alive' \subseteq alive
<1>1. ASSUME NEW a \in Areas, AreaStep(a) PROVE alive' = alive
  BY <1>1 DEF AreaStep, CreateStaging, ResetStaging, RebaseStaging, ReconcileStaging,
              PromoteStaging, DiscardWorkspace
<1>2. ASSUME NEW p \in Procs, ProcStep(p) PROVE alive' \subseteq alive
  BY <1>2 DEF ProcStep, AcquireLease, AttachConflicted, ReleaseLease, AbandonLease,
              ServiceExport, ReconcileStaging, ServicePromote, PromoteStaging, Exit, OrphanExit
<1>3. ASSUME NEW path \in Paths, NEW value \in Contents \cup {Missing}, EditStep(path, value)
      PROVE  alive' = alive
  BY <1>3 DEF EditStep, EditSource, EditOverlay, ImageExport
<1> QED
  BY <1>1, <1>2, <1>3 DEF Next, vars

\* The image file is as it was, or gone, or holds no changes and is nobody's or
\* its last writer's.
Harmless ==
    \/ image' = image
    \/ image' = NoImage
    \/ /\ image' \in Images /\ ~image'.dirty
       /\ \/ image'.savedBy = NoPid
          \/ image # NoImage /\ image'.savedBy = image.savedBy

\* Steps at which no image runs, starts or ends and no completion is added.
LEMMA SavesStay ==
    ASSUME GuiTypeOK, SavesAreTrue, SavedAtEnd, OnFile' \subseteq OnFile, run' = run, Harmless
    PROVE  SavesAreTrue' /\ SavedAtEnd'
<1>1. NoPid \notin GuiProcs
  BY ProcsAssumption
<1>2. \A c \in OnFile : c.session \in GuiProcs
  BY DEF OnFile, Completions
<1>3. CASE image' = image \/ image' = NoImage
  BY <1>3 DEF SavesAreTrue, SavedAtEnd
<1>4. CASE image' \in Images /\ ~image'.dirty /\ image'.savedBy = NoPid
  BY <1>1, <1>2, <1>4 DEF SavesAreTrue, SavedAtEnd
<1>5. CASE image' \in Images /\ ~image'.dirty /\ image # NoImage /\ image'.savedBy = image.savedBy
  BY <1>1, <1>2, <1>5 DEF SavesAreTrue, SavedAtEnd
<1> QED
  BY <1>3, <1>4, <1>5 DEF Harmless

\* A launch goes on through its early phases, or ends.
StaysEarly ==
    \A h \in GuiProcs : h \in alive' /\ launch'[h].phase \in Early => launch[h].phase \in Early

LEMMA StartsStay ==
    ASSUME NotStarted, alive' \subseteq alive, StaysEarly,
           OnFile' \subseteq OnFile, run' = run, Harmless
    PROVE  NotStarted'
<1>1. NoPid \notin GuiProcs
  BY ProcsAssumption
<1> SUFFICES ASSUME NEW h \in GuiProcs, h \in alive', launch'[h].phase \in Early
             PROVE  /\ run'[h] = NoImage
                    /\ image' # NoImage => image'.savedBy # h
                    /\ \A c \in OnFile' : c.session # h
  BY DEF NotStarted
<1>2. h \in alive /\ launch[h].phase \in Early
  BY DEF StaysEarly
<1>3. /\ run[h] = NoImage
      /\ image # NoImage => image.savedBy # h
      /\ \A c \in OnFile : c.session # h
  BY <1>2 DEF NotStarted
<1> QED
  BY <1>1, <1>3 DEF Harmless

\* No launch prepares or attaches, and workspace.json is as it was where one has.
KeepsNew ==
    \A h \in GuiProcs :
        launch'[h].phase \in {"prepared", "leased"} =>
            launch'[h] = launch[h] /\ workspace' = workspace

LEMMA NewStays ==
    ASSUME NewIsEmpty, KeepsNew
    PROVE  NewIsEmpty'
BY DEF NewIsEmpty, KeepsNew

\* What removes the workspace removes its completions.
LEMMA FileEffects ==
    ASSUME workspace' = workspace \/ workspace' = NoWorkspace,
           completion' \in {completion, NoCompletion}
    PROVE  OnFile' \subseteq OnFile
BY NonesAssumption DEF OnFile

\* Steps that move no launch and end none.
LEMMA StillKeeps ==
    ASSUME SaveInv, GuiInv', alive' \subseteq alive, UNCHANGED <<launch, workspace, completion, image, run>>
    PROVE  SaveInv'
<1>1. OnFile' = OnFile /\ Harmless
  BY DEF OnFile, Harmless
<1>2. StaysEarly /\ KeepsNew
  BY DEF StaysEarly, KeepsNew
<1> QED
  BY <1>1, <1>2, SavesStay, StartsStay, NewStays DEF SaveInv, GuiInv

\* One launch moves; no image does anything.
LEMMA MovingSaves ==
    ASSUME SaveInv, GuiInv', alive' \subseteq alive, NEW g \in GuiProcs,
           \A h \in GuiProcs \ {g} : launch'[h] = launch[h],
           launch[g].phase \in Early \/ g \notin alive',
           launch'[g].phase \notin {"prepared", "leased"},
           \/ UNCHANGED workspace
           \/ workspace' = NoWorkspace /\ launch[g].phase # "start",
           completion' \in {completion, NoCompletion}, run' = run, Harmless
    PROVE  SaveInv'
<1>1. OnFile' \subseteq OnFile
  BY FileEffects
<1>2. StaysEarly
  BY DEF StaysEarly
<1>3. KeepsNew
  <2>1. CASE workspace' = workspace
    BY <2>1 DEF KeepsNew
  <2>2. CASE launch[g].phase # "start"
    <3>1. \A h \in GuiProcs \ {g} : launch[h].phase = "start"
      BY <2>2, AloneWhenMoving DEF SaveInv, GuiInv
    <3> QED BY <3>1 DEF KeepsNew
  <2> QED BY <2>1, <2>2
<1> QED
  BY <1>1, <1>2, <1>3, SavesStay, StartsStay, NewStays DEF SaveInv, GuiInv

LEMMA EarlyStepsSave ==
    ASSUME SaveInv, GuiInv', alive' \subseteq alive, NEW g \in GuiProcs,
           \/ LockWorkspace(g) \/ ReleaseForFresh(g) \/ RemoveForFresh(g) \/ BindImage(g)
           \/ KeepImage(g)
    PROVE  SaveInv'
<1>1. GuiTypeOK /\ TypeOK /\ LaunchesSafe
  BY DEF SaveInv, GuiInv, GuiTypeOK
<1>2. /\ launch[g].phase \in Early
      /\ completion' \in {completion, NoCompletion} /\ run' = run
      /\ \/ UNCHANGED workspace
         \/ workspace' = NoWorkspace /\ launch[g].phase # "start"
  BY DEF LockWorkspace, ReleaseForFresh, RemoveForFresh, RemoveWorkspace, BindImage, KeepImage,
         In, Early
<1>3. Harmless
  <2>1. CASE BindImage(g)
    <3>1. launch[g].area \in Areas
      BY <1>1, <2>1, PreparedArea DEF BindImage, In, Prepared
    <3>2. image' \in Images /\ ~image'.dirty /\ image'.savedBy = NoPid
      BY <1>1, <2>1, <3>1 DEF BindImage, Images, TypeOK
    <3> QED BY <3>2 DEF Harmless
  <2>2. CASE ~BindImage(g)
    BY <2>2 DEF LockWorkspace, ReleaseForFresh, RemoveForFresh, RemoveWorkspace, KeepImage,
                Harmless
  <2> QED BY <2>1, <2>2
<1>4. /\ launch'[g].phase \in {"locked", "released", "bound"}
      /\ \A h \in GuiProcs \ {g} : launch'[h] = launch[h]
  <2>1. CASE BindImage(g)
    BY <1>1, <2>1, BindEffect
  <2>2. CASE ~BindImage(g)
    <3>1. PICK phase \in {"locked", "released", "bound"} : Enter(g, phase)
      BY <2>2 DEF LockWorkspace, ReleaseForFresh, RemoveForFresh, KeepImage
    <3> QED BY <1>1, <3>1, EnterEffect DEF Phases, Prepared
  <2> QED BY <2>1, <2>2
<1> QED
  BY <1>2, <1>3, <1>4, MovingSaves

LEMMA EndingSaves ==
    ASSUME SaveInv, GuiInv', alive' \subseteq alive, NEW g \in GuiProcs,
           \/ AttachFails(g) \/ LaunchFails(g) \/ BindFails(g) \/ RefuseReload(g)
           \/ ForeignCompletion(g) \/ FinishLaunch(g) \/ ServiceFails(g) \/ LeaveEarly(g)
    PROVE  SaveInv'
<1>1. /\ Leave(g) /\ UNCHANGED <<workspace, image, run>>
      /\ completion' \in {completion, NoCompletion}
  BY DEF AttachFails, LaunchFails, BindFails, RefuseReload, ForeignCompletion, FinishLaunch,
         ServiceFails, LeaveEarly
<1>2. alive' = alive \ {g}
  BY DEF AttachFails, LaunchFails, BindFails, RefuseReload, ForeignCompletion, FinishLaunch,
         ServiceFails, LeaveEarly, AttachConflicted, ReleaseLease, AbandonLease, Exit
<1>3. launch'[g].phase = "start" /\ \A h \in GuiProcs \ {g} : launch'[h] = launch[h]
  BY <1>1, LeaveEffect DEF SaveInv, GuiInv
<1> QED
  BY <1>1, <1>2, <1>3, MovingSaves DEF Harmless

LEMMA ResetSaves ==
    ASSUME SaveInv, GuiInv', alive' \subseteq alive, ResetWorkspace
    PROVE  SaveInv'
<1>1. /\ workspace' = NoWorkspace /\ completion' = NoCompletion /\ image' = NoImage
      /\ UNCHANGED <<run, launch>>
  BY DEF ResetWorkspace, RemoveWorkspace
<1>2. OnFile' \subseteq OnFile /\ Harmless /\ StaysEarly
  BY <1>1, FileEffects DEF Harmless, StaysEarly
<1>3. KeepsNew
  BY <1>1 DEF KeepsNew, ResetWorkspace, SaveInv, GuiInv, LaunchesSafe
<1> QED
  BY <1>1, <1>2, <1>3, SavesStay, StartsStay, NewStays DEF SaveInv, GuiInv

\* A new workspace.json has no completion; an existing one keeps its own.
LEMMA PrepareSaves ==
    ASSUME SaveInv, GuiInv', alive' \subseteq alive, NEW g \in GuiProcs, NEW a \in Areas,
           PrepareWorkspace(g, a)
    PROVE  SaveInv'
<1>1. /\ GuiTypeOK /\ LaunchesSafe /\ launch[g].phase = "locked" /\ run' = run
      /\ completion' = completion
  BY DEF SaveInv, GuiInv, PrepareWorkspace, In
<1>2. /\ workspace' \in Workspaces
      /\ launch'[g].phase = "prepared"
      /\ \A h \in GuiProcs \ {g} : launch'[h] = launch[h]
  BY <1>1, PrepareEffect
<1>3. /\ workspace = NoWorkspace => workspace'.completion = NoCompletion
      /\ workspace # NoWorkspace => workspace'.completion = workspace.completion
  <2>1. workspace # NoWorkspace => workspace \in Workspaces
    BY <1>1 DEF GuiTypeOK
  <2> QED BY <2>1, CorrectedFields DEF PrepareWorkspace, InitialWorkspace
<1>4. OnFile' \subseteq OnFile
  BY <1>1, <1>3, NonesAssumption DEF OnFile
<1>5. Harmless
  <2>1. CanonicalImage \in Images /\ ~CanonicalImage.dirty /\ CanonicalImage.savedBy = NoPid
    BY CanonicalImageType DEF CanonicalImage
  <2>2. image' = CanonicalImage \/ image' = image
    BY DEF PrepareWorkspace
  <2> QED BY <2>1, <2>2 DEF Harmless
<1>6. StaysEarly
  BY <1>1, <1>2 DEF StaysEarly, Early
<1>7. NewIsEmpty'
  <2>1. \A h \in GuiProcs \ {g} : launch'[h].phase = "start"
    BY <1>1, <1>2, AloneWhenMoving
  <2>2. launch'[g].initialized = (workspace = NoWorkspace)
    <3>1. launch' = [launch EXCEPT ![g] =
              [launch[g] EXCEPT !.phase = "prepared", !.area = a,
                                !.initialized = (workspace = NoWorkspace),
                                !.loaded = workspace'.generation]]
      BY DEF PrepareWorkspace
    <3>2. launch[g] \in Launches
      BY <1>1 DEF GuiTypeOK
    <3>3. launch'[g] =
              [launch[g] EXCEPT !.phase = "prepared", !.area = a,
                                !.initialized = (workspace = NoWorkspace),
                                !.loaded = workspace'.generation]
      BY <1>1, <3>1 DEF GuiTypeOK
    <3> QED BY <3>2, <3>3 DEF Launches
  <2> QED BY <1>3, <2>1, <2>2 DEF NewIsEmpty
<1> QED
  BY <1>1, <1>4, <1>5, <1>6, <1>7, SavesStay, StartsStay DEF SaveInv, GuiInv

LEMMA AttachSaves ==
    ASSUME SaveInv, GuiInv', alive' \subseteq alive, NEW g \in GuiProcs, AttachWorkspace(g)
    PROVE  SaveInv'
<1>1. /\ GuiTypeOK /\ GuiTypeOK' /\ TypeOK'
      /\ UNCHANGED <<workspace, completion, image, run>>
  BY DEF SaveInv, GuiInv, GuiTypeOK, AttachWorkspace
<1>2. /\ launch[g].phase = "prepared" /\ launch'[g].phase = "leased"
      /\ \A h \in GuiProcs \ {g} : launch'[h] = launch[h]
  BY <1>1, AttachEffect DEF SaveInv
<1>3. OnFile' = OnFile /\ Harmless
  BY <1>1 DEF OnFile, Harmless
<1>4. StaysEarly
  BY <1>2 DEF StaysEarly, Early
<1>5. launch'[g].initialized = launch[g].initialized
  BY <1>1 DEF AttachWorkspace, GuiTypeOK, Launches
<1>6. NewIsEmpty'
  BY <1>1, <1>2, <1>5 DEF SaveInv, NewIsEmpty
<1> QED
  BY <1>1, <1>3, <1>4, <1>6, SavesStay, StartsStay DEF SaveInv, GuiInv

-----------------------------------------------------------------------------
(* The steps of an image.                                                     *)

\* The image starts: no completion is its own, and the file it starts from was
\* saved by another.
LEMMA StartSaves ==
    ASSUME SaveInv, GuiInv', alive' \subseteq alive, NEW g \in GuiProcs, StartImage(g)
    PROVE  SaveInv'
<1>1. /\ GuiTypeOK /\ LaunchesSafe /\ g \in alive /\ launch[g].phase = "bound"
      /\ UNCHANGED <<completion, image>>
  BY DEF SaveInv, GuiInv, StartImage, In
<1>2. /\ launch'[g].phase = "running"
      /\ \A h \in GuiProcs \ {g} : launch'[h] = launch[h]
  BY <1>1, EnterEffect DEF StartImage, Phases, Prepared
<1>3. workspace' # NoWorkspace => workspace # NoWorkspace /\ workspace'.completion = workspace.completion
  <2>1. workspace \in Workspaces
    BY <1>1, PreparedArea DEF GuiTypeOK, Prepared
  <2> QED BY <2>1, NonesAssumption DEF StartImage, Workspaces
<1>4. OnFile' \subseteq OnFile
  BY <1>1, <1>3 DEF OnFile
<1>5. \A h \in GuiProcs \ {g} : run'[h] = run[h] /\ launch'[h].phase = "start"
  <2>1. \A h \in GuiProcs \ {g} : launch'[h].phase = "start"
    BY <1>1, <1>2, AloneWhenMoving
  <2> QED BY <1>1, <2>1 DEF StartImage, GuiTypeOK
<1>6. /\ image # NoImage => image.savedBy # g
      /\ \A c \in OnFile : c.session # g
  BY <1>1 DEF SaveInv, NotStarted, Early
<1>7. \A c \in OnFile : c.session \in GuiProcs
  BY DEF OnFile, Completions
<1>8. SavesAreTrue'
  BY <1>1, <1>4, <1>5, <1>6, <1>7 DEF SaveInv, SavesAreTrue
<1>9. SavedAtEnd'
  BY <1>1, <1>5, <1>6 DEF SaveInv, SavedAtEnd
<1>10. NotStarted'
  BY <1>1, <1>2, <1>4, <1>5 DEF SaveInv, NotStarted, Early
<1>11. NewIsEmpty'
  BY <1>2, <1>5 DEF NewIsEmpty
<1> QED
  BY <1>8, <1>9, <1>10, <1>11 DEF SaveInv

\* The outcome is the completion the image wrote, or says "abnormal".
LEMMA OutcomeSaves ==
    ASSUME SaveInv, GuiInv', alive' \subseteq alive, NEW g \in GuiProcs, RecordOutcome(g)
    PROVE  SaveInv'
<1>1. /\ GuiTypeOK /\ LaunchesSafe /\ launch[g].phase = "running" /\ run[g] = NoImage
      /\ UNCHANGED <<completion, image, run>> /\ Outcome(g).session = g
  BY DEF SaveInv, GuiInv, RecordOutcome, In
<1>2. /\ launch'[g].phase = "finishing"
      /\ \A h \in GuiProcs \ {g} : launch'[h] = launch[h]
  BY <1>1, EnterEffect DEF RecordOutcome, Phases, Prepared
<1>3. \A h \in GuiProcs \ {g} : launch'[h].phase = "start"
  BY <1>1, <1>2, AloneWhenMoving
<1>4. workspace'.completion = Outcome(g)
  <2>1. workspace \in Workspaces
    BY <1>1, PreparedArea DEF GuiTypeOK, Prepared
  <2> QED BY <2>1 DEF RecordOutcome, Workspaces
<1>5. \A c \in OnFile' : c \in OnFile \/ (c.session = g /\ c.state # "saved")
  BY <1>1, <1>4 DEF OnFile, Outcome
<1>6. SavesAreTrue'
  BY <1>1, <1>5 DEF SaveInv, SavesAreTrue
<1>7. SavedAtEnd'
  BY <1>1 DEF SaveInv, SavedAtEnd
<1>8. NotStarted'
  BY <1>1, <1>2, <1>5 DEF SaveInv, NotStarted, Early
<1>9. NewIsEmpty'
  BY <1>2, <1>3 DEF NewIsEmpty
<1> QED
  BY <1>6, <1>7, <1>8, <1>9 DEF SaveInv

\* An image at work is started, and has written no completion.
LEMMA WorkingHasNoSave ==
    ASSUME SaveInv, NEW g \in GuiProcs, Working(g)
    PROVE  /\ ~(g \in alive /\ launch[g].phase \in Early)
           /\ image # NoImage => image.savedBy # g
           /\ \A c \in OnFile : c.state = "saved" => c.session # g
BY DEF SaveInv, NotStarted, SavedAtEnd, SavesAreTrue, Working

\* What the image at work does to itself, and to the file it started from, is
\* of no account to completions.
LEMMA WorkingSaves ==
    ASSUME SaveInv, GuiInv', NEW g \in GuiProcs, Working(g),
           UNCHANGED <<alive, workspace, completion, launch>>,
           \A h \in GuiProcs \ {g} : run'[h] = run[h],
           Harmless, image = NoImage => image' = NoImage
    PROVE  SaveInv'
<1>1. OnFile' = OnFile
  BY DEF OnFile
<1>2. NoPid \notin GuiProcs /\ \A c \in OnFile : c.session \in GuiProcs
  BY ProcsAssumption DEF OnFile, Completions
<1>3. /\ ~(g \in alive /\ launch[g].phase \in Early)
      /\ image # NoImage => image.savedBy # g
      /\ \A c \in OnFile : c.state = "saved" => c.session # g
  BY WorkingHasNoSave
<1>4. image' # NoImage =>
          /\ image # NoImage
          /\ image'.dirty => image' = image
          /\ image'.savedBy \in {NoPid, image.savedBy}
  BY DEF Harmless
<1>5. SavesAreTrue'
  <2> SUFFICES ASSUME NEW c \in OnFile, c.state = "saved"
               PROVE  /\ run'[c.session] # NoImage =>
                             run'[c.session].quitting = "saved" /\ run'[c.session].dirty = c.dirty
                      /\ image' # NoImage /\ image'.savedBy = c.session /\ image'.dirty => c.dirty
    BY <1>1 DEF SavesAreTrue
  <2> QED BY <1>2, <1>3, <1>4 DEF SaveInv, SavesAreTrue
<1>6. SavedAtEnd'
  BY <1>2, <1>3, <1>4 DEF SaveInv, SavedAtEnd
<1>7. NotStarted'
  BY <1>1, <1>2, <1>3, <1>4 DEF SaveInv, NotStarted
<1>8. NewIsEmpty'
  BY DEF SaveInv, NewIsEmpty
<1> QED
  BY <1>5, <1>6, <1>7, <1>8 DEF SaveInv

LEMMA EditsSave ==
    ASSUME SaveInv, GuiInv', NEW g \in GuiProcs,
           \/ EditImage(g)
           \/ \E path \in Paths, value \in Contents \cup {Missing} : ExportFromImage(g, path, value)
    PROVE  SaveInv'
<1>1. /\ GuiTypeOK /\ Working(g) /\ UNCHANGED <<alive, workspace, completion, launch>>
      /\ \A h \in GuiProcs \ {g} : run'[h] = run[h]
  BY DEF SaveInv, GuiInv, GuiTypeOK, EditImage, ExportFromImage, ImageExport, vars
<1>2. Harmless /\ (image = NoImage => image' = NoImage)
  <2>1. image # NoImage =>
            /\ [image EXCEPT !.dirty = FALSE] \in Images
            /\ ~[image EXCEPT !.dirty = FALSE].dirty
            /\ [image EXCEPT !.dirty = FALSE].savedBy = image.savedBy
    BY <1>1 DEF GuiTypeOK, Images
  <2> QED BY <2>1 DEF EditImage, ExportFromImage, Harmless
<1> QED
  BY <1>1, <1>2, WorkingSaves

\* The completion says what the image that writes it holds.
LEMMA CompletionSaves ==
    ASSUME SaveInv, GuiInv', NEW g \in GuiProcs, NEW state \in {"saved", "discarded"},
           WriteCompletion(g, state)
    PROVE  SaveInv'
<1>1. /\ GuiTypeOK /\ Working(g) /\ UNCHANGED <<alive, workspace, image, launch>>
      /\ run[g] \in Runs
  BY DEF SaveInv, GuiInv, GuiTypeOK, WriteCompletion, Working, vars
<1>2. /\ completion'.session = g /\ completion'.state = state
      /\ completion'.dirty = run[g].dirty
  BY DEF WriteCompletion
<1>3. /\ run'[g] # NoImage /\ run'[g].quitting = state /\ run'[g].dirty = run[g].dirty
      /\ \A h \in GuiProcs \ {g} : run'[h] = run[h]
  <2>1. [run[g] EXCEPT !.quitting = state] \in Runs
    BY <1>1, RunUpdate
  <2>2. run'[g] = [run[g] EXCEPT !.quitting = state]
    BY <1>1 DEF WriteCompletion, GuiTypeOK
  <2>3. run'[g] # NoImage
    BY <2>1, <2>2, NonesAssumption
  <2> QED BY <1>1, <2>2, <2>3 DEF WriteCompletion, GuiTypeOK, Runs
<1>4. \A c \in OnFile' : c = completion' \/ c \in OnFile
  BY <1>1 DEF OnFile
<1>5. /\ ~(g \in alive /\ launch[g].phase \in Early)
      /\ image # NoImage => image.savedBy # g
      /\ \A c \in OnFile : c.state = "saved" => c.session # g
  BY <1>1, WorkingHasNoSave
<1>6. \A c \in OnFile : c.session \in GuiProcs
  BY DEF OnFile, Completions
<1>7. SavesAreTrue'
  <2> SUFFICES ASSUME NEW c \in OnFile', c.state = "saved"
               PROVE  /\ run'[c.session] # NoImage =>
                             run'[c.session].quitting = "saved" /\ run'[c.session].dirty = c.dirty
                      /\ image # NoImage /\ image.savedBy = c.session /\ image.dirty => c.dirty
    BY <1>1 DEF SavesAreTrue
  <2>1. CASE c = completion'
    BY <1>2, <1>3, <1>5, <2>1
  <2>2. CASE c \in OnFile
    BY <1>3, <1>5, <1>6, <2>2 DEF SaveInv, SavesAreTrue
  <2> QED BY <1>4, <2>1, <2>2
<1>8. SavedAtEnd'
  BY <1>1, <1>3, <1>5 DEF SaveInv, SavedAtEnd
<1>9. NotStarted'
  BY <1>1, <1>2, <1>3, <1>4, <1>5 DEF SaveInv, NotStarted
<1>10. NewIsEmpty'
  BY <1>1 DEF SaveInv, NewIsEmpty
<1> QED
  BY <1>7, <1>8, <1>9, <1>10 DEF SaveInv

\* The image ends; if it saves, the file holds what its completion said.
LEMMA EndSaves ==
    ASSUME SaveInv, GuiInv', NEW g \in GuiProcs, QuitImage(g) \/ ImageDies(g)
    PROVE  SaveInv'
<1>1. /\ GuiTypeOK /\ run[g] \in Runs
      /\ run' = [run EXCEPT ![g] = NoImage]
      /\ UNCHANGED <<alive, workspace, completion, launch>>
  BY DEF SaveInv, GuiInv, GuiTypeOK, QuitImage, ImageDies, ImageEnds, OrphanExit, vars
<1>2. run[g] # NoImage /\ run'[g] = NoImage /\ \A h \in GuiProcs \ {g} : run'[h] = run[h]
  BY <1>1, NonesAssumption DEF GuiTypeOK
<1>3. OnFile' = OnFile /\ \A c \in OnFile : c.session \in GuiProcs
  BY <1>1 DEF OnFile, Completions
<1>4. ~(g \in alive /\ launch[g].phase \in Early)
  BY <1>2 DEF SaveInv, NotStarted
<1>5. NoPid # g
  BY ProcsAssumption
<1>6. CASE image' = image
  <2>1. SavesAreTrue'
    BY <1>2, <1>3, <1>6 DEF SaveInv, SavesAreTrue
  <2>2. SavedAtEnd'
    BY <1>2, <1>6 DEF SaveInv, SavedAtEnd
  <2>3. NotStarted' /\ NewIsEmpty'
    BY <1>1, <1>2, <1>3, <1>6 DEF SaveInv, NotStarted, NewIsEmpty
  <2> QED BY <2>1, <2>2, <2>3 DEF SaveInv
<1>7. CASE image' # image
  <2>1. /\ image'.savedBy = g /\ image'.dirty = run[g].dirty
        /\ run[g].quitting = "saved"
    BY <1>7 DEF QuitImage, ImageDies
  <2>2. SavesAreTrue'
    <3> SUFFICES ASSUME NEW c \in OnFile, c.state = "saved"
                 PROVE  /\ run'[c.session] # NoImage =>
                               run'[c.session].quitting = "saved" /\ run'[c.session].dirty = c.dirty
                        /\ image'.savedBy = c.session /\ image'.dirty => c.dirty
      BY <1>3 DEF SavesAreTrue
    <3>1. /\ run[c.session] # NoImage =>
                 run[c.session].quitting = "saved" /\ run[c.session].dirty = c.dirty
      BY DEF SaveInv, SavesAreTrue
    <3> QED BY <1>2, <1>3, <2>1, <3>1
  <2>3. SavedAtEnd'
    BY <1>2, <1>5, <2>1 DEF SavedAtEnd
  <2>4. NotStarted' /\ NewIsEmpty'
    BY <1>1, <1>2, <1>3, <1>4, <2>1 DEF SaveInv, NotStarted, NewIsEmpty
  <2> QED BY <2>2, <2>3, <2>4 DEF SaveInv
<1> QED
  BY <1>6, <1>7
-----------------------------------------------------------------------------
LEMMA SaveInit == GuiInit => SaveInv
<1> SUFFICES ASSUME GuiInit PROVE SaveInv
  OBVIOUS
<1>1. GuiInv
  BY GuiInvInit
<1>2. OnFile = {}
  BY NonesAssumption DEF GuiInit, OnFile
<1>3. \A g \in GuiProcs : launch[g].phase = "start" /\ run[g] = NoImage
  BY DEF GuiInit, NewLaunch
<1> QED
  BY <1>1, <1>2, <1>3 DEF GuiInit, SaveInv, SavesAreTrue, SavedAtEnd, NotStarted, NewIsEmpty

LEMMA SaveStep == SaveInv /\ [GuiNext]_guiVars => SaveInv'
<1> SUFFICES ASSUME SaveInv, [GuiNext]_guiVars PROVE SaveInv'
  OBVIOUS
<1>1. GuiInv' /\ alive' \subseteq alive
  BY GuiStepIsStep, GuiInvStep, AliveShrinks DEF SaveInv
<1>2. ASSUME NEW g \in GuiProcs, LaunchStep(g) PROVE SaveInv'
  <2>1. ASSUME NEW a \in Areas, CreateForWorkspace(g, a) PROVE SaveInv'
    BY <1>1, <2>1, StillKeeps DEF CreateForWorkspace
  <2>2. CASE ServiceRequest(g) \/ NoOrphan(g)
    BY <1>1, <2>2, StillKeeps DEF ServiceRequest, NoOrphan
  <2> QED
    BY <1>1, <1>2, <2>1, <2>2, EarlyStepsSave, EndingSaves, PrepareSaves, AttachSaves,
       StartSaves, OutcomeSaves DEF LaunchStep
<1>3. ASSUME NEW g \in GuiProcs, ImageStep(g) PROVE SaveInv'
  BY <1>1, <1>3, EditsSave, CompletionSaves, EndSaves DEF ImageStep
<1>4. CASE OtherStep
  BY <1>1, <1>4, StillKeeps DEF OtherStep
<1>5. CASE UNCHANGED guiVars
  BY <1>1, <1>5, StillKeeps DEF guiVars
<1> QED
  BY <1>1, <1>2, <1>3, <1>4, <1>5, ResetSaves DEF GuiNext

\* Loading the overlay into the image never overwrites unexported changes that
\* the orderly save the workspace remembers has left in it, whatever orphans of
\* earlier launches and failures have done since.
THEOREM ReloadsSpareSavedChanges == GuiSpec => ReloadSparesSavedChanges
<1> DEFINE Spared == \A g \in GuiProcs :
                         BindImage(g) /\ image.dirty /\ Accounted =>
                             workspace.completion.state # "saved"
<1>1. SaveInv => Spared
  <2> SUFFICES ASSUME SaveInv, NEW g \in GuiProcs, BindImage(g), image.dirty, Accounted,
                      workspace.completion.state = "saved"
               PROVE  FALSE
    OBVIOUS
  <2>1. /\ GuiTypeOK /\ LaunchesSafe /\ WorkspaceHasImage /\ launch[g].phase = "leased"
        /\ ~MustRefuse(g) /\ (launch[g].initialized \/ GenerationMoved(g))
    BY DEF SaveInv, GuiInv, BindImage, In
  <2>2. workspace # NoWorkspace /\ workspace \in Workspaces /\ image # NoImage
    BY <2>1, PreparedArea DEF Prepared, WorkspaceHasImage, GuiTypeOK
  <2>3. image.savedBy # NoPid
    BY <2>2 DEF SaveInv, SavedAtEnd
  <2>4. /\ workspace.completion # NoCompletion
        /\ workspace.completion.session = image.savedBy
    BY <2>3 DEF Accounted
  <2>5. workspace.completion \in OnFile
    BY <2>2, <2>4 DEF OnFile, Workspaces
  <2>6. workspace.completion.dirty
    BY <2>2, <2>4, <2>5 DEF SaveInv, SavesAreTrue
  <2>7. ~launch[g].initialized
    BY <2>1, <2>4 DEF SaveInv, NewIsEmpty
  <2> QED BY <2>1, <2>4, <2>6, <2>7 DEF MustRefuse, Pending
<1> QED
  BY <1>1, SaveInit, SaveStep, PTL DEF GuiSpec, ReloadSparesSavedChanges
-----------------------------------------------------------------------------
(* What an image started at a known generation holds.  workspace.json vouches
   for the image file only if the generation it records and the commit the file
   was loaded at were those of the area at the same time; that this survives
   exports, rebases and saves rests on commits being new when they are made.  *)

\* As long as a record r at HEAD h has the generation n and names that HEAD, an
\* image with commit l has all of it; r has not gone back behind n.
Vouches(r, h, n, l) ==
    /\ n <= r.generation
    /\ r.generation = n /\ r.headCommit = h => l = h

\* The commits of the image file and of the images a launch waits for.
Held == {image.loaded} \cup {run[g].loaded : g \in {h \in GuiProcs \cap alive : run[h] # NoImage}}

InPlace == provenance # "unknown" => workspace # NoWorkspace /\ Exists(workspace.area)

RecordedVouches ==
    provenance = "recorded" =>
        \A l \in Held :
            Vouches(record[workspace.area], head[workspace.area], workspace.generation, l)

\* The generations a launch compares are the one workspace.json records and one
\* its area has had; once the image is bound they agree.
LaunchKnows(g) ==
    LET a == launch[g].area
    IN  /\ launch[g].phase \in {"prepared", "leased"} =>
               launch[g].loaded = workspace.generation
        /\ launch[g].phase \in {"leased", "bound"} =>
               launch[g].current <= record[a].generation
        /\ launch[g].phase = "bound" =>
               /\ launch[g].loaded = launch[g].current
               /\ provenance = "recorded" => launch[g].loaded = workspace.generation
               /\ provenance = "bound" =>
                      Vouches(record[a], head[a], launch[g].current, image.loaded)

ProvenanceHolds == InPlace /\ RecordedVouches /\ \A g \in GuiProcs : LaunchKnows(g)

ProvInv == JustifiedInv /\ SaveInv /\ CommitInv /\ ProvenanceHolds

\* What vouches for an image goes on vouching for it while the area exists.
LEMMA VouchesStay ==
    ASSUME CommitInv, [Next]_vars, NEW a \in Areas, Exists(a), Exists(a)',
           NEW n \in Nat, NEW l, Vouches(record[a], head[a], n, l)
    PROVE  Vouches(record'[a], head'[a], n, l)
<1>1. TypeOK /\ TypeOK' /\ Advances(record[a], record'[a]) /\ CommitsAreNew /\ CommitsMade
  BY TypeStep, StepAdvances, StepCommits DEF CommitInv, AllAdvance
<1>2. /\ record[a].generation \in Nat /\ record'[a].generation \in Nat
      /\ commits \in Nat /\ record[a].headCommit \in Nat /\ record[a].headCommit <= commits
  <2>1. record[a] \in Records /\ record'[a] \in Records
    BY <1>1 DEF Exists, TypeOK
  <2> QED BY <1>1, <2>1 DEF Records, TypeOK, CommitsMade
<1>3. head'[a] # head[a] => head'[a] = commits + 1
  BY <1>1 DEF CommitsAreNew
<1> QED
  BY <1>1, <1>2, <1>3 DEF Vouches, Advances

LEMMA GenerationStays ==
    ASSUME TypeOK, [Next]_vars, NEW a \in Areas, Exists(a), Exists(a)',
           NEW n \in Nat, n <= record[a].generation
    PROVE  n <= record'[a].generation
<1>1. TypeOK' /\ Advances(record[a], record'[a])
  BY TypeStep, StepAdvances DEF AllAdvance
<1>2. record[a] \in Records /\ record'[a] \in Records
  BY <1>1 DEF Exists, TypeOK
<1> QED
  BY <1>1, <1>2 DEF Records, Advances

\* A launch past its attachment works in the area workspace.json names, and the
\* area exists.
LEMMA AttachingArea ==
    ASSUME JustifiedInv, NEW g \in GuiProcs, launch[g].phase \in Attaching
    PROVE  /\ g \in alive /\ attached[g] = launch[g].area
           /\ launch[g].area \in Areas /\ Exists(launch[g].area)
           /\ workspace \in Workspaces /\ workspace.area = launch[g].area
<1>1. GuiTypeOK /\ LaunchesSafe /\ LeaseHeld
  BY DEF JustifiedInv, GuiInv, LeaseInv
<1>2. launch[g].phase \in Prepared /\ launch[g].phase # "start"
  BY DEF Attaching, Prepared
<1>3. g \in alive /\ launch[g].area \in Areas /\ workspace \in Workspaces
  BY <1>1, <1>2, PreparedArea DEF LaunchesSafe, GuiTypeOK
<1>4. attached[g] = launch[g].area /\ workspace.area = launch[g].area
  BY <1>2 DEF JustifiedInv, LaunchOwns
<1>5. Exists(launch[g].area)
  BY <1>1, <1>3, <1>4, AreasAssumption DEF LeaseHeld
<1> QED
  BY <1>3, <1>4, <1>5

\* The area of a launch that goes on holding its lease.
LEMMA AttachedAreaStays ==
    ASSUME JustifiedInv, JustifiedInv', NEW g \in GuiProcs, launch'[g] = launch[g],
           launch[g].phase \in Attaching
    PROVE  Exists(launch[g].area) /\ Exists(launch[g].area)'
<1>1. g \in alive' /\ attached'[g] = launch[g].area /\ LeaseHeld'
  <2>1. launch'[g].phase # "start" /\ launch'[g].phase \in Attaching
    BY DEF Attaching
  <2> QED BY <2>1 DEF JustifiedInv, GuiInv, LaunchesSafe, LaunchOwns, LeaseInv
<1>2. launch[g].area \in Areas /\ Exists(launch[g].area)
  BY AttachingArea
<1> QED
  BY <1>1, <1>2, AreasAssumption DEF LeaseHeld

\* A launch that does not move knows what it knew.
LEMMA LaunchStillKnows ==
    ASSUME ProvInv, JustifiedInv', [Next]_vars, NEW g \in GuiProcs,
           launch'[g] = launch[g], workspace' = workspace,
           provenance' \in {provenance, "unknown"},
           launch[g].phase = "bound" /\ provenance' # "unknown" => image'.loaded = image.loaded
    PROVE  LaunchKnows(g)'
<1> DEFINE a == launch[g].area
<1>1. /\ JustifiedInv /\ CommitInv /\ TypeOK /\ LaunchKnows(g) /\ launch[g] \in Launches
  BY DEF ProvInv, ProvenanceHolds, CommitInv, JustifiedInv, GuiInv, GuiTypeOK
<1>2. launch[g].current \in Nat
  BY <1>1 DEF Launches
<1>3. ASSUME launch[g].phase \in {"leased", "bound"}
      PROVE  /\ a \in Areas /\ Exists(a) /\ record[a] # NoRecord /\ record'[a] # NoRecord
             /\ Exists(a)'
  <2>1. launch[g].phase \in Attaching
    BY <1>3 DEF Attaching
  <2>2. a \in Areas /\ Exists(a) /\ Exists(a)'
    BY <1>1, <2>1, AttachingArea, AttachedAreaStays
  <2> QED BY <2>2 DEF Exists
<1>4. launch[g].phase \in {"prepared", "leased"} => launch'[g].loaded = workspace'.generation
  BY <1>1 DEF LaunchKnows
<1>5. ASSUME launch[g].phase \in {"leased", "bound"}
      PROVE  launch'[g].current <= record'[launch'[g].area].generation
  <2>1. PICK b \in Areas : b = a
    BY <1>3, <1>5
  <2>2. PICK n \in Nat : n = launch[g].current
    BY <1>2
  <2>3. n <= record[b].generation
    BY <1>1, <1>5, <2>1, <2>2 DEF LaunchKnows
  <2>4. n <= record'[b].generation
    BY <1>1, <1>3, <1>5, <2>1, <2>3, GenerationStays DEF Exists
  <2> QED BY <2>1, <2>2, <2>4
<1>6. ASSUME launch[g].phase = "bound"
      PROVE  /\ launch'[g].loaded = launch'[g].current
             /\ provenance' = "recorded" => launch'[g].loaded = workspace'.generation
             /\ provenance' = "bound" =>
                    Vouches(record'[launch'[g].area], head'[launch'[g].area],
                            launch'[g].current, image'.loaded)
  <2>1. launch'[g].loaded = launch'[g].current
    BY <1>1, <1>6 DEF LaunchKnows
  <2>2. provenance' = "recorded" => launch'[g].loaded = workspace'.generation
    BY <1>1, <1>6 DEF LaunchKnows
  <2>3. ASSUME provenance' = "bound"
        PROVE  Vouches(record'[launch'[g].area], head'[launch'[g].area],
                       launch'[g].current, image'.loaded)
    <3>1. PICK b \in Areas : b = a
      BY <1>3, <1>6
    <3>2. PICK n \in Nat : n = launch[g].current
      BY <1>2
    <3>3. PICK l : l = image.loaded
      OBVIOUS
    <3>4. Vouches(record[b], head[b], n, l)
      BY <1>1, <1>6, <2>3, <3>1, <3>2, <3>3 DEF LaunchKnows
    <3>5. Vouches(record'[b], head'[b], n, l)
      BY <1>1, <1>3, <1>6, <3>1, <3>4, VouchesStay DEF Exists
    <3> QED BY <1>6, <2>3, <3>1, <3>2, <3>3, <3>5
  <2> QED BY <2>1, <2>2, <2>3
<1> QED
  BY <1>4, <1>5, <1>6 DEF LaunchKnows

\* Launches before their preparation compare nothing yet.
LEMMA IdleKnows ==
    ASSUME NEW g \in GuiProcs,
           launch'[g].phase \notin {"prepared", "leased", "bound"}
    PROVE  LaunchKnows(g)'
BY DEF LaunchKnows

\* A launch past the lock is alone there.
LEMMA OthersAreIdle ==
    ASSUME ProvInv, NEW g \in GuiProcs, launch[g].phase # "start",
           \A h \in GuiProcs \ {g} : launch'[h] = launch[h]
    PROVE  \A h \in GuiProcs \ {g} : launch'[h].phase = "start" /\ LaunchKnows(h)'
<1>1. \A h \in GuiProcs \ {g} : launch'[h].phase = "start"
  BY AloneWhenMoving DEF ProvInv, SaveInv, GuiInv
<1> QED
  BY <1>1, IdleKnows

\* The generation on record goes on vouching for what is held.
LEMMA RecordStillVouches ==
    ASSUME ProvInv, [Next]_vars, AreasStay,
           provenance' = "recorded" => provenance = "recorded",
           provenance' = "recorded" =>
               /\ workspace'.area = workspace.area
               /\ workspace'.generation = workspace.generation
               /\ Held' \subseteq Held \cup {head'[workspace.area]}
    PROVE  RecordedVouches'
<1> SUFFICES ASSUME provenance' = "recorded", NEW l \in Held'
             PROVE  Vouches(record'[workspace.area], head'[workspace.area],
                            workspace.generation, l)
  BY DEF RecordedVouches
<1>1. /\ CommitInv /\ TypeOK /\ GuiTypeOK /\ RecordedVouches /\ provenance = "recorded"
      /\ workspace # NoWorkspace /\ Exists(workspace.area)
  BY DEF ProvInv, ProvenanceHolds, InPlace, CommitInv, SaveInv, GuiInv
<1>2. PICK a \in Areas : a = workspace.area
  BY <1>1, WorkspaceArea
<1>3. PICK n \in Nat : n = workspace.generation
  BY <1>1 DEF GuiTypeOK, Workspaces
<1>4. Exists(a) /\ record'[a] # NoRecord
  BY <1>1, <1>2 DEF AreasStay, Exists
<1>5. CASE l \in Held
  <2>1. PICK m : m = l
    OBVIOUS
  <2>2. Vouches(record[a], head[a], n, m)
    BY <1>1, <1>2, <1>3, <1>5, <2>1 DEF RecordedVouches
  <2>3. Vouches(record'[a], head'[a], n, m)
    BY <1>1, <1>4, <2>2, VouchesStay DEF Exists
  <2> QED BY <1>2, <1>3, <2>1, <2>3
<1>6. CASE l = head'[a]
  <2>1. Vouches(record[a], head[a], n, image.loaded)
    BY <1>1, <1>2, <1>3 DEF RecordedVouches, Held
  <2>2. n <= record[a].generation
    BY <2>1 DEF Vouches
  <2>3. n <= record'[a].generation
    BY <1>1, <1>4, <2>2, GenerationStays DEF Exists
  <2> QED BY <1>2, <1>3, <1>6, <2>3 DEF Vouches
<1> QED
  BY <1>2, <1>5, <1>6

LEMMA InPlaceStays ==
    ASSUME ProvInv, AreasStay,
           provenance' # "unknown" =>
               /\ provenance # "unknown"
               /\ workspace' # NoWorkspace /\ workspace'.area = workspace.area
    PROVE  InPlace'
<1> SUFFICES ASSUME provenance' # "unknown" PROVE Exists(workspace.area)'
  BY DEF InPlace
<1>1. workspace # NoWorkspace /\ Exists(workspace.area) /\ workspace.area \in Areas
  BY WorkspaceArea DEF ProvInv, ProvenanceHolds, InPlace, SaveInv, GuiInv
<1>2. PICK a \in Areas : a = workspace.area
  BY <1>1
<1>3. Exists(a)'
  BY <1>1, <1>2 DEF AreasStay
<1> QED
  BY <1>2, <1>3 DEF Exists

\* No image starts, saves or exports.
LEMMA HeldShrinks ==
    ASSUME alive' \subseteq alive, image'.loaded = image.loaded,
           \A g \in GuiProcs :
               run'[g] # NoImage => run[g] # NoImage /\ run'[g].loaded = run[g].loaded
    PROVE  Held' \subseteq Held
BY DEF Held

\* workspace.json stays, and launches stay where they are or go where they
\* compare nothing.
LEMMA StandingKnows ==
    ASSUME ProvInv, JustifiedInv', [Next]_vars, AreasStay,
           \A g \in GuiProcs : \/ launch'[g] = launch[g]
                               \/ launch'[g].phase \notin {"prepared", "leased", "bound"},
           workspace' = workspace,
           provenance' \in {provenance, "unknown"},
           provenance' = "recorded" => Held' \subseteq Held \cup {head'[workspace.area]},
           \A g \in GuiProcs : launch[g].phase = "bound" /\ provenance' # "unknown" =>
               image'.loaded = image.loaded
    PROVE  ProvenanceHolds'
<1>1. InPlace'
  <2>1. provenance # "unknown" => workspace # NoWorkspace
    BY DEF ProvInv, ProvenanceHolds, InPlace
  <2> QED BY <2>1, InPlaceStays
<1>2. RecordedVouches'
  BY RecordStillVouches
<1>3. \A g \in GuiProcs : LaunchKnows(g)'
  BY LaunchStillKnows, IdleKnows
<1> QED
  BY <1>1, <1>2, <1>3 DEF ProvenanceHolds

\* The launch ends; or it is before the lock, or released, and only then is the
\* workspace removed.
LEMMA EndingKnows ==
    ASSUME ProvInv, JustifiedInv', [Next]_vars, AreasStay, alive' \subseteq alive, NEW g \in GuiProcs,
           \/ LockWorkspace(g) \/ ReleaseForFresh(g) \/ RemoveForFresh(g)
           \/ AttachFails(g) \/ LaunchFails(g) \/ BindFails(g) \/ RefuseReload(g)
           \/ ForeignCompletion(g) \/ FinishLaunch(g) \/ ServiceFails(g) \/ LeaveEarly(g)
    PROVE  ProvenanceHolds'
<1>1. GuiTypeOK
  BY DEF ProvInv, SaveInv, GuiInv
<1>2. /\ launch'[g].phase \in {"start", "locked", "released"}
      /\ \A h \in GuiProcs \ {g} : launch'[h] = launch[h]
  <2>1. \/ Leave(g)
        \/ \E phase \in {"locked", "released"} : Enter(g, phase)
    BY DEF LockWorkspace, ReleaseForFresh, RemoveForFresh, AttachFails, LaunchFails, BindFails,
           RefuseReload, ForeignCompletion, FinishLaunch, ServiceFails, LeaveEarly
  <2>2. {"locked", "released"} \subseteq Phases
    BY DEF Phases
  <2> QED BY <1>1, <2>1, <2>2, EnterEffect, LeaveEffect
<1>3. CASE RemoveForFresh(g)
  <2>1. provenance' = "unknown" /\ launch[g].phase # "start"
    BY <1>3 DEF RemoveForFresh, RemoveWorkspace, In
  <2>2. \A h \in GuiProcs : LaunchKnows(h)'
    BY <1>2, <2>1, OthersAreIdle, IdleKnows
  <2> QED BY <2>1, <2>2 DEF ProvenanceHolds, InPlace, RecordedVouches
<1>4. CASE ~RemoveForFresh(g)
  <2>1. UNCHANGED <<workspace, image, run, provenance>>
    BY <1>4 DEF LockWorkspace, ReleaseForFresh, AttachFails, LaunchFails, BindFails,
       RefuseReload, ForeignCompletion, FinishLaunch, ServiceFails, LeaveEarly
  <2>2. Held' \subseteq Held
    BY <2>1, HeldShrinks
  <2> QED BY <1>2, <2>1, <2>2, StandingKnows
<1> QED
  BY <1>3, <1>4

LEMMA PrepareKnows ==
    ASSUME ProvInv, JustifiedInv', [Next]_vars, AreasStay, NEW g \in GuiProcs, NEW a \in Areas,
           PrepareWorkspace(g, a)
    PROVE  ProvenanceHolds'
<1>1. /\ GuiTypeOK /\ launch[g].phase = "locked" /\ InPlace
      /\ UNCHANGED <<alive, run, provenance>>
  BY DEF ProvInv, SaveInv, GuiInv, ProvenanceHolds, PrepareWorkspace, In, vars
<1>2. /\ workspace' \in Workspaces /\ workspace' # NoWorkspace
      /\ launch'[g].phase = "prepared"
      /\ \A h \in GuiProcs \ {g} : launch'[h] = launch[h]
  BY <1>1, PrepareEffect, NonesAssumption
<1>3. launch'[g].loaded = workspace'.generation
  <2>1. launch[g] \in Launches
    BY <1>1 DEF GuiTypeOK
  <2> QED BY <1>1, <2>1 DEF PrepareWorkspace, GuiTypeOK, Launches
<1>4. provenance' # "unknown" =>
          /\ workspace'.area = workspace.area
          /\ workspace'.generation = workspace.generation
          /\ image' = image
  <2> SUFFICES ASSUME provenance # "unknown"
               PROVE  /\ workspace'.area = workspace.area
                      /\ workspace'.generation = workspace.generation
                      /\ image' = image
    BY <1>1
  <2>1. workspace # NoWorkspace /\ workspace \in Workspaces
    BY <1>1 DEF InPlace, GuiTypeOK
  <2> QED BY <2>1, CorrectedFields DEF PrepareWorkspace
<1>5. provenance' = "recorded" => Held' \subseteq Held
  BY <1>1, <1>4, HeldShrinks
<1>6. InPlace' /\ RecordedVouches'
  BY <1>1, <1>2, <1>4, <1>5, InPlaceStays, RecordStillVouches
<1>7. LaunchKnows(g)'
  BY <1>2, <1>3 DEF LaunchKnows
<1> QED
  BY <1>1, <1>2, <1>6, <1>7, OthersAreIdle DEF ProvenanceHolds

LEMMA AttachKnows ==
    ASSUME ProvInv, JustifiedInv', [Next]_vars, AreasStay, alive' \subseteq alive,
           NEW g \in GuiProcs, AttachWorkspace(g)
    PROVE  ProvenanceHolds'
<1>1. /\ GuiTypeOK /\ TypeOK' /\ launch[g].phase = "prepared" /\ LaunchKnows(g) /\ InPlace
      /\ launch[g] \in Launches
      /\ UNCHANGED <<workspace, image, run, provenance>>
  BY DEF ProvInv, SaveInv, GuiInv, GuiTypeOK, ProvenanceHolds, AttachWorkspace, In,
         JustifiedInv, LeaseInv
<1>2. /\ launch'[g].phase = "leased" /\ launch'[g].area = launch[g].area
      /\ \A h \in GuiProcs \ {g} : launch'[h] = launch[h]
  BY <1>1, AttachEffect DEF ProvInv, SaveInv
<1>3. launch'[g].loaded = launch[g].loaded /\ launch'[g].current = record'[launch[g].area].generation
  BY <1>1 DEF AttachWorkspace, GuiTypeOK, Launches
<1>4. record'[launch[g].area].generation \in Nat
  <2>1. launch'[g].phase \in Attaching /\ LeaseHeld' /\ LaunchesSafe' /\ LaunchOwns(g)'
    BY <1>2 DEF Attaching, JustifiedInv, LeaseInv, GuiInv
  <2>2. launch'[g].phase # "start" /\ launch'[g].phase \in Prepared
    BY <1>2 DEF Prepared
  <2>3. /\ g \in alive' /\ attached'[g] = launch'[g].area /\ launch'[g].area \in Areas
    BY <2>1, <2>2 DEF LaunchesSafe, LaunchOwns
  <2>4. record'[launch[g].area] # NoRecord /\ launch[g].area \in Areas
    BY <1>2, <2>1, <2>3, AreasAssumption DEF LeaseHeld, Exists
  <2>5. record'[launch[g].area] \in Records
    BY <1>1, <2>4 DEF TypeOK
  <2> QED BY <2>5 DEF Records
<1>5. InPlace' /\ RecordedVouches'
  <2>1. provenance' # "unknown" => workspace' # NoWorkspace
    BY <1>1 DEF InPlace
  <2>2. Held' \subseteq Held
    BY <1>1, HeldShrinks
  <2> QED BY <1>1, <2>1, <2>2, InPlaceStays, RecordStillVouches
<1>6. LaunchKnows(g)'
  <2>1. launch'[g].loaded = workspace'.generation
    BY <1>1, <1>3 DEF LaunchKnows
  <2>2. launch'[g].current <= record'[launch'[g].area].generation
    BY <1>2, <1>3, <1>4
  <2> QED BY <1>2, <2>1, <2>2 DEF LaunchKnows
<1> QED
  BY <1>1, <1>2, <1>5, <1>6, OthersAreIdle DEF ProvenanceHolds

\* The image is loaded at the HEAD, and its generation is one the area has had.
LEMMA BindKnows ==
    ASSUME ProvInv, JustifiedInv', [Next]_vars, AreasStay, NEW g \in GuiProcs,
           BindImage(g) \/ KeepImage(g)
    PROVE  ProvenanceHolds'
<1>1. /\ JustifiedInv /\ GuiTypeOK /\ launch[g].phase = "leased" /\ LaunchKnows(g)
      /\ launch[g] \in Launches /\ InPlace
      /\ UNCHANGED <<vars, workspace, run>>
  BY DEF ProvInv, JustifiedInv, GuiInv, GuiTypeOK, ProvenanceHolds, BindImage, KeepImage, In
<1>2. /\ launch[g].area \in Areas /\ Exists(launch[g].area)
      /\ workspace \in Workspaces /\ workspace.area = launch[g].area
  BY <1>1, AttachingArea DEF Attaching
<1>3. /\ launch[g].loaded = workspace.generation
      /\ launch[g].current <= record[launch[g].area].generation
  BY <1>1 DEF LaunchKnows
<1>4. UNCHANGED <<record, head, alive>>
  BY <1>1 DEF vars, areaVars
<1>5. workspace' # NoWorkspace /\ Exists(workspace.area)'
  BY <1>1, <1>2, <1>4, NonesAssumption DEF Exists
<1>6. CASE BindImage(g)
  <2>1. /\ launch'[g].phase = "bound" /\ launch'[g].area = launch[g].area
        /\ \A h \in GuiProcs \ {g} : launch'[h] = launch[h]
    BY <1>1, <1>6, BindEffect
  <2>2. /\ launch'[g].loaded = launch[g].current /\ launch'[g].current = launch[g].current
    BY <1>1, <1>6 DEF BindImage, GuiTypeOK, Launches
  <2>3. provenance' = "bound" /\ image'.loaded = head[launch[g].area]
    BY <1>6 DEF BindImage
  <2>4. InPlace' /\ RecordedVouches'
    BY <1>5, <2>3, <1>1 DEF InPlace, RecordedVouches, Exists
  <2>5. LaunchKnows(g)'
    BY <1>3, <1>4, <2>1, <2>2, <2>3 DEF LaunchKnows, Vouches
  <2> QED BY <1>1, <2>1, <2>4, <2>5, OthersAreIdle DEF ProvenanceHolds
<1>7. CASE KeepImage(g)
  <2>1. Enter(g, "bound") /\ image' = image /\ ~GenerationMoved(g)
        /\ provenance' = IF provenance = "recorded" THEN "recorded" ELSE "unknown"
    BY <1>7 DEF KeepImage
  <2>2. /\ launch'[g].phase = "bound" /\ launch'[g].area = launch[g].area
        /\ \A h \in GuiProcs \ {g} : launch'[h] = launch[h]
    BY <1>1, <2>1, EnterEffect DEF Phases, Prepared
  <2>3. launch'[g].loaded = launch[g].loaded /\ launch'[g].current = launch[g].current
    BY <1>1, <2>1 DEF Enter, GuiTypeOK, Launches
  <2>4. Held' \subseteq Held
    BY <1>1, <1>4, <2>1, HeldShrinks
  <2>5. InPlace' /\ RecordedVouches'
    BY <1>1, <1>5, <2>1, <2>4, InPlaceStays, RecordStillVouches
  <2>6. LaunchKnows(g)'
    BY <1>1, <1>3, <1>4, <2>1, <2>2, <2>3 DEF LaunchKnows, GenerationMoved
  <2> QED BY <1>1, <2>2, <2>5, <2>6, OthersAreIdle DEF ProvenanceHolds
<1> QED
  BY <1>6, <1>7

\* The generation the image was loaded at is put on record.
LEMMA StartKnows ==
    ASSUME ProvInv, JustifiedInv', [Next]_vars, AreasStay, NEW g \in GuiProcs,
           StartImage(g) \/ RecordOutcome(g)
    PROVE  ProvenanceHolds'
<1>1. /\ JustifiedInv /\ GuiTypeOK /\ LaunchesSafe /\ launch[g].phase \in {"bound", "running"}
      /\ LaunchKnows(g) /\ launch[g] \in Launches /\ InPlace /\ RecordedVouches
      /\ UNCHANGED <<vars, image>>
      /\ provenance \in Provenances
  BY DEF ProvInv, JustifiedInv, GuiInv, GuiTypeOK, ProvenanceHolds, StartImage, RecordOutcome, In
<1>2. /\ g \in alive /\ launch[g].area \in Areas /\ Exists(launch[g].area)
      /\ workspace \in Workspaces /\ workspace.area = launch[g].area
  BY <1>1, AttachingArea DEF Attaching
<1>3. UNCHANGED <<record, head, alive>>
  BY <1>1 DEF vars, areaVars
<1>4. /\ launch'[g].phase \in {"running", "finishing"}
      /\ \A h \in GuiProcs \ {g} : launch'[h] = launch[h]
  <2>1. PICK phase \in {"running", "finishing"} : Enter(g, phase)
    BY DEF StartImage, RecordOutcome
  <2> QED BY <1>1, <2>1, EnterEffect DEF Phases, Prepared
<1>5. \A h \in GuiProcs : LaunchKnows(h)'
  BY <1>1, <1>4, OthersAreIdle, IdleKnows
<1>6. workspace' # NoWorkspace /\ workspace'.area = workspace.area
  <2>1. GuiTypeOK' /\ LaunchesSafe'
    BY DEF JustifiedInv, GuiInv
  <2>2. workspace' # NoWorkspace
    BY <1>4, <2>1 DEF LaunchesSafe, Prepared
  <2> QED BY <1>2, <2>2 DEF StartImage, RecordOutcome, Workspaces
<1>7. provenance' # "unknown" => provenance # "unknown"
  BY DEF StartImage, RecordOutcome
<1>8. InPlace'
  BY <1>6, <1>7, InPlaceStays
<1>9. CASE RecordOutcome(g)
  <2>1. UNCHANGED <<run, provenance>> /\ workspace'.generation = workspace.generation
    BY <1>2, <1>9 DEF RecordOutcome, Workspaces
  <2>2. Held' \subseteq Held
    BY <1>1, <1>3, <2>1, HeldShrinks
  <2>3. RecordedVouches'
    BY <1>6, <2>1, <2>2, RecordStillVouches
  <2> QED BY <1>5, <1>8, <2>3 DEF ProvenanceHolds
<1>10. CASE StartImage(g)
  <2>1. /\ launch[g].phase = "bound"
        /\ workspace'.generation = launch[g].loaded
        /\ provenance' = IF provenance = "unknown" THEN "unknown" ELSE "recorded"
    BY <1>2, <1>10 DEF StartImage, In, Workspaces
  <2>2. Held' = {image.loaded}
    <3>1. run'[g].loaded = image.loaded
      BY <1>1, <1>10 DEF StartImage, GuiTypeOK
    <3>2. ASSUME NEW h \in GuiProcs, h \in alive, h # g PROVE run'[h] = NoImage
      <4>1. launch[h].phase = "start"
        BY <1>1, <1>4, <2>1, <3>2, AloneWhenMoving
      <4>2. run[h] = NoImage
        BY <3>2, <4>1 DEF ProvInv, SaveInv, NotStarted, Early
      <4> QED BY <1>1, <1>10, <3>2, <4>2 DEF StartImage, GuiTypeOK
    <3> QED BY <1>1, <1>3, <3>1, <3>2 DEF Held
  <2>3. provenance = "recorded" =>
            Vouches(record[workspace.area], head[workspace.area], launch[g].loaded, image.loaded)
    BY <1>1, <2>1 DEF RecordedVouches, LaunchKnows, Held
  <2>4. provenance = "bound" =>
            Vouches(record[workspace.area], head[workspace.area], launch[g].loaded, image.loaded)
    BY <1>1, <1>2, <2>1 DEF LaunchKnows
  <2>5. RecordedVouches'
    BY <1>1, <1>3, <1>6, <2>1, <2>2, <2>3, <2>4 DEF RecordedVouches, Provenances
  <2> QED BY <1>5, <1>8, <2>5 DEF ProvenanceHolds
<1> QED
  BY <1>9, <1>10

\* An image at work, or one about to quit, has been started: no launch that is
\* alive and has it is bound.
LEMMA StartedIsNotBound ==
    ASSUME ProvInv, NEW g \in GuiProcs, run[g] # NoImage, g \in alive
    PROVE  /\ launch[g].phase \in Attaching
           /\ \A h \in GuiProcs : launch[h].phase # "bound"
<1>1. GuiTypeOK /\ LaunchesSafe /\ launch[g] \in Launches
  BY DEF ProvInv, SaveInv, GuiInv, GuiTypeOK
<1>2. launch[g].phase \notin Early
  BY DEF ProvInv, SaveInv, NotStarted
<1>3. launch[g].phase \in {"running", "finishing"}
  BY <1>1, <1>2 DEF Early, Launches
<1>4. \A h \in GuiProcs \ {g} : launch[h].phase = "start"
  BY <1>1, <1>3, AloneWhenMoving
<1> QED
  BY <1>3, <1>4 DEF Attaching

\* An image that has all of HEAD has all of the new HEAD after its export.
LEMMA ExportKnows ==
    ASSUME ProvInv, JustifiedInv', [Next]_vars, AreasStay, NEW g \in GuiProcs,
           NEW path \in Paths, NEW value \in Contents \cup {Missing}, ExportFromImage(g, path, value)
    PROVE  ProvenanceHolds'
<1>1. /\ JustifiedInv /\ GuiTypeOK /\ TypeOK /\ run[g] \in Runs /\ run[g] # NoImage
      /\ UNCHANGED <<alive, workspace, launch, provenance>>
  BY DEF ProvInv, JustifiedInv, GuiInv, GuiTypeOK, ExportFromImage, ImageExport, Working
<1>2. image'.loaded = image.loaded
  <2>1. image # NoImage => image \in Images
    BY <1>1 DEF GuiTypeOK
  <2> QED BY <2>1 DEF ExportFromImage, Images
<1>3. /\ \A h \in GuiProcs \ {g} : run'[h] = run[h]
      /\ run'[g].loaded = IF run[g].loaded = head[attached[g]] THEN commits' ELSE run[g].loaded
  BY <1>1 DEF ExportFromImage, GuiTypeOK, Runs
<1>4. ASSUME provenance' = "recorded" PROVE Held' \subseteq Held \cup {head'[workspace.area]}
  <2>1. CASE g \notin alive
    BY <1>1, <1>2, <1>3, <2>1 DEF Held
  <2>2. CASE g \in alive
    <3>1. attached[g] = workspace.area /\ workspace.area \in Areas
      BY <1>1, <2>2, StartedIsNotBound, AttachingArea
    <3>2. head'[workspace.area] = commits'
      BY <1>1, <3>1 DEF ExportFromImage, ImageExport, TypeOK
    <3>3. run'[g].loaded \in Held \cup {head'[workspace.area]}
      BY <1>1, <1>3, <2>2, <3>2 DEF Held
    <3> QED BY <1>1, <1>2, <1>3, <3>3 DEF Held
  <2> QED BY <2>1, <2>2
<1> QED
  BY <1>1, <1>2, <1>4, StandingKnows

\* What an image its launch waits for saves is held already; what an orphan
\* saves is not known.
LEMMA EndKnows ==
    ASSUME ProvInv, JustifiedInv', [Next]_vars, AreasStay, NEW g \in GuiProcs,
           QuitImage(g) \/ ImageDies(g)
    PROVE  ProvenanceHolds'
<1>1. /\ GuiTypeOK /\ run[g] # NoImage
      /\ run' = [run EXCEPT ![g] = NoImage]
      /\ UNCHANGED <<alive, workspace, launch>>
  BY DEF ProvInv, SaveInv, GuiInv, GuiTypeOK, QuitImage, ImageDies, ImageEnds, OrphanExit, vars
<1>2. \A h \in GuiProcs : run'[h] # NoImage => run[h] # NoImage /\ run'[h].loaded = run[h].loaded
  BY <1>1 DEF GuiTypeOK
<1>3. CASE UNCHANGED <<image, provenance>>
  <2>1. Held' \subseteq Held
    BY <1>1, <1>2, <1>3, HeldShrinks
  <2> QED BY <1>1, <1>3, <2>1, StandingKnows
<1>4. CASE ~UNCHANGED <<image, provenance>>
  <2>1. /\ image'.loaded = run[g].loaded
        /\ provenance' = IF g \in alive THEN provenance ELSE "unknown"
    BY <1>4 DEF QuitImage, ImageDies
  <2>2. g \in alive => Held' \subseteq Held
    BY <1>1, <1>2, <2>1 DEF Held
  <2>3. g \in alive => \A h \in GuiProcs : launch[h].phase # "bound"
    BY <1>1, StartedIsNotBound
  <2> QED BY <1>1, <2>1, <2>2, <2>3, StandingKnows
<1> QED
  BY <1>3, <1>4

LEMMA ImageKnows ==
    ASSUME ProvInv, JustifiedInv', [Next]_vars, AreasStay, NEW g \in GuiProcs, ImageStep(g)
    PROVE  ProvenanceHolds'
<1>1. GuiTypeOK
  BY DEF ProvInv, SaveInv, GuiInv
<1>2. ASSUME NEW state \in {"saved", "discarded"}, EditImage(g) \/ WriteCompletion(g, state)
      PROVE  ProvenanceHolds'
  <2>1. /\ run[g] \in Runs /\ run[g] # NoImage
        /\ UNCHANGED <<alive, workspace, image, launch, provenance>>
    BY <1>1, <1>2 DEF EditImage, WriteCompletion, Working, GuiTypeOK, vars
  <2>2. run'[g].loaded = run[g].loaded /\ \A h \in GuiProcs \ {g} : run'[h] = run[h]
    BY <1>1, <1>2, <2>1 DEF EditImage, WriteCompletion, GuiTypeOK, Runs
  <2>3. Held' \subseteq Held
    BY <2>1, <2>2, HeldShrinks
  <2> QED BY <2>1, <2>3, StandingKnows
<1>3. EditImage(g) => ProvenanceHolds'
  BY <1>2
<1> QED
  BY <1>2, <1>3, ExportKnows, EndKnows DEF ImageStep

\* Steps of other commands; a reset of the workspace's area ends all knowledge.
LEMMA OtherKnows ==
    ASSUME ProvInv, JustifiedInv', [Next]_vars, alive' \subseteq alive, OtherStep
    PROVE  ProvenanceHolds'
<1>1. /\ GuiInv /\ TypeOK /\ UNCHANGED <<workspace, completion, image, run, launch>>
  BY DEF ProvInv, SaveInv, GuiInv, GuiTypeOK, OtherStep
<1>2. Held' \subseteq Held
  BY <1>1, HeldShrinks
<1>3. ASSUME AreasStay, provenance' = provenance PROVE ProvenanceHolds'
  BY <1>1, <1>2, <1>3, StandingKnows
<1>4. ASSUME NEW a \in Areas, ResetStaging(a),
             provenance' = IF workspace # NoWorkspace /\ workspace.area = a
                           THEN "unknown" ELSE provenance
      PROVE  ProvenanceHolds'
  <2>1. \A b \in Areas \ {a} : record'[b] = record[b] /\ head'[b] = head[b]
    BY <1>1, <1>4 DEF ResetStaging, TypeOK
  <2>2. \A h \in GuiProcs : LaunchKnows(h)'
    BY <1>1, <1>4, LaunchStillKnows
  <2>3. CASE provenance' = "unknown"
    BY <2>2, <2>3 DEF ProvenanceHolds, InPlace, RecordedVouches
  <2>4. CASE provenance' # "unknown"
    <3>1. provenance' = provenance /\ InPlace /\ RecordedVouches
      BY <1>4, <2>4 DEF ProvInv, ProvenanceHolds
    <3>2. workspace # NoWorkspace /\ workspace.area \in Areas \ {a} /\ Exists(workspace.area)
      BY <1>1, <1>4, <2>4, <3>1, WorkspaceArea DEF InPlace, GuiInv
    <3>3. record'[workspace.area] = record[workspace.area] /\ head'[workspace.area] = head[workspace.area]
      BY <2>1, <3>2
    <3>4. InPlace'
      BY <1>1, <3>2, <3>3 DEF InPlace, Exists
    <3>5. RecordedVouches'
      BY <1>1, <1>2, <3>1, <3>3 DEF RecordedVouches
    <3> QED BY <2>2, <3>4, <3>5 DEF ProvenanceHolds
  <2> QED BY <2>3, <2>4
<1>5. ASSUME NEW path \in Paths, NEW value \in Contents \cup {Missing},
             \/ EditSource(path, value)
             \/ \E a \in Areas : EditOverlay(a, path, value)
             \/ \E p \in Procs \ GuiProcs : ImageExport(p, path, value)
      PROVE  AreasStay
  <2>1. EditStep(path, value)
    BY <1>5 DEF EditStep
  <2> QED BY <1>1, <2>1, StagingStep
<1>6. ASSUME NEW p \in Procs \ GuiProcs, ProcStep(p) PROVE AreasStay
  BY <1>1, <1>6, StagingStep
<1>7. ASSUME NEW a \in Areas,
             CreateStaging(a) \/ RebaseStaging(a) \/ ReconcileStaging(a) \/ PromoteStaging(a)
      PROVE  AreasStay
  BY <1>1, <1>7, StagingStep
<1>8. \/ AreasStay /\ provenance' = provenance
      \/ \E a \in Areas :
             /\ ResetStaging(a)
             /\ provenance' = IF workspace # NoWorkspace /\ workspace.area = a
                              THEN "unknown" ELSE provenance
  BY <1>5, <1>6, <1>7 DEF OtherStep
<1> QED
  BY <1>3, <1>4, <1>8

LEMMA ResetKnows ==
    ASSUME ProvInv, ResetWorkspace
    PROVE  ProvenanceHolds'
<1>1. provenance' = "unknown" /\ launch' = launch
  BY DEF ResetWorkspace, RemoveWorkspace
<1>2. \A g \in GuiProcs : launch'[g].phase = "start"
  BY <1>1 DEF ProvInv, SaveInv, GuiInv, LaunchesSafe, ResetWorkspace
<1> QED
  BY <1>1, <1>2, IdleKnows DEF ProvenanceHolds, InPlace, RecordedVouches
-----------------------------------------------------------------------------
LEMMA ProvInit == GuiInit => ProvInv
<1> SUFFICES ASSUME GuiInit PROVE ProvInv
  OBVIOUS
<1>1. JustifiedInv /\ SaveInv /\ CommitInv
  BY JustifiedInit, SaveInit, CommitInit DEF GuiInit
<1>2. provenance = "unknown" /\ \A g \in GuiProcs : launch[g].phase = "start"
  BY DEF GuiInit, NewLaunch
<1> QED
  BY <1>1, <1>2 DEF ProvInv, ProvenanceHolds, InPlace, RecordedVouches, LaunchKnows

LEMMA ProvStep == ProvInv /\ [GuiNext]_guiVars => ProvInv'
<1> SUFFICES ASSUME ProvInv, [GuiNext]_guiVars PROVE ProvInv'
  OBVIOUS
<1>0. GuiInv
  BY DEF ProvInv, SaveInv
<1>1. /\ JustifiedInv' /\ SaveInv' /\ CommitInv' /\ [Next]_vars /\ alive' \subseteq alive
  BY <1>0, JustifiedStep, SaveStep, CommitStep, GuiStepIsStep, AliveShrinks DEF ProvInv
<1>2. ASSUME NEW g \in GuiProcs, LaunchStep(g) PROVE ProvenanceHolds'
  <2>1. AreasStay
    BY <1>0, <1>2, LaunchStepIsStep
  <2>2. ASSUME UNCHANGED <<launch, workspace, image, run, provenance>> PROVE ProvenanceHolds'
    <3>1. Held' \subseteq Held
      BY <1>1, <2>2, HeldShrinks
    <3> QED BY <1>1, <2>1, <2>2, <3>1, StandingKnows
  <2>3. ASSUME NEW a \in Areas, CreateForWorkspace(g, a) PROVE ProvenanceHolds'
    BY <2>2, <2>3 DEF CreateForWorkspace
  <2>4. CASE ServiceRequest(g) \/ NoOrphan(g)
    BY <2>2, <2>4 DEF ServiceRequest, NoOrphan
  <2> QED
    BY <1>1, <1>2, <2>1, <2>3, <2>4, EndingKnows, PrepareKnows, AttachKnows, BindKnows, StartKnows
       DEF LaunchStep
<1>3. ASSUME NEW g \in GuiProcs, ImageStep(g) PROVE ProvenanceHolds'
  BY <1>0, <1>1, <1>3, ImageStepIsStep, ImageKnows
<1>4. ASSUME UNCHANGED guiVars PROVE ProvenanceHolds'
  <2>1. UNCHANGED vars /\ UNCHANGED <<launch, workspace, image, run, provenance>>
    BY <1>4 DEF guiVars
  <2>2. AreasStay
    BY <1>0, <2>1, StagingStep
  <2>3. Held' \subseteq Held
    BY <1>1, <2>1, HeldShrinks
  <2> QED BY <1>1, <2>1, <2>2, <2>3, StandingKnows
<1>5. ASSUME OtherStep PROVE ProvenanceHolds'
  BY <1>1, <1>5, OtherKnows
<1>6. ASSUME ResetWorkspace PROVE ProvenanceHolds'
  BY <1>6, ResetKnows
<1>7. ProvenanceHolds'
  BY <1>2, <1>3, <1>4, <1>5, <1>6 DEF GuiNext
<1> QED
  BY <1>1, <1>7 DEF ProvInv

\* An image that was bound to the area, as it exists now, and from then on saved
\* only by sessions whose launch waited for them, starts with all of the HEAD
\* its lease was taken at, however many launches came and failed in between.
THEOREM StartedImagesAreCurrent == GuiSpec => StartedImageIsCurrent
<1> DEFINE IsCurrent ==
        \A g \in GuiProcs :
            LET a == launch[g].area
            IN  /\ StartImage(g)
                /\ provenance # "unknown"
                /\ record[a].generation = launch[g].current
                /\ record[a].headCommit = head[a]
                => image.loaded = head[a]
<1>1. ProvInv => IsCurrent
  <2> SUFFICES ASSUME ProvInv, NEW g \in GuiProcs, StartImage(g), provenance # "unknown",
                      record[launch[g].area].generation = launch[g].current,
                      record[launch[g].area].headCommit = head[launch[g].area]
               PROVE  image.loaded = head[launch[g].area]
    OBVIOUS
  <2>1. /\ launch[g].phase = "bound" /\ LaunchKnows(g) /\ RecordedVouches /\ JustifiedInv
        /\ provenance \in Provenances
    BY DEF ProvInv, ProvenanceHolds, SaveInv, GuiInv, GuiTypeOK, StartImage, In
  <2>2. workspace.area = launch[g].area
    BY <2>1, AttachingArea DEF Attaching
  <2>3. Vouches(record[launch[g].area], head[launch[g].area], launch[g].current, image.loaded)
    <3>1. CASE provenance = "bound"
      BY <2>1, <3>1 DEF LaunchKnows
    <3>2. CASE provenance = "recorded"
      BY <2>1, <2>2, <3>2 DEF LaunchKnows, RecordedVouches, Held
    <3> QED BY <2>1, <3>1, <3>2 DEF Provenances
  <2> QED BY <2>3 DEF Vouches
<1> QED
  BY <1>1, ProvInit, ProvStep, PTL DEF GuiSpec, StartedImageIsCurrent
=============================================================================
