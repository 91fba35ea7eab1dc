---------------------------- MODULE GuiWorkspace ----------------------------
(* The one saved GUI workspace (python/klibgen_build/workspaces.py) and the
   image that runs in it (src/KlibGenGt-Session), composed with the staging
   areas it is attached to.  A launch holds the workspace lock from
   LockWorkspace until its process ends, but takes the area lock only for the
   operations of StagingArea, so sessions, commands and edits fall in between.
   Each action below is one such stretch of launch_gui_workspace, cut where a
   file the other stretches depend on has just been written.                  *)
EXTENDS StagingArea

CONSTANTS
    NoWorkspace,    \* no workspace.json
    NoCompletion,   \* no completion.json, or lastCompletion: null
    NoImage,        \* no image file, or no image process
    Mishaps         \* which failures this instance lets happen

ASSUME MishapsAssumption ==
    Mishaps \subseteq {"crash", "lint", "bind", "start", "service", "death", "discard"}

VARIABLES
    workspace,      \* workspace.json
    completion,     \* completion.json
    image,          \* the image file: what it loaded, whether it has changes
    run,            \* the image process of each launch
    launch,         \* phase and locals of each launch
    provenance      \* history: what the image file is known to hold

guiVars == <<vars, workspace, completion, image, run, launch, provenance>>

\* Where a launch is, the area it attaches, whether it wrote workspace.json
\* itself ("initialized"), and the two generations it compares.
Launches == [phase : {"start", "locked", "released", "prepared", "leased",
                      "bound", "running", "finishing"},
             area : Areas \cup {NoArea}, initialized : BOOLEAN,
             loaded : Nat, current : Nat]

Completions == [session : GuiProcs, state : {"saved", "discarded", "abnormal"},
                dirty : BOOLEAN]

Workspaces == [area : Areas, state : {"ready", "active", "saved"},
               pid : GuiProcs \cup {NoPid}, generation : Nat,
               completion : Completions \cup {NoCompletion}]

\* loaded is the last commit whose tree the image has, 0 for the canonical
\* image no overlay was loaded into; dirty says that it has changes no export
\* committed; savedBy is the session that saved it, from the one that saved the
\* file a process was started from.
Images == [loaded : Nat, dirty : BOOLEAN, savedBy : GuiProcs \cup {NoPid}]

Runs == [loaded : Nat, dirty : BOOLEAN, from : GuiProcs \cup {NoPid},
         quitting : {"no", "saved", "discarded"}]

\* "bound": the overlay of the area, as the area exists now, was loaded into the
\* image file, and since then only sessions whose launch waited for them saved
\* it; "recorded": besides, workspace.json has the generation it was loaded at.
Provenances == {"unknown", "bound", "recorded"}

ASSUME NonesAssumption ==
    /\ NoWorkspace \notin Workspaces
    /\ NoCompletion \notin Completions
    /\ NoImage \notin Images \cup Runs

NewLaunch == [phase |-> "start", area |-> NoArea, initialized |-> FALSE,
              loaded |-> 0, current |-> 0]

In(g, phase) == g \in alive /\ launch[g].phase = phase

\* The workspace lock is free: every other live launch has yet to try for it.
LockFree(g) == \A q \in GuiProcs \ {g} : q \in alive => launch[q].phase = "start"

Enter(g, phase) == launch' = [launch EXCEPT ![g].phase = phase]

Leave(g) == launch' = [launch EXCEPT ![g] = NewLaunch]
-----------------------------------------------------------------------------
LockWorkspace(g) ==
    /\ In(g, "start")
    /\ LockFree(g)
    /\ Enter(g, "locked")
    /\ UNCHANGED <<vars, workspace, completion, image, run, provenance>>

\* Mutant of ReleaseForFresh: the tree goes, the lease stays.
ForgetRelease(g) ==
    /\ In(g, "locked")
    /\ workspace # NoWorkspace
    /\ Enter(g, "released")
    /\ UNCHANGED <<vars, workspace, completion, image, run, provenance>>

\* --fresh: the GUI context's lease is released, then the tree is removed.
ReleaseForFresh(g) ==
    /\ In(g, "locked")
    /\ workspace # NoWorkspace
    /\ DiscardWorkspace(workspace.area)
    /\ Enter(g, "released")
    /\ UNCHANGED <<workspace, completion, image, run, provenance>>

RemoveWorkspace ==
    /\ workspace' = NoWorkspace
    /\ completion' = NoCompletion
    /\ image' = NoImage
    /\ provenance' = "unknown"

RemoveForFresh(g) ==
    /\ In(g, "released")
    /\ RemoveWorkspace
    /\ Enter(g, "locked")
    /\ UNCHANGED <<vars, run>>

\* _staging_for_workspace when the named area does not exist.
CreateForWorkspace(g, a) ==
    /\ In(g, "locked")
    /\ workspace # NoWorkspace => workspace.area = a
    /\ CreateStaging(a)
    /\ UNCHANGED <<workspace, completion, image, run, launch, provenance>>

\* _initialize copies the canonical image and writes workspace.json; an existing
\* workspace only has a stale "active" corrected.
InitialWorkspace(a) ==
    [area |-> a, state |-> "ready", pid |-> NoPid,
     generation |-> record[a].generation, completion |-> NoCompletion]

CanonicalImage == [loaded |-> 0, dirty |-> FALSE, savedBy |-> NoPid]

Corrected(ws) ==
    IF ws.state = "active" /\ (ws.pid = NoPid \/ run[ws.pid] = NoImage)
    THEN [ws EXCEPT !.state = "ready", !.pid = NoPid]
    ELSE ws

PrepareWorkspace(g, a) ==
    /\ In(g, "locked")
    /\ Exists(a)
    /\ workspace # NoWorkspace => workspace.area = a
    /\ IF workspace = NoWorkspace
       THEN workspace' = InitialWorkspace(a) /\ image' = CanonicalImage
       ELSE workspace' = Corrected(workspace) /\ UNCHANGED image
    /\ launch' = [launch EXCEPT ![g] =
           [@ EXCEPT !.phase = "prepared", !.area = a,
                     !.initialized = (workspace = NoWorkspace),
                     !.loaded = workspace'.generation]]
    /\ UNCHANGED <<vars, completion, run, provenance>>

AttachWorkspace(g) ==
    /\ In(g, "prepared")
    /\ AcquireLease(g, launch[g].area)
    /\ launch' = [launch EXCEPT ![g].phase = "leased",
                                ![g].current = record'[launch[g].area].generation]
    /\ UNCHANGED <<workspace, completion, image, run, provenance>>

\* The attachment is refused by a conflict.
AttachFails(g) ==
    /\ In(g, "prepared")
    /\ AttachConflicted(g, launch[g].area)
    /\ Leave(g)
    /\ UNCHANGED <<workspace, completion, image, run, provenance>>
-----------------------------------------------------------------------------
\* pending_changes: the saved image has unexported source changes.
Pending ==
    /\ workspace.completion # NoCompletion
    /\ workspace.completion.state = "saved"
    /\ workspace.completion.dirty

\* Mutant of GenerationMoved: compares in the wrong direction.
GenerationBehind(g) == launch[g].loaded > launch[g].current

GenerationMoved(g) == launch[g].loaded # launch[g].current

\* Mutant of MustRefuse: only an area that went back is a reason to refuse.
MustRefuseBackwards(g) ==
    ~launch[g].initialized /\ launch[g].loaded > launch[g].current /\ Pending

MustRefuse(g) == ~launch[g].initialized /\ GenerationMoved(g) /\ Pending

\* Linting passed and the completion of the previous session is removed.  The
\* image has changes but its generation is gone: the reservation is restored.
RefuseReload(g) ==
    /\ In(g, "leased")
    /\ MustRefuse(g)
    /\ completion' = NoCompletion
    /\ ReleaseLease(g, TRUE)
    /\ Leave(g)
    /\ UNCHANGED <<workspace, image, run, provenance>>

\* bind-workspace.st loads the overlay's master into the image and saves it.
BindImage(g) ==
    /\ In(g, "leased")
    /\ ~MustRefuse(g)
    /\ launch[g].initialized \/ GenerationMoved(g)
    /\ image' = [loaded |-> head[launch[g].area], dirty |-> FALSE, savedBy |-> NoPid]
    /\ completion' = NoCompletion
    /\ launch' = [launch EXCEPT ![g].phase = "bound", ![g].loaded = launch[g].current]
    /\ provenance' = "bound"
    /\ UNCHANGED <<vars, workspace, run>>

KeepImage(g) ==
    /\ In(g, "leased")
    /\ ~launch[g].initialized /\ ~GenerationMoved(g)
    /\ completion' = NoCompletion
    /\ Enter(g, "bound")
    /\ provenance' = IF provenance = "recorded" THEN "recorded" ELSE "unknown"
    /\ UNCHANGED <<vars, workspace, image, run>>

StartImage(g) ==
    /\ In(g, "bound")
    /\ run' = [run EXCEPT ![g] =
           [loaded |-> image.loaded, dirty |-> image.dirty,
            from |-> image.savedBy, quitting |-> "no"]]
    /\ workspace' = [workspace EXCEPT !.state = "active", !.pid = g,
                                      !.generation = launch[g].loaded]
    /\ Enter(g, "running")
    /\ provenance' = IF provenance = "unknown" THEN "unknown" ELSE "recorded"
    /\ UNCHANGED <<vars, completion, image>>

\* Linting or starting the image fails: the lease is released without a count.
FailureIn == [leased |-> "lint", bound |-> "start"]

LaunchFails(g) ==
    /\ g \in alive
    /\ launch[g].phase \in DOMAIN FailureIn
    /\ FailureIn[launch[g].phase] \in Mishaps
    /\ ReleaseLease(g, FALSE)
    /\ Leave(g)
    /\ UNCHANGED <<workspace, completion, image, run, provenance>>

\* Linting passed, but loading the overlay into the image fails.
BindFails(g) ==
    /\ "bind" \in Mishaps
    /\ In(g, "leased")
    /\ ~MustRefuse(g)
    /\ launch[g].initialized \/ GenerationMoved(g)
    /\ completion' = NoCompletion
    /\ ReleaseLease(g, FALSE)
    /\ Leave(g)
    /\ UNCHANGED <<workspace, image, run, provenance>>
-----------------------------------------------------------------------------
Working(g) == run[g] # NoImage /\ run[g].quitting = "no"

EditImage(g) ==
    /\ Working(g)
    /\ ~run[g].dirty
    /\ run' = [run EXCEPT ![g].dirty = TRUE]
    /\ UNCHANGED <<vars, workspace, completion, image, launch, provenance>>

\* Export commits every modified package, those the image was started with
\* included; an image that had all of HEAD has all of the new HEAD.
ExportFromImage(g, path, value) ==
    /\ Working(g)
    /\ run[g].dirty
    /\ ImageExport(g, path, value)
    /\ run' = [run EXCEPT ![g].dirty = FALSE,
                          ![g].loaded = IF @ = head[attached[g]] THEN commits' ELSE @]
    /\ image' = IF image # NoImage /\ image.savedBy = run[g].from
                THEN [image EXCEPT !.dirty = FALSE] ELSE image
    /\ UNCHANGED <<workspace, completion, launch, provenance>>

ServiceRequest(g) ==
    /\ In(g, "running")
    /\ Working(g)
    /\ ServiceExport(g) \/ ServicePromote(g)
    /\ UNCHANGED <<workspace, completion, image, run, launch, provenance>>

\* KGWorkspacePersistence: the completion is written first, then the image is
\* saved (or not) and quits.
WriteCompletion(g, state) ==
    /\ Working(g)
    /\ state = "discarded" => "discard" \in Mishaps
    /\ completion' = [session |-> g, state |-> state, dirty |-> run[g].dirty]
    /\ run' = [run EXCEPT ![g].quitting = state]
    /\ UNCHANGED <<vars, workspace, image, launch, provenance>>

\* When no coordinator waits for the image, its end also ends the attachment.
ImageEnds(g) ==
    /\ run' = [run EXCEPT ![g] = NoImage]
    /\ IF g \in alive THEN UNCHANGED vars ELSE OrphanExit(g)
    /\ UNCHANGED <<workspace, completion, launch>>

QuitImage(g) ==
    /\ run[g] # NoImage
    /\ run[g].quitting # "no"
    /\ IF run[g].quitting = "saved" /\ image # NoImage
       THEN /\ image' = [loaded |-> run[g].loaded, dirty |-> run[g].dirty, savedBy |-> g]
            /\ provenance' = IF g \in alive THEN provenance ELSE "unknown"
       ELSE UNCHANGED <<image, provenance>>
    /\ ImageEnds(g)

ImageDies(g) ==
    /\ "death" \in Mishaps
    /\ run[g] # NoImage
    /\ UNCHANGED <<image, provenance>>
    /\ ImageEnds(g)
-----------------------------------------------------------------------------
\* The image process is gone and left a completion, or none ("abnormal").
Outcome(g) ==
    IF completion = NoCompletion
    THEN [session |-> g, state |-> "abnormal", dirty |-> FALSE]
    ELSE completion

\* Mutant of RecordOutcome: the completion's state becomes the workspace's.
RecordStateVerbatim(g) ==
    /\ In(g, "running")
    /\ run[g] = NoImage
    /\ Outcome(g).session = g
    /\ workspace' = [workspace EXCEPT
           !.completion = Outcome(g), !.pid = NoPid, !.state = Outcome(g).state]
    /\ Enter(g, "finishing")
    /\ UNCHANGED <<vars, completion, image, run, provenance>>

RecordOutcome(g) ==
    /\ In(g, "running")
    /\ run[g] = NoImage
    /\ Outcome(g).session = g
    /\ workspace' = [workspace EXCEPT
           !.completion = Outcome(g), !.pid = NoPid,
           !.state = IF Outcome(g).state = "saved" THEN "saved" ELSE "ready"]
    /\ Enter(g, "finishing")
    /\ UNCHANGED <<vars, completion, image, run, provenance>>

\* An orphaned image of an earlier launch wrote the completion.
ForeignCompletion(g) ==
    /\ In(g, "running")
    /\ run[g] = NoImage
    /\ Outcome(g).session # g
    /\ ReleaseLease(g, FALSE)
    /\ Leave(g)
    /\ UNCHANGED <<workspace, completion, image, run, provenance>>

FinishLaunch(g) ==
    /\ In(g, "finishing")
    /\ ReleaseLease(g, Pending)
    /\ Leave(g)
    /\ UNCHANGED <<workspace, completion, image, run, provenance>>

\* Servicing source requests raises: the lease goes, the image stays.
ServiceFails(g) ==
    /\ "service" \in Mishaps
    /\ In(g, "running")
    /\ run[g] # NoImage
    /\ AbandonLease(g)
    /\ Leave(g)
    /\ UNCHANGED <<workspace, completion, image, run, provenance>>

\* The launch raises: the lock is held or the build fails, the sources moved or
\* another area was asked for, or acquire_staging_lease refuses.
GivesUp(g) ==
    \/ "crash" \in Mishaps
    \/ launch[g].phase \in {"start", "locked"}
    \/ /\ launch[g].phase = "prepared"
       /\ LET a == launch[g].area
          IN  Exists(a) => \/ Refused(g, a)
                           \/ Resumes(g, a) /\ record[a].state = "conflicted"

\* A launch ends without releasing anything, or is killed at any point.
LeaveEarly(g) ==
    /\ GivesUp(g) = TRUE
    /\ Exit(g)
    /\ Leave(g)
    /\ UNCHANGED <<workspace, completion, image, run, provenance>>

\* A coordinator killed before it started the image leaves no writer behind.
NoOrphan(g) ==
    /\ run[g] = NoImage
    /\ OrphanExit(g)
    /\ UNCHANGED <<workspace, completion, image, run, launch, provenance>>

\* Mutant of ResetWorkspace: without the workspace lock.
ResetUnlocked ==
    /\ workspace # NoWorkspace
    /\ Exists(workspace.area)
    /\ record' = [record EXCEPT ![workspace.area] = Released(workspace.area, GuiDefault, FALSE)]
    /\ RemoveWorkspace
    /\ UNCHANGED <<src, base, overlay, head, headTree, commits, edits, alive, attached, run, launch>>

\* reset_workspace, a command of its own.
ResetWorkspace ==
    /\ \A g \in GuiProcs : g \in alive => launch[g].phase = "start"
    /\ workspace # NoWorkspace
    /\ DiscardWorkspace(workspace.area)
    /\ RemoveWorkspace
    /\ UNCHANGED <<run, launch>>
-----------------------------------------------------------------------------
GuiInit ==
    /\ Init
    /\ workspace = NoWorkspace
    /\ completion = NoCompletion
    /\ image = NoImage
    /\ run = [g \in GuiProcs |-> NoImage]
    /\ launch = [g \in GuiProcs |-> NewLaunch]
    /\ provenance = "unknown"

LaunchStep(g) ==
    \/ LockWorkspace(g) \/ ReleaseForFresh(g) \/ RemoveForFresh(g)
    \/ \E a \in Areas : CreateForWorkspace(g, a) \/ PrepareWorkspace(g, a)
    \/ AttachWorkspace(g) \/ AttachFails(g) \/ LaunchFails(g) \/ BindFails(g)
    \/ RefuseReload(g) \/ BindImage(g) \/ KeepImage(g) \/ StartImage(g)
    \/ RecordOutcome(g) \/ ForeignCompletion(g) \/ FinishLaunch(g)
    \/ ServiceRequest(g) \/ ServiceFails(g) \/ LeaveEarly(g) \/ NoOrphan(g)

ImageStep(g) ==
    \/ EditImage(g)
    \/ \E path \in Paths, value \in Contents \cup {Missing} : ExportFromImage(g, path, value)
    \/ \E state \in {"saved", "discarded"} : WriteCompletion(g, state)
    \/ QuitImage(g)
    \/ ImageDies(g)

\* Everything else that happens to the areas: commands, sessions and edits.
OtherStep ==
    /\ \/ \E a \in Areas :
              \/ /\ \/ CreateStaging(a) \/ RebaseStaging(a) \/ ReconcileStaging(a)
                    \/ PromoteStaging(a)
                 /\ UNCHANGED provenance
              \/ /\ ResetStaging(a)
                 /\ provenance' = IF workspace # NoWorkspace /\ workspace.area = a
                                  THEN "unknown" ELSE provenance
       \/ \E p \in Procs \ GuiProcs : ProcStep(p) /\ UNCHANGED provenance
       \/ \E path \in Paths, value \in Contents \cup {Missing} :
              /\ \/ EditSource(path, value)
                 \/ \E a \in Areas : EditOverlay(a, path, value)
                 \/ \E p \in Procs \ GuiProcs : ImageExport(p, path, value)
              /\ UNCHANGED provenance
    /\ UNCHANGED <<workspace, completion, image, run, launch>>

GuiNext ==
    \/ \E g \in GuiProcs : LaunchStep(g) \/ ImageStep(g)
    \/ ResetWorkspace
    \/ OtherStep

GuiSpec == GuiInit /\ [][GuiNext]_guiVars
-----------------------------------------------------------------------------
\* The type of every variable.
GuiTypeOK ==
    /\ TypeOK
    /\ workspace \in Workspaces \cup {NoWorkspace}
    /\ completion \in Completions \cup {NoCompletion}
    /\ image \in Images \cup {NoImage}
    /\ run \in [GuiProcs -> Runs \cup {NoImage}]
    /\ launch \in [GuiProcs -> Launches]
    /\ provenance \in Provenances

\* A reservation always stands for a saved workspace that names the area and
\* reports unexported changes; otherwise it would lock every other writer out of
\* an area that no GUI launch can give back.
ReservationIsJustified ==
    \A a \in Areas :
        Reserved(a) => workspace # NoWorkspace /\ workspace.area = a /\ Pending

\* The image file was last written by a bind, or by the session whose
\* completion the workspace has: no orphaned image saved over it.
Accounted ==
    \/ image.savedBy = NoPid
    \/ /\ workspace.completion # NoCompletion
       /\ workspace.completion.session = image.savedBy

\* Reloading the overlay never overwrites unexported changes of an image whose
\* own orderly save is the workspace's last completion.
ReloadSparesSavedChanges ==
    [][\A g \in GuiProcs :
        BindImage(g) /\ image.dirty /\ Accounted =>
            workspace.completion.state # "saved"]_guiVars

\* An image that was bound to the area, as the area exists now, and from then on
\* saved only by sessions whose launch waited for them, is only started with all
\* of the HEAD its lease was taken at: exports, rebases, refusals, crashes and
\* failed launches in between notwithstanding.
StartedImageIsCurrent ==
    [][\A g \in GuiProcs :
        LET a == launch[g].area
        IN  /\ StartImage(g)
            /\ provenance # "unknown"
            /\ record[a].generation = launch[g].current
            /\ record[a].headCommit = head[a]
            => image.loaded = head[a]]_guiVars

\* What docs say and the code does not do.

\* No image is started that the overlay was never loaded into.
StartedImageIsBound ==
    [][\A g \in GuiProcs : StartImage(g) => image.loaded # 0]_guiVars

\* Reloading the overlay never overwrites unexported changes.
ReloadSparesChanges ==
    [][\A g \in GuiProcs : BindImage(g) => ~image.dirty]_guiVars

\* A launch is refused only if the area has something the saved image lacks.
RefusalHasReason ==
    [][\A g \in GuiProcs :
        RefuseReload(g) => image.loaded # head[launch[g].area]]_guiVars
=============================================================================
