----------------------------- MODULE StagingArea -----------------------------
(* The named staging areas of python/klibgen_build/staging.py: their records
   (staging.json), trees and Git repositories, the authoritative src/ they are
   rebased onto and promoted into, and the exclusive lease a coordinator
   process takes on an area while an image is attached to it.

   Every operation of staging.py holds the area's file lock from its first
   read of the record to its last write, so it is one action here.  What the
   lock does not cover stays interleaved: edits of src/ and of overlays, the
   commits of attached images, crashes of coordinators, and the gap between
   the two halves of reset_staging.  Replacing a tree is one step: an edit or
   another promotion that comes while _rebase_locked reads src/, or while
   _replace_trees renames, comes before or after it here.  A coordinator is one
   command invocation; its process id, and the session id it generates, are the
   process itself.                                                           *)
EXTENDS TreeMerge, Naturals

CONSTANTS
    Areas,         \* staging area names
    Procs,         \* coordinator processes
    GuiProcs,      \* those that run launch_gui_workspace
    GuiDefault,    \* WORKSPACE_NAME, the context id every GUI launch shares
    NoArea,        \* "attached to nothing"
    NoRecord,      \* no staging.json: the area does not exist
    NoLease,       \* "lease": null
    NoPid,         \* "pid": null in a reserved lease
    InitialSource, \* src/ when the model starts
    MaxEdits,      \* bound: edits of src/ and of overlay files
    MaxCommits     \* bound: Git commits after which no image or reset adds one

ASSUME ProcsAssumption ==
    /\ GuiProcs \subseteq Procs
    /\ GuiDefault \notin Procs
    /\ NoPid \notin Procs \cup {GuiDefault}
ASSUME AreasAssumption == NoArea \notin Areas
ASSUME SourceAssumption == InitialSource \in Trees
ASSUME BoundsAssumption == MaxEdits \in Nat /\ MaxCommits \in Nat

ContextIds == Procs \cup {GuiDefault}

Leases == [context : ContextIds, session : Procs,
           pid : Procs \cup {NoPid}, reserved : BOOLEAN]

ASSUME LeaseAssumption == NoLease \notin Leases

States == {"ready", "conflicted", "promoted"}

Records == [state : States, generation : Nat, headCommit : Nat,
            lease : Leases \cup {NoLease}]

ASSUME RecordAssumption == NoRecord \notin Records

VARIABLES
    src,        \* the authoritative tree
    record,     \* staging.json of each area
    base,       \* base/src of each area
    overlay,    \* overlay/src of each area, the working tree
    head,       \* the commit HEAD of each overlay repository names
    headTree,   \* the tree of that commit
    commits,    \* the last commit made; commits are numbered as they are made
    edits,      \* edits made so far
    alive,      \* the processes that have a /proc entry
    attached    \* the area the image started by each process works in

areaVars == <<record, base, overlay, head, headTree, commits>>
vars     == <<src, areaVars, edits, alive, attached>>
-----------------------------------------------------------------------------
Exists(a) == record[a] # NoRecord

\* Mutant of Context: every session shares one context.
SharedContext(p) == GuiDefault

\* The (contextKind, contextId) of a process: all GUI launches share one.
Context(p) == IF p \in GuiProcs THEN GuiDefault ELSE p

SameContext(a, p) ==
    record[a].lease # NoLease /\ record[a].lease.context = Context(p)

\* Mutant of InForce: a reservation, which names no process, does not count.
InForceByPid(lease) == lease # NoLease /\ lease.pid \in alive

\* lease.get("reserved") or _pid_alive(lease.get("pid"))
InForce(lease) == lease # NoLease /\ (lease.reserved \/ lease.pid \in alive)

\* context_id in {lease["contextId"], lease["sessionId"]}
Names(lease, id) == lease # NoLease /\ id \in {lease.context, lease.session}

\* workspace_lock: at most one live coordinator works in the GUI workspace.
GuiLockFree(p) ==
    \A q \in GuiProcs \ {p} : ~(q \in alive /\ attached[q] # NoArea)

\* Mutant of Reconciled: an unknown HEAD is recorded under the old generation.
ReconciledSilently(a) == [record[a] EXCEPT !.headCommit = head[a]]

\* _reconcile_head_locked: a HEAD the record does not know is a new generation.
Reconciled(a) ==
    IF record[a].headCommit = head[a] THEN record[a]
    ELSE [record[a] EXCEPT !.headCommit = head[a],
                           !.generation = @ + 1,
                           !.state = "ready"]
-----------------------------------------------------------------------------
\* The outcomes of _rebase_locked: the record it returns, and what it does to
\* the trees and the repository.  Callers store the record, some with additions.
RebasedRecord(a) ==
    LET known == Reconciled(a)
    IN  IF base[a] = src
        THEN IF known.state = "conflicted" THEN [known EXCEPT !.state = "ready"] ELSE known
        ELSE IF Conflicts(base[a], overlay[a], src) # {}
        THEN [known EXCEPT !.state = "conflicted"]
        ELSE [known EXCEPT !.state = "ready",
                           !.generation = @ + 1,
                           !.headCommit = IF Merge(base[a], overlay[a], src) = headTree[a]
                                          THEN @ ELSE commits + 1]

\* Mutant of Replaces: the trees are replaced in spite of a conflict.
ReplacesAnyway(a) == base[a] # src

\* Whether _rebase_locked replaces the base and the overlay.
Replaces(a) == base[a] # src /\ Conflicts(base[a], overlay[a], src) = {}

RebasedOverlay(a) ==
    IF Replaces(a) THEN Merge(base[a], overlay[a], src) ELSE overlay[a]

RebasedBase(a) == IF Replaces(a) THEN src ELSE base[a]

\* _commit_overlay: commits the working tree unless git status is empty.
CommitRebase(a) ==
    IF Replaces(a) /\ RebasedOverlay(a) # headTree[a]
    THEN /\ commits' = commits + 1
         /\ head' = [head EXCEPT ![a] = commits + 1]
         /\ headTree' = [headTree EXCEPT ![a] = RebasedOverlay(a)]
    ELSE UNCHANGED <<commits, head, headTree>>

RebaseTrees(a) ==
    /\ base' = [base EXCEPT ![a] = RebasedBase(a)]
    /\ overlay' = [overlay EXCEPT ![a] = RebasedOverlay(a)]
    /\ CommitRebase(a)
-----------------------------------------------------------------------------
\* create_staging: base and overlay are copies of src/, committed; generation 1.
CreateStaging(a) ==
    /\ ~Exists(a)
    /\ commits' = commits + 1
    /\ record' = [record EXCEPT ![a] =
           [state |-> "ready", generation |-> 1, headCommit |-> commits + 1, lease |-> NoLease]]
    /\ base' = [base EXCEPT ![a] = src]
    /\ overlay' = [overlay EXCEPT ![a] = src]
    /\ head' = [head EXCEPT ![a] = commits + 1]
    /\ headTree' = [headTree EXCEPT ![a] = src]
    /\ UNCHANGED <<src, edits, alive, attached>>

\* Mutant of ResetStaging: an area in use can be reset.
ResetStagingInUse(a) ==
    /\ commits < MaxCommits
    /\ Exists(a)
    /\ record' = [record EXCEPT ![a] = NoRecord]
    /\ base' = [base EXCEPT ![a] = EmptyTree]
    /\ overlay' = [overlay EXCEPT ![a] = EmptyTree]
    /\ head' = [head EXCEPT ![a] = 0]
    /\ headTree' = [headTree EXCEPT ![a] = EmptyTree]
    /\ UNCHANGED <<src, commits, edits, alive, attached>>

\* The locked half of reset_staging: the area directory is removed.  The
\* create_staging it then calls takes the lock again and is CreateStaging.
ResetStaging(a) ==
    /\ commits < MaxCommits
    /\ Exists(a)
    /\ ~InForce(record[a].lease)
    /\ record' = [record EXCEPT ![a] = NoRecord]
    /\ base' = [base EXCEPT ![a] = EmptyTree]
    /\ overlay' = [overlay EXCEPT ![a] = EmptyTree]
    /\ head' = [head EXCEPT ![a] = 0]
    /\ headTree' = [headTree EXCEPT ![a] = EmptyTree]
    /\ UNCHANGED <<src, commits, edits, alive, attached>>

\* rebase_staging.  An I/O failure after the replacement puts both trees back,
\* which leaves what ReconcileStaging does.
RebaseStaging(a) ==
    /\ Exists(a)
    /\ record' = [record EXCEPT ![a] = RebasedRecord(a)]
    /\ RebaseTrees(a)
    /\ UNCHANGED <<src, edits, alive, attached>>

\* reconcile_staging without a context, as list_staging does for every area.
ReconcileStaging(a) ==
    /\ Exists(a)
    /\ record' = [record EXCEPT ![a] = Reconciled(a)]
    /\ UNCHANGED <<src, base, overlay, head, headTree, commits, edits, alive, attached>>

\* promote_staging after its ownership check.  A conflict is recorded by the
\* rebase and raises; a prohibited path, or a failure that puts src/ back,
\* leaves what the rebase did.
Promotable(a) ==
    /\ RebasedRecord(a).state # "conflicted"
    /\ Prohibited(RebasedBase(a), RebasedOverlay(a)) = {}

\* Mutant of PromoteStaging: promotes the overlay as it is, without a rebase.
PromoteUnrebased(a) ==
    /\ Exists(a)
    /\ Prohibited(base[a], overlay[a]) = {}
    /\ src' = overlay[a]
    /\ base' = [base EXCEPT ![a] = overlay[a]]
    /\ record' = [record EXCEPT ![a].state = "promoted"]
    /\ UNCHANGED <<overlay, head, headTree, commits, edits, alive, attached>>

PromoteStaging(a) ==
    /\ Exists(a)
    /\ Promotable(a)
    /\ src' = RebasedOverlay(a)
    /\ base' = [base EXCEPT ![a] = RebasedOverlay(a)]
    /\ overlay' = [overlay EXCEPT ![a] = RebasedOverlay(a)]
    /\ CommitRebase(a)
    /\ record' = [record EXCEPT ![a] = [RebasedRecord(a) EXCEPT !.state = "promoted"]]
    /\ UNCHANGED <<edits, alive, attached>>
-----------------------------------------------------------------------------
\* acquire_staging_lease.  The lease is refused while another context has it in
\* force.  A context resuming its own reservation is not rebased: its image
\* holds changes the overlay does not have.
\* Mutant of Refused: the lease of a running session can be taken over.
RefusedIfReserved(p, a) ==
    record[a].lease # NoLease /\ record[a].lease.reserved /\ ~SameContext(a, p)

Refused(p, a) == InForce(record[a].lease) /\ ~SameContext(a, p)

Resumes(p, a) == SameContext(a, p) /\ record[a].lease.reserved

NewLease(p) == [context |-> Context(p), session |-> p, pid |-> p, reserved |-> FALSE]

\* The lease taken with the record as it is, by a context that reserved it.
ResumeLease(p, a) ==
    /\ Resumes(p, a)
    /\ record[a].state # "conflicted"
    /\ record' = [record EXCEPT ![a].lease = NewLease(p)]
    /\ UNCHANGED <<base, overlay, head, headTree, commits>>

\* Mutant of TakeLease: the rebase is forgotten.
TakeLeaseUnrebased(p, a) ==
    /\ ~Refused(p, a)
    /\ ~Resumes(p, a)
    /\ record' = [record EXCEPT ![a] = [Reconciled(a) EXCEPT !.lease = NewLease(p)]]
    /\ UNCHANGED <<base, overlay, head, headTree, commits>>

\* The lease taken after a rebase that left no conflict.
TakeLease(p, a) ==
    /\ ~Refused(p, a)
    /\ ~Resumes(p, a)
    /\ RebasedRecord(a).state # "conflicted"
    /\ record' = [record EXCEPT ![a] = [RebasedRecord(a) EXCEPT !.lease = NewLease(p)]]
    /\ RebaseTrees(a)

\* A process that may attach: it runs no image yet and, for a GUI launch, it
\* has the workspace lock.
MayAttach(p, a) ==
    /\ p \in alive
    /\ attached[p] = NoArea
    /\ p \in GuiProcs => GuiLockFree(p)
    /\ Exists(a)

AcquireLease(p, a) ==
    /\ MayAttach(p, a)
    /\ ResumeLease(p, a) \/ TakeLease(p, a)
    /\ attached' = [attached EXCEPT ![p] = a]
    /\ UNCHANGED <<src, edits, alive>>

\* The rebase found a conflict: that is recorded, and the command fails.
AttachConflicted(p, a) ==
    /\ MayAttach(p, a)
    /\ ~Refused(p, a)
    /\ ~Resumes(p, a)
    /\ RebasedRecord(a).state = "conflicted"
    /\ record' = [record EXCEPT ![a] = RebasedRecord(a)]
    /\ RebaseTrees(a)
    /\ alive' = alive \ {p}
    /\ UNCHANGED <<src, edits, attached>>

\* Mutant of Released: a reservation forgets its session as well as its process.
ReleasedWithoutSession(a, id, dirty) ==
    LET known == Reconciled(a)
    IN  IF ~Names(known.lease, id) THEN known
        ELSE IF dirty
        THEN [known EXCEPT !.lease.pid = NoPid, !.lease.session = NoPid, !.lease.reserved = TRUE]
        ELSE [known EXCEPT !.lease = NoLease]

\* release_staging_lease(context_id = id): a count of unexported changes turns
\* the lease into a reservation.
Released(a, id, dirty) ==
    LET known == Reconciled(a)
    IN  IF ~Names(known.lease, id) THEN known
        ELSE IF dirty
        THEN [known EXCEPT !.lease.pid = NoPid, !.lease.reserved = TRUE]
        ELSE [known EXCEPT !.lease = NoLease]

\* The coordinator of p's image releases the lease and exits.  Only a GUI saved
\* with unexported changes passes a count.
ReleaseLease(p, dirty) ==
    /\ p \in alive
    /\ attached[p] # NoArea
    /\ dirty => p \in GuiProcs
    /\ Exists(attached[p])
    /\ record' = [record EXCEPT ![attached[p]] = Released(attached[p], p, dirty)]
    /\ attached' = [attached EXCEPT ![p] = NoArea]
    /\ alive' = alive \ {p}
    /\ UNCHANGED <<src, base, overlay, head, headTree, commits, edits>>

\* A GUI coordinator fails while its image runs: it releases the lease and exits,
\* and the image lives on.  (A headless session fails without releasing: Exit.)
AbandonLease(p) ==
    /\ p \in GuiProcs \cap alive
    /\ attached[p] # NoArea
    /\ Exists(attached[p])
    /\ record' = [record EXCEPT ![attached[p]] = Released(attached[p], p, FALSE)]
    /\ alive' = alive \ {p}
    /\ UNCHANGED <<src, base, overlay, head, headTree, commits, edits, attached>>

\* reset_workspace, and the removal a --fresh launch starts with: under the
\* workspace lock, whatever the GUI context holds or has reserved is released.
DiscardWorkspace(a) ==
    /\ \A q \in GuiProcs : ~(q \in alive /\ attached[q] # NoArea)
    /\ Exists(a)
    /\ record' = [record EXCEPT ![a] = Released(a, GuiDefault, FALSE)]
    /\ UNCHANGED <<src, base, overlay, head, headTree, commits, edits, alive, attached>>
-----------------------------------------------------------------------------
\* The operations service_source_requests performs for a live session: each
\* checks that the session still owns the area.
ServiceExport(p) ==
    /\ p \in alive
    /\ attached[p] # NoArea
    /\ Exists(attached[p])
    /\ Names(record[attached[p]].lease, p)
    /\ ReconcileStaging(attached[p])

ServicePromote(p) ==
    /\ p \in alive
    /\ attached[p] # NoArea
    /\ Exists(attached[p])
    /\ Names(record[attached[p]].lease, p)
    /\ PromoteStaging(attached[p])

\* KGStagingSourceChanges exportChanges: the image writes its packages into the
\* working tree and commits them.  It asks no one, so it can also happen after
\* the coordinator died.
ImageExport(p, path, value) ==
    /\ commits < MaxCommits
    /\ attached[p] # NoArea
    /\ LET a == attached[p]
       IN  /\ Exists(a)
           /\ headTree[a][path] # value
           /\ overlay' = [overlay EXCEPT ![a][path] = value]
           /\ headTree' = [headTree EXCEPT ![a][path] = value]
           /\ commits' = commits + 1
           /\ head' = [head EXCEPT ![a] = commits + 1]
    /\ UNCHANGED <<src, record, base, edits, alive, attached>>

\* A coordinator is killed, gives up before it holds a lease, or, in a headless
\* session, fails to service a request.  An image it started lives on: attached
\* keeps its value.
Exit(p) ==
    /\ p \in alive
    /\ alive' = alive \ {p}
    /\ UNCHANGED <<src, areaVars, edits, attached>>

\* An image whose coordinator is gone quits.
OrphanExit(p) ==
    /\ p \notin alive
    /\ attached[p] # NoArea
    /\ attached' = [attached EXCEPT ![p] = NoArea]
    /\ UNCHANGED <<src, areaVars, edits, alive>>

\* A developer edits src/, or a file of an overlay, without committing.
EditSource(path, value) ==
    /\ edits < MaxEdits
    /\ src[path] # value
    /\ src' = [src EXCEPT ![path] = value]
    /\ edits' = edits + 1
    /\ UNCHANGED <<areaVars, alive, attached>>

EditOverlay(a, path, value) ==
    /\ edits < MaxEdits
    /\ Exists(a)
    /\ overlay[a][path] # value
    /\ overlay' = [overlay EXCEPT ![a][path] = value]
    /\ edits' = edits + 1
    /\ UNCHANGED <<src, record, base, head, headTree, commits, alive, attached>>
-----------------------------------------------------------------------------
Init ==
    /\ src = InitialSource
    /\ record = [a \in Areas |-> NoRecord]
    /\ base = [a \in Areas |-> EmptyTree]
    /\ overlay = [a \in Areas |-> EmptyTree]
    /\ head = [a \in Areas |-> 0]
    /\ headTree = [a \in Areas |-> EmptyTree]
    /\ commits = 0
    /\ edits = 0
    /\ alive = Procs
    /\ attached = [p \in Procs |-> NoArea]

AreaStep(a) ==
    \/ CreateStaging(a)
    \/ ResetStaging(a)
    \/ RebaseStaging(a)
    \/ ReconcileStaging(a)
    \/ PromoteStaging(a)
    \/ DiscardWorkspace(a)

ProcStep(p) ==
    \/ \E a \in Areas : AcquireLease(p, a) \/ AttachConflicted(p, a)
    \/ \E dirty \in BOOLEAN : ReleaseLease(p, dirty)
    \/ AbandonLease(p)
    \/ ServiceExport(p)
    \/ ServicePromote(p)
    \/ Exit(p)
    \/ OrphanExit(p)

EditStep(path, value) ==
    \/ EditSource(path, value)
    \/ \E a \in Areas : EditOverlay(a, path, value)
    \/ \E p \in Procs : ImageExport(p, path, value)

Next ==
    \/ \E a \in Areas : AreaStep(a)
    \/ \E p \in Procs : ProcStep(p)
    \/ \E path \in Paths, value \in Contents \cup {Missing} : EditStep(path, value)

Spec == Init /\ [][Next]_vars
-----------------------------------------------------------------------------
\* The type of every variable.
TypeOK ==
    /\ src \in Trees
    /\ record \in [Areas -> Records \cup {NoRecord}]
    /\ base \in [Areas -> Trees]
    /\ overlay \in [Areas -> Trees]
    /\ head \in [Areas -> Nat]
    /\ headTree \in [Areas -> Trees]
    /\ commits \in Nat
    /\ edits \in Nat
    /\ alive \subseteq Procs
    /\ attached \in [Procs -> Areas \cup {NoArea}]

LeaseOf(a) == IF Exists(a) THEN record[a].lease ELSE NoLease

Reserved(a) == LeaseOf(a) # NoLease /\ LeaseOf(a).reserved

\* As long as a coordinator lives, the area its image works in exists and its
\* lease is the coordinator's own: no attachment, release, reset, promotion or
\* workspace reset of another command ever takes it away.
LeaseHeld ==
    \A p \in alive :
        attached[p] # NoArea =>
            /\ Exists(attached[p])
            /\ record[attached[p]].lease = NewLease(p)

\* No two live coordinators have images in one area.
ExclusiveAttachment ==
    \A p, q \in alive : attached[p] # NoArea /\ attached[p] = attached[q] => p = q

\* The reservation of a GUI saved with unexported changes ends only when a GUI
\* launch resumes it or the workspace is discarded: no other writer attaches,
\* and no reset removes the area, in between.
ReservationIsKept ==
    [][\A a \in Areas :
        Reserved(a) /\ ~Reserved(a)' =>
            \/ \E p \in GuiProcs : AcquireLease(p, a)
            \/ DiscardWorkspace(a)]_vars

\* An image that does not resume a reservation is attached to an overlay that
\* has all of the current src/, under a record that names the overlay's HEAD:
\* whatever commits, edits and promotions happened since the last attachment.
AttachmentIsCurrent ==
    [][\A p \in Procs, a \in Areas :
        AcquireLease(p, a) /\ ~Resumes(p, a) =>
            /\ base'[a] = src
            /\ record'[a].headCommit = head'[a]
            /\ \A path \in Paths :
                   overlay[a][path] = base[a][path] => overlay'[a][path] = src[path]]_vars

\* What changes src/ without being a developer's edit is a promotion, and it
\* replaces a path only if the path is owned, if src/ still has what the area
\* recorded as its base, and if the replacement is what is staged there.
PromotionOverwritesNothing ==
    [][src' # src /\ edits' = edits =>
        \E a \in Areas :
            \A path \in Differing(src, src') :
                /\ path \in OwnedPaths
                /\ base[a][path] = src[path]
                /\ overlay[a][path] = src'[path]]_vars

\* A change staged in an area is lost only by removing the area: rebase,
\* attachment and promotion carry it over, whoever calls them.
StagedWorkIsKept ==
    [][\A a \in Areas, path \in Paths :
        /\ overlay[a][path] # base[a][path]
        /\ overlay'[a][path] # overlay[a][path]
        => \/ ResetStaging(a)
           \/ \E value \in Contents \cup {Missing} : EditStep(path, value)]_vars

\* While an area lives its generation never goes back, and a record that comes
\* to name another HEAD has a new generation: a GUI image loaded at generation
\* g may be resumed without reloading as long as the area is still at g.
GenerationFollowsHead ==
    [][\A a \in Areas :
        Exists(a) /\ Exists(a)' =>
            /\ record'[a].generation >= record[a].generation
            /\ record'[a].headCommit # record[a].headCommit
                   => record'[a].generation > record[a].generation]_vars

\* Who may write in an area: the session of a lease in force, the GUI
\* workspace while a reservation stands, nobody otherwise.
Holder ==
    [a \in Areas |->
        IF ~InForce(LeaseOf(a)) THEN NoPid
        ELSE IF Reserved(a) THEN GuiDefault
        ELSE LeaseOf(a).session]

Lease == INSTANCE ExclusiveLease
             WITH holder <- Holder, Owners <- Procs, Reservers <- GuiProcs,
                  Free <- NoPid, Reservation <- GuiDefault

\* The records, locks and process ids implement an exclusive lease per area.
LeaseSpec == Lease!Spec
=============================================================================
