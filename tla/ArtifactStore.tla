--------------------------- MODULE ArtifactStore ---------------------------
(***************************************************************************)
(* The content-addressed store of build artifacts: resolution of a recipe  *)
(* against a tree that is being edited (resolution.py), the builder        *)
(* (builder.py) and its executor (canonical.py), publication and           *)
(* references (store.py), the directories of headless sessions             *)
(* (sessions.py), garbage collection and prune (inventory_v2.py).  Each    *)
(* builder is one process that builds once and may then run a session; a   *)
(* retry is another process.  Collection takes no lock.  An edit always    *)
(* makes new content, so the tree itself stands for its commit id.         *)
(***************************************************************************)
EXTENDS Recipes, FiniteSets

CONSTANTS Builders,        \* processes that build
          Offered,         \* recipes of the targets they build
          Files,           \* what steps digest and read
          Edited,          \* the files that are edited meanwhile
          MaxEdits,        \* bound: edits of the tree
          MaxFaults        \* bound: killed builders, runs of gc --apply and of prune

Steps == [role : STRING, version : Nat, input : STRING, output : STRING,
          checkpoint : BOOLEAN, reads : Files, pinned : BOOLEAN]

ASSUME OfferedAreValid == \A r \in Offered : r \in Seq(Steps) /\ Valid(r)
\* Only project source is taken from the version control system.
ASSUME OneRoleIsPinned ==
    \A r, s \in Offered : \A i \in DOMAIN r, j \in DOMAIN s :
        r[i].pinned => (s[j].pinned <=> s[j].role = r[i].role)
\* The steps of all targets are declared once: a role is a boundary in every
\* recipe that has it or in none.
ASSUME OneRoleIsABoundary ==
    \A r, s \in Offered : \A i \in DOMAIN r, j \in DOMAIN s :
        r[i].role = s[j].role => r[i].checkpoint = s[j].checkpoint
ASSUME EditedAreFiles == Edited \subseteq Files
ASSUME BoundsAreNumbers == MaxEdits \in Nat /\ MaxFaults \in Nat

VARIABLES tree,         \* the working copy: content of each file
          store,        \* published artifacts by output key
          refs,         \* references: name to output key
          locks,        \* flocks held: <<key, era of the lock file, builder>>
          era,          \* prunes so far: each makes all lock files new
          phase,        \* where each builder is
          plan,         \* what it resolved
          work,         \* what it is building
          sessions,     \* session directory and project key, by coordinator
          gc,           \* the collector and its plan
          edits, faults \* counters of the bounds

resolving == <<tree, edits, plan>>
state == <<store, refs, locks, era, sessions>>
vars == <<resolving, state, phase, work, gc, faults>>

Attempts == 3   \* reads of the source identity before resolution gives up

\* V2Paths.initialize: the state root and its empty directories.
NoPlan == [recipe |-> <<>>, contents |-> <<>>, commit |-> [f \in Files |-> 0], attempts |-> 0]
NoWork == [previous |-> <<>>, payload |-> <<>>, space |-> "none", era |-> 0]
NoSession == [dir |-> "none", key |-> <<>>]
Resting == [phase |-> "idle", roots |-> {}, keys |-> {}, kept |-> {},
            sessions |-> {}, spaces |-> {}]

Init == /\ tree = [f \in Files |-> 0]
        /\ store = <<>> /\ refs = <<>> /\ locks = {} /\ era = 0
        /\ phase = [b \in Builders |-> "idle"]
        /\ plan = [b \in Builders |-> NoPlan]
        /\ work = [b \in Builders |-> NoWork]
        /\ sessions = [b \in Builders |-> NoSession]
        /\ gc = Resting
        /\ edits = 0 /\ faults = 0

----------------------------------------------------------------------------
(* Where a builder stands.                                                 *)

Go(b, p) == phase' = [phase EXCEPT ![b] = p]

\* The next publication boundary after the last one reached, and its key.
Later(b) == {i \in DOMAIN plan[b].recipe :
                i > Len(work[b].previous) /\ plan[b].recipe[i].checkpoint}
Boundary(b) == CHOOSE i \in Later(b) : \A j \in Later(b) : i <= j
Target(b) == Key(plan[b].recipe, Boundary(b), plan[b].contents)
OutputKey(b) == Key(plan[b].recipe, Len(plan[b].recipe), plan[b].contents)

\* ArtifactStore.verify: the manifest is there and the payload has its shape.
Whole(key) == key \in DOMAIN store /\ store[key].whole

\* ArtifactStore.key_lock: leaving the with block, or dying, drops the flock.
Release(b) == locks' = {l \in locks : l[3] # b}

\* Mutant of Stop: a lock outlives the process that took it.
StopLocked(b, p) == /\ Go(b, p)
                    /\ plan' = [plan EXCEPT ![b] = NoPlan]
                    /\ work' = [work EXCEPT ![b] = NoWork]
                    /\ UNCHANGED locks

\* A builder is over.
Stop(b, p) == /\ Go(b, p)
              /\ plan' = [plan EXCEPT ![b] = NoPlan]
              /\ work' = [work EXCEPT ![b] = NoWork]
              /\ Release(b)

----------------------------------------------------------------------------
(* Resolution.                                                             *)

Edit(f) == /\ edits < MaxEdits
           /\ edits' = edits + 1
           /\ tree' = [tree EXCEPT ![f] = edits + 1]
           /\ UNCHANGED <<plan, state, phase, work, gc, faults>>

\* build_canonical, resolve_target.
Start(b) == /\ phase[b] = "idle"
            /\ \E r \in Offered : plan' = [plan EXCEPT ![b].recipe = r]
            /\ Go(b, "resolving")
            /\ UNCHANGED <<tree, edits, state, work, gc, faults>>

StepAt(b) == plan[b].recipe[Len(plan[b].contents) + 1]
Resolving(b) == phase[b] = "resolving" /\ Len(plan[b].contents) < Len(plan[b].recipe)

Digested(b, content) ==
    plan' = [plan EXCEPT ![b].contents = Append(plan[b].contents, content),
                         ![b].attempts = 0]

\* digest_paths and _resolve_config of an unpinned step.
DigestPaths(b) == /\ Resolving(b) /\ ~StepAt(b).pinned
                  /\ Digested(b, tree[StepAt(b).reads])
                  /\ UNCHANGED <<tree, edits, state, phase, work, gc, faults>>

\* jj_tree_identity: the revision, the content, the revision again.
ReadRevision(b) == /\ Resolving(b) /\ StepAt(b).pinned
                   /\ plan[b].attempts < Attempts
                   /\ plan' = [plan EXCEPT ![b].commit = tree,
                                           ![b].attempts = plan[b].attempts + 1]
                   /\ Go(b, "reading")
                   /\ UNCHANGED <<tree, edits, state, work, gc, faults>>

CaptureContent(b) == /\ phase[b] = "reading"
                     /\ plan' = [plan EXCEPT ![b].contents =
                                    Append(plan[b].contents, tree[StepAt(b).reads])]
                     /\ Go(b, "captured")
                     /\ UNCHANGED <<tree, edits, state, work, gc, faults>>

\* Mutant of ConfirmRevision: the second read is not compared.
ConfirmUnread(b) == /\ phase[b] = "captured"
                    /\ plan' = [plan EXCEPT ![b].attempts = 0]
                    /\ Go(b, "resolving")
                    /\ UNCHANGED <<tree, edits, state, work, gc, faults>>

ConfirmRevision(b) ==
    /\ phase[b] = "captured"
    /\ plan' = IF tree = plan[b].commit
               THEN [plan EXCEPT ![b].attempts = 0]
               ELSE [plan EXCEPT ![b].contents =
                        SubSeq(plan[b].contents, 1, Len(plan[b].contents) - 1)]
    /\ Go(b, "resolving")
    /\ UNCHANGED <<tree, edits, state, work, gc, faults>>

----------------------------------------------------------------------------
(* Building.  One round of the loop of build_resolved per boundary.        *)

\* At the head of the loop: resolved, or past a boundary.
Seeking(b) == phase[b] = "resolving" /\ Len(plan[b].contents) = Len(plan[b].recipe)

\* store.key_lock opens the lock file, then waits for the flock.
OpenLock(b) == /\ Seeking(b) /\ Later(b) # {}
               /\ work' = [work EXCEPT ![b].era = era]
               /\ Go(b, "waiting")
               /\ UNCHANGED <<resolving, state, gc, faults>>

\* Mutant of Adopted: the workspace that was renamed away is still named.
AdoptedWithSpace(b) == [work[b] EXCEPT !.previous = Target(b), !.payload = <<>>, !.era = 0]

Adopted(b) == [work[b] EXCEPT !.previous = Target(b), !.payload = <<>>,
                               !.space = "none", !.era = 0]

\* Mutant of Free: the flock is not waited for.
FreeAtOnce(b) == TRUE

Free(b) == \A l \in locks : <<l[1], l[2]>> # <<Target(b), work[b].era>>

\* The artifact is missing: an empty workspace is made under the lock.
LockKey(b) ==
    /\ phase[b] = "waiting" /\ Free(b) /\ Target(b) \notin DOMAIN store
    /\ locks' = locks \cup {<<Target(b), work[b].era, b>>}
    /\ work' = [work EXCEPT ![b].space = "there"]
    /\ Go(b, "copying")
    /\ UNCHANGED <<resolving, store, refs, era, sessions, gc, faults>>

\* It is there and verifies: reused.
Reuse(b) ==
    /\ phase[b] = "waiting" /\ Free(b) /\ Whole(Target(b))
    /\ work' = [work EXCEPT ![b] = Adopted(b)]
    /\ Go(b, "resolving")
    /\ UNCHANGED <<resolving, state, gc, faults>>

\* cp of the previous payload, whose lock is no longer held: of a directory
\* under removal it may bring over a part and succeed.
CopyPrevious(b) ==
    LET key == work[b].previous
    IN  /\ phase[b] = "copying" /\ work[b].space = "there"
        /\ IF key = <<>> THEN UNCHANGED work
           ELSE /\ key \in DOMAIN store
                /\ work' = [work EXCEPT
                      ![b].payload = store[key].payload,
                      ![b].space = IF Whole(key) /\ ~store[key].torn THEN "there" ELSE "torn"]
        /\ Go(b, "running")
        /\ UNCHANGED <<resolving, state, gc, faults>>

NextStep(b) == plan[b].recipe[Len(work[b].payload) + 1]

\* CanonicalExecutor: only the pinned step reads the recorded commit.
Executed(b) == Material(NextStep(b),
    IF NextStep(b).pinned THEN plan[b].commit[NextStep(b).reads] ELSE tree[NextStep(b).reads])

RunStep(b) == /\ phase[b] = "running" /\ Len(work[b].payload) < Boundary(b)
              /\ work[b].space # "gone"
              /\ work' = [work EXCEPT ![b].payload = Append(work[b].payload, Executed(b))]
              /\ UNCHANGED <<resolving, state, phase, gc, faults>>

Artifact(b) == [payload |-> work[b].payload, torn |-> work[b].space # "there", whole |-> TRUE,
                chain |-> Boundaries(plan[b].recipe, Len(plan[b].recipe), plan[b].contents)]

With(f, key, value) == [k \in DOMAIN f \cup {key} |-> IF k = key THEN value ELSE f[k]]

\* Mutant of Publish: an artifact already there is replaced.
PublishOver(b) ==
    /\ phase[b] = "running" /\ Len(work[b].payload) = Boundary(b)
    /\ store' = With(store, Target(b), Artifact(b))
    /\ work' = [work EXCEPT ![b] = Adopted(b)] /\ Go(b, "resolving")
    /\ Release(b)
    /\ UNCHANGED <<resolving, refs, era, sessions, gc, faults>>

\* publish_locked: an artifact already there wins if it verifies; a workspace
\* that was removed is made again for the manifest and published empty.
Publish(b) ==
    /\ phase[b] = "running" /\ Len(work[b].payload) = Boundary(b)
    /\ IF Target(b) \in DOMAIN store THEN Whole(Target(b)) /\ UNCHANGED store
       ELSE store' = With(store, Target(b), Artifact(b))
    /\ work' = [work EXCEPT ![b] = Adopted(b)] /\ Go(b, "resolving")
    /\ Release(b)
    /\ UNCHANGED <<resolving, refs, era, sessions, gc, faults>>

\* After the loop: write_reference, named for the last role.
WriteReference(b) ==
    /\ Seeking(b) /\ Later(b) = {} /\ Whole(OutputKey(b))
    /\ refs' = With(refs, plan[b].recipe[Len(plan[b].recipe)].role, OutputKey(b))
    /\ work' = [work EXCEPT ![b] = NoWork]
    /\ Go(b, "built")
    /\ UNCHANGED <<resolving, store, locks, era, sessions, gc, faults>>

\* verify raises on an artifact under removal, before or after the work.
Unverified(b) ==
    \/ phase[b] = "waiting" /\ Free(b) /\ Target(b) \in DOMAIN store /\ ~Whole(Target(b))
    \/ /\ phase[b] = "running" /\ Len(work[b].payload) = Boundary(b)
       /\ Target(b) \in DOMAIN store /\ ~Whole(Target(b))
    \/ Seeking(b) /\ Later(b) = {} /\ ~Whole(OutputKey(b))

\* The copy of the previous payload or a step of the executor raises.
WorkRaises(b) ==
    \/ /\ phase[b] = "copying"
       /\ work[b].space = "gone" \/ (work[b].previous # <<>> /\ ~Whole(work[b].previous))
    \/ phase[b] = "running" /\ Len(work[b].payload) < Boundary(b)

\* Resolution can raise too: an invalid lock file, a path outside the
\* repository, a revision that changed in every attempt.
BuildFails(b) == /\ Resolving(b) \/ Unverified(b) \/ WorkRaises(b)
                 /\ Stop(b, "failed")
                 /\ UNCHANGED <<tree, edits, store, refs, era, sessions, gc, faults>>

----------------------------------------------------------------------------
(* The directory of a headless session.                                    *)

Sessions(b, s) == sessions' = [sessions EXCEPT ![b] = s]

\* execute_session up to the mkdir, after reading the artifact's manifest.
OpenSession(b) == /\ phase[b] = "built" /\ Whole(OutputKey(b))
                  /\ Sessions(b, [dir |-> "bare", key |-> <<>>])
                  /\ Go(b, "opening")
                  /\ UNCHANGED <<resolving, store, refs, locks, era, work, gc, faults>>

\* The image is copied and session.json written.
StartSession(b) == /\ phase[b] = "opening" /\ OutputKey(b) \in DOMAIN store
                   /\ Sessions(b, [dir |-> "manifest", key |-> OutputKey(b)])
                   /\ Go(b, "live")
                   /\ UNCHANGED <<resolving, store, refs, locks, era, work, gc, faults>>

\* An exception before the try block leaves the directory without a manifest.
SessionFails(b) == /\ phase[b] = "opening"
                   /\ Stop(b, "failed")
                   /\ UNCHANGED <<tree, edits, store, refs, era, sessions, gc, faults>>

\* The finally block, whatever the image returned.
EndSession(b) == /\ phase[b] = "live"
                 /\ Sessions(b, NoSession)
                 /\ Stop(b, "ended")
                 /\ UNCHANGED <<tree, edits, store, refs, era, gc, faults>>

----------------------------------------------------------------------------
(* Garbage collection, prune and kills.                                    *)

Fault == faults < MaxFaults /\ faults' = faults + 1

\* _root_keys.
RootKeys == /\ gc.phase = "idle" /\ Fault
            /\ gc' = [gc EXCEPT !.phase = "rooted",
                 !.roots = {refs[n] : n \in DOMAIN refs}
                      \cup {sessions[b].key : b \in {c \in Builders : sessions[c].dir = "manifest"}}]
            /\ UNCHANGED <<resolving, state, phase, work>>

\* Mutant of Spared: the earlier checkpoints of a root are not roots.
SparedRootsOnly(roots) == roots

\* The roots, and the checkpoints that the manifests of rooted artifacts name.
Spared(roots) == roots \cup UNION {store[k].chain : k \in roots \cap DOMAIN store}

\* garbage_collect's list: unrooted artifacts, sessions whose manifest names
\* no living pid, which is every session, and all of tmp/.  A session
\* directory without a manifest is a warning, and withholds all removals.
PlanRemoval ==
    /\ gc.phase = "rooted"
    /\ LET warned == \E b \in Builders : sessions[b].dir = "bare"
       IN  gc' = IF warned THEN Resting
                 ELSE [gc EXCEPT !.phase = "removing", !.roots = {},
                         !.keys = DOMAIN store \ Spared(gc.roots),
                         !.kept = DOMAIN store \cap Spared(gc.roots),
                         !.sessions = {b \in Builders : sessions[b].dir = "manifest"},
                         !.spaces = {<<b, Target(b)>> : b \in {c \in Builders :
                                        phase[c] \in {"copying", "running"}}}]
    /\ UNCHANGED <<resolving, state, phase, work, faults>>

\* The paths are removed in their sorted order: sessions/, store/, tmp/.
RemoveSession(b) == /\ gc.phase = "removing" /\ b \in gc.sessions
                    /\ gc' = [gc EXCEPT !.sessions = gc.sessions \ {b}]
                    /\ Sessions(b, NoSession)
                    /\ UNCHANGED <<resolving, store, refs, locks, era, phase, work, faults>>

Without(f, key) == [k \in DOMAIN f \ {key} |-> f[k]]

\* V2Paths.remove_tree of an artifact: file by file, then the directory.
BeginErase(k) == /\ gc.phase = "removing" /\ gc.sessions = {} /\ k \in gc.keys /\ Whole(k)
                 /\ store' = [store EXCEPT ![k].whole = FALSE]
                 /\ UNCHANGED <<resolving, refs, locks, era, sessions, phase, work, gc, faults>>

FinishErase(k) == /\ gc.phase = "removing" /\ gc.sessions = {} /\ k \in gc.keys /\ ~Whole(k)
                  /\ gc' = [gc EXCEPT !.keys = gc.keys \ {k}]
                  /\ store' = Without(store, k)
                  /\ UNCHANGED <<resolving, refs, locks, era, sessions, phase, work, faults>>

RemoveWorkspaces ==
    /\ gc.phase = "removing" /\ gc.sessions = {} /\ gc.keys = {}
    /\ work' = [b \in Builders |->
                  IF phase[b] \in {"copying", "running"} /\ <<b, Target(b)>> \in gc.spaces
                  THEN [work[b] EXCEPT !.space = "gone"] ELSE work[b]]
    /\ gc' = Resting
    /\ UNCHANGED <<resolving, state, phase, faults>>

\* prune: refused while an existing lock file is locked; a builder that has
\* opened one and not locked it yet keeps the old file.
Prune == /\ Fault
         /\ \A l \in locks : l[2] # era
         /\ era' = era + 1
         /\ store' = <<>> /\ refs' = <<>>
         /\ sessions' = [b \in Builders |-> NoSession]
         /\ work' = [b \in Builders |-> IF phase[b] \in {"copying", "running"}
                                        THEN [work[b] EXCEPT !.space = "gone"] ELSE work[b]]
         /\ UNCHANGED <<resolving, locks, phase, gc>>

Ended == {"idle", "failed", "killed", "ended"}

Crash(b) == /\ phase[b] \notin Ended /\ Fault
            /\ Stop(b, "killed")
            /\ UNCHANGED <<tree, edits, store, refs, era, sessions, gc>>

StopCollector == /\ gc.phase # "idle"
                 /\ gc' = Resting
                 /\ UNCHANGED <<resolving, state, phase, work, faults>>

Resolve(b) == \/ DigestPaths(b) \/ ReadRevision(b) \/ CaptureContent(b)
              \/ ConfirmRevision(b)
Build(b) == \/ OpenLock(b) \/ LockKey(b) \/ Reuse(b) \/ CopyPrevious(b) \/ RunStep(b)
            \/ Publish(b) \/ WriteReference(b) \/ BuildFails(b)
Session(b) == OpenSession(b) \/ StartSession(b) \/ SessionFails(b) \/ EndSession(b)
Collect == \/ RootKeys \/ PlanRemoval \/ RemoveWorkspaces \/ StopCollector
           \/ \E b \in Builders : RemoveSession(b)
           \/ \E k \in gc.keys : BeginErase(k) \/ FinishErase(k)

Next == \/ \E f \in Edited : Edit(f)
        \/ \E b \in Builders : Start(b) \/ Resolve(b) \/ Build(b) \/ Session(b) \/ Crash(b)
        \/ Collect \/ Prune

\* A started builder is scheduled by the operating system; flock wakes a
\* waiter when the file is free, and nobody waits for ever behind finite work.
Fairness == \A b \in Builders : WF_vars(Resolve(b) \/ Build(b))

StoreSpec == Init /\ [][Next]_vars /\ Fairness

----------------------------------------------------------------------------
(* Properties.                                                             *)

Phases == {"idle", "resolving", "reading", "captured", "waiting", "copying",
           "running", "built", "opening", "live", "ended", "failed", "killed"}
Materials == UNION {{Material(r[i], c) : i \in DOMAIN r, c \in 0 .. MaxEdits} : r \in Offered}
IsKey(k) == k = <<>> \/ k \in Seq(Materials)

\* Types.  At most Attempts reads of the source identity are made, and a
\* builder that holds no key owns no workspace.
TypeOK ==
    /\ tree \in [Files -> 0 .. MaxEdits]
    /\ \A k \in DOMAIN store : IsKey(k) /\ store[k].payload \in Seq(Materials)
    /\ \A n \in DOMAIN refs : IsKey(refs[n])
    /\ phase \in [Builders -> Phases]
    /\ \A b \in Builders :
          /\ plan[b].recipe \in Offered \cup {<<>>}
          /\ plan[b].contents \in Seq(0 .. MaxEdits)
          /\ plan[b].commit \in [Files -> 0 .. MaxEdits]
          /\ plan[b].attempts \in 0 .. Attempts
          /\ work[b].era \in 0 .. era
          /\ phase[b] \in {"resolving", "waiting"} => work[b].space = "none"
    /\ edits \in 0 .. MaxEdits /\ era \in 0 .. faults /\ faults \in 0 .. MaxFaults

Pinned(role) == \E r \in Offered : \E i \in DOMAIN r : r[i].role = role /\ r[i].pinned

\* What was executed into an artifact is what its key says: the steps of the
\* prefix in their order and versions, and for project source the very content
\* that was digested, whatever was edited meanwhile and whichever builds,
\* kills, collections and prunes went on (build_resolved, jj_tree_identity).
PayloadFollowsKey ==
    \A k \in DOMAIN store :
        LET p == store[k].payload
        IN  /\ Len(p) = Len(k)
            /\ \A i \in DOMAIN k : /\ p[i].role = k[i].role /\ p[i].version = k[i].version
                                   /\ Pinned(k[i].role) => p[i].content = k[i].content

\* Two builders work on the same key at once only if a prune gave one of them
\* a new lock file (key_lock).
OneBuilderPerKey ==
    \A b, c \in Builders :
        (b # c /\ {phase[b], phase[c]} \subseteq {"copying", "running"} /\ Target(b) = Target(c))
            => work[b].era # work[c].era

\* A build that has been through its loop has reached its output key.
BuildCoversRecipe ==
    \A b \in Builders : (Seeking(b) /\ Later(b) = {}) => work[b].previous = OutputKey(b)

\* A published artifact is never replaced: later builders of its key, also one
\* that missed a prune, find it and adopt it (publish_locked).
PublishedOnce ==
    [][\A k \in DOMAIN store \cap DOMAIN store' :
          /\ store'[k].payload = store[k].payload
          /\ store'[k].torn = store[k].torn]_vars

Needs(k) == {j \in store[k].chain : Len(j) <= Len(k)}

\* A collection never takes a checkpoint out from under a reference whose
\* artifact it decided to keep (garbage_collect).
CollectionSparesReferences ==
    [][\A k \in DOMAIN store \ DOMAIN store', n \in DOMAIN refs :
          (era' = era /\ refs[n] \in gc.kept \cap DOMAIN store) => k \notin Needs(refs[n])]_vars

\* Every started build ends, whoever holds the locks it needs and whoever is
\* killed: with an artifact and a reference, or with an error (build_canonical).
BuildsEnd ==
    \A b \in Builders : phase[b] = "resolving" ~>
                            phase[b] \in Ended \cup {"built", "opening", "live"}
=============================================================================
