# Verification of KlibGenGt

This directory holds TLA+ models of the parts of KlibGenGt that keep state
between processes, the TLC configurations that check them on small instances,
and theorems about them checked by TLAPS. Paths below are relative to the
repository; `staging.py` and its siblings are in `src/python/klibgen_build/`
and the image side is in `src/src/`.

KlibGenGt builds GlamorousToolkit images from recipes into a content-addressed
store of artifacts (v0.2) or into build workspaces with checkpoints and
generations (v0.3), and runs images against *staging areas*: named working
copies of the authoritative `src/` tree, each with a base copy, a Git overlay, a
JSON record and an exclusive lease. A GUI workspace and headless agent sessions
attach images to an area. The images commit their packages into its overlay; the
host rebases the area onto `src/` and promotes it back. Commands talk to running
images, and images to their coordinators, through spools. All of this is
coordinated by files, `flock`s, process ids and JSON spools, by programs that can
be killed at any point.

## Inventory

| Component | State | Operations | Interacts with | Modelled in |
|---|---|---|---|---|
| Source tree merge (`staging.py` 31-38, 234-253) | none | `_contents`, `_merge_contents` | rebase, promotion | `TreeMerge` |
| Change report (`staging.py` 212-231) | none | `staging_changes` | promotion, launch banner, export | `StagingChanges` |
| Staging areas and leases (`staging.py`) | `staging.json`, `base/`, `overlay/` and its Git repository, per area; `src/` | create, migrate, reset, rebase, reconcile, promote, list, acquire/validate/release lease | GUI workspace, sessions, source service, image commits, editors | `StagingArea`; renames and failures in `TreeReplacement` |
| GUI workspace (`workspaces.py`) | `workspace.json`, `completion.json`, the saved image, the workspace lock | launch, reset, list | staging areas, the image's persistence hooks | `GuiWorkspace` |
| Headless sessions (`sessions.py`) | session manifest and directory, image process | execute, readonly or agentic | staging lease, source service, garbage collection | partly: `StagingArea`, `ArtifactStore` |
| Source request spool (`source_requests.py`, `KGStagingSourceChanges`) | request and response files | image posts and waits 30 s, coordinator services | promotion, reconcile | `SourceSpool` |
| UI control (`ui_control.py`, `KGUiControlService`, connectors) | spool files, `ready.json`; or a TCP stream | commands with deadlines; list, execute, answer | running images | spool: `UiControl`, `SourceSpool` |
| GUI hooks and buttons (`KlibGenGt-Tools`) | connector, the disabled button | start and stop the connector, post a source request | both spools | partly: `SourceSpool` |
| Image lifecycle (`KlibGenGt-Session`) | completion record, image file | save and quit, discard, bind | GUI workspace | partly: `GuiWorkspace` |
| Artifact store and builder (`store.py`, `builder.py`, `v2state.py`, `canonical.py`) | artifacts, references, key locks, build workspaces | resolve, reuse, build, publish | recipes, garbage collection, sessions | `ArtifactStore` |
| Inventory, prune, collection (`inventory_v2.py`) | none of its own | inventory, prune, collect | everything that is a root | partly: `ArtifactStore` |
| Recipes and their resolution (`recipes.py`, `resolution.py`) | none | validate, replace, append, shorten, output keys | builder | partly: `Recipes`, `ArtifactStore` |
| v3 executor, workspaces, model (`v3/`) | state, work tree, checkpoints, generations, build lock | bind, execute, checkpoint, publish | staging integration | partly: `TaskGraph`, `IncrementalBuild` |
| v3 staging integration (`v3/staging.py`) | `src/`, its backup | ensure, integrate | promotion, build lock | partly: `TreeReplacement`, `IncrementalBuild` |
| Tonel fix (`tonel_lint.py`) | `src/` | `lint-source --fix` | promotion, editors | `SourceFix` |
| Lint and export scanners, image tools, parsers, JSON models, type pragmas, command line | no shared state | queries, conversions | the above | not modelled |

What is hard in this system:

- *Interleaving.* Every operation of `staging.py` holds the area's lock, but
  between operations anything happens: other commands, other sessions, edits of
  `src/` and of the overlay, and commits by images that ask no one. A GUI
  launch holds the workspace lock throughout, but takes the area lock only
  inside each operation. Garbage collection and `lint-source --fix` take no lock
  at all, and the v0.3 integration holds another lock than a promotion.
- *Crashes.* A lease names the process of the *coordinator*. When that is
  killed, the lease is recoverable while its image runs on as an orphan that
  can still commit, save, write a completion and poll the spool of the next
  launch. Generations, checkpoints and replaced trees are several writes each.
- *Reservations.* A GUI saved with changes it has not exported leaves a lease
  without a process. Every later decision must look at the reservation, not
  only at process ids.
- *Generations and fingerprints.* Whether a saved image may be resumed without
  loading the overlay, and whether an artifact, a checkpoint or a generation may
  be reused, is decided by comparing numbers and digests with what was recorded
  earlier, while files are edited.
- *Partial failure and time-outs* in tree replacement, source requests, UI
  control and publication.

What makes each component right, in short: the merge loses no side's change;
the report misses no path; a lease is exclusive and a live holder never loses
it; a reservation outlives everything but its own resumption or discard;
promotion overwrites nothing it has not seen; a tree is replaced or put back; a
started image has all of the code its generation stands for; a saved image's
changes are not overwritten; a request is executed at most once and does not
stay unanswered; an artifact is what its key says and is published once; a
checkpoint holds its prefix and a generation is whole.
`PROJECT.json` lists the hazards with their lines and the properties aimed at
each.

## Modules

| Module | What it is |
|---|---|
| `TreeMerge` | trees as functions from paths to contents, `_merge_contents`, ownership |
| `StagingChanges` | `staging_changes` with its greedy rename pairing; tree part of rebase and promotion, from every triple of trees |
| `SourceFix` | `lint-source --fix` beside the steps of `StagingChanges` |
| `StagingArea` | all areas, `src/`, leases, coordinators, image commits, editors, crashes |
| `ExclusiveLease` | the abstract lease `StagingArea` implements |
| `TreeReplacement` | what `StagingArea` takes for one step, rename by rename: rebase, promote, create, migrate, reconcile, integrate |
| `GuiWorkspace` | `launch_gui_workspace` stage by stage, `reset_workspace`, the saved image; extends `StagingArea` |
| `UiControl` | commands, the UI spool, the connector and its worker in several images |
| `SourceSpool` | images, their buttons and source requests, the coordinator; extends `UiControl` and is its composition with the launch |
| `Recipes` | build recipes, their validation and revision, output keys, as pure operators |
| `ArtifactStore` | builders, locks, publication, references, sessions, collection, prune; extends `Recipes` |
| `TaskGraph` | v0.3 task sequences and the binding of a recipe, as pure operators with their laws |
| `IncrementalBuild` | the v0.3 executor on one build workspace |
| `MC*` | instances for TLC: sets, first contents, symmetry |
| `*Proofs` | theorems about `TreeMerge`, `StagingChanges` with `SourceFix`, `StagingArea`, `TreeReplacement`, `GuiWorkspace`, `IncrementalBuild`, `ArtifactStore` and `SourceSpool` |

`StagingArea`, `StagingChanges` and `TreeReplacement` extend `TreeMerge`;
`GuiWorkspace` extends `StagingArea`; `StagingArea` instantiates
`ExclusiveLease` under a refinement mapping. `TaskGraph` has a recursive
operator, which no module with theorems reaches: it meets `IncrementalBuild` in
`MCIncrementalBuild`, which takes the plan of the instance from it.

### How the state corresponds to the code

`StagingArea` and `GuiWorkspace`:

| Variable | In the code |
|---|---|
| `src`, `base`, `overlay` | `src/`, `<area>/base/src`, `<area>/overlay/src` as `_contents` reads them; `Missing` is "no such file" |
| `record` | `staging.json`: state, generation, headCommit, lease. `lastRebase`, `promotion` and the like are written and never read back |
| `head`, `headTree`, `commits` | the overlay repository's HEAD, its tree, and a counter that makes commit ids unique across areas |
| `alive` | the processes for which `_pid_alive` holds |
| `attached` | the area the image a process started works in. It outlives the coordinator |
| `edits` | the number of edits, a bound only |
| `workspace`, `completion`, `image` | `workspace.json`, `completion.json`, and the image file reduced to the commit it has loaded, whether it has changes not exported, and the session that saved it |
| `run` | the running image of each launch |
| `launch` | phase and local variables of each `launch_gui_workspace` call |
| `provenance` | history, for properties only: whether the image file is known to hold the overlay of the area as it exists now, and whether `workspace.json` records the generation it was loaded at |

Each operation of `staging.py` runs under the area's `flock` and is one action.
`reset_staging` releases the lock between the removal and `create_staging`, so
it is two. The outcomes of `_rebase_locked`, which four callers share, are the
operators `RebasedRecord`, `RebasedBase`, `RebasedOverlay` and `CommitRebase`.
`ImageExport` is the image's own Git commit: it has no guard on a live
coordinator, because the code has none. `Exit` is a kill at any point.

A launch is cut into actions where a file that others read has just been
written: lock, release and remove for `--fresh`, create the area, prepare the
tree, attach, refuse or bind or keep the image, start, record the outcome,
finish. Failures leave at the place where the code raises, with what its
handlers do there (`LaunchFails`, `BindFails`, `ServiceFails`,
`ForeignCompletion`) or without any handler (`LeaveEarly`). `Mishaps` is the
set of failures an instance allows, so that a run can say which behaviour needs
no failure at all.

`TreeReplacement`:

| Variable | In the code |
|---|---|
| `tree` | what `src/` and each area's base and overlay hold; `Absent` is no such directory |
| `backups`, `litter` | the backups of a `_replace_trees` in progress, in the order of its list, and those nobody will restore or remove any more |
| `record` | whether an area exists, has its `staging.json` yet, and its state |
| `areaLock`, `promotionLock`, `buildLock` | the three locks, with their holders |
| `proc` | phase and memory of each process: the trees it has read, the jobs still to do |
| `disturbed` | history: whether a process was killed, an integration wrote `src/` or found no `src/` to back up, which properties except |

Contents are numbered as they are made: those of the first trees are at most
`Given`, and the n-th edit makes `Given + n`, so "an edit made since" is a
comparison of numbers. Reading one tree is one step, and so is each rename. A failure may come at every
rename, also in the roll-back of a caller; a kill at every step.

`UiControl` and `SourceSpool`:

| Variable | In the code |
|---|---|
| `command`, `expired` | where the command of each UI request is and the session it selected; whether its deadline has passed |
| `requests`, `responses`, `ready` | the files of the workspace's UI spool |
| `active` | the session of an active `workspace.json` |
| `image`, `worker`, `tasks` | phase of each session's image, its worker's list and request, the tasks enqueued for its UI process |
| `dispatched`, `performed` | history: how often a UI request was executed, a source request performed |
| `button`, `sourceAsked`, `sourceRequests`, `sourceResponses` | the request a button waits for, the session that made a source request, and the files |
| `coordinator`, `lost` | `launch_gui_workspace` while its image runs: phase, listed requests, whether this is the last pass; sessions whose coordinator was killed |

`ArtifactStore`: `tree` is the working copy, whose contents are numbered by the
edits; `store` maps output keys to artifacts, with the sequence of steps that
were executed into them (`payload`), their checkpoints, and whether files were
collected out of them (`torn`); `refs`, `locks`, `sessions` are the directories
of those names; `plan` and `work` are the locals of `resolve_recipe` and
`build_resolved`; `era` counts prunes, because a prune replaces the inode every
lock is taken on; `gc` is a collection between reading the roots and the last
removal. A digest is the sequence of the materials it digests.

`IncrementalBuild`: `work`, `checkpoints`, `generations`, `current`, `tasks`
are the files of the build workspace, with what each leaf left in a tree as one
value; `lock` is the re-entrant build lock; `at`, `prints`, `clean` and `next`
are the locals of `Executor.execute`; `described` is the generation that
`state.json` was written for.

`SourceFix`: `fix` is the state of the one command: the copy it loads, the
export, the differences, the originals it would put back, and the set of paths
still to do, taken in the order of the report (`First`).

## What the runs check

| Run | Instance | Distinct states | Result |
|---|---|---|---|
| `staging_changes` | 3 paths (2 owned), 2 contents: all 27^3 triples of trees, with one fix | 718 813 | passes |
| `staging_area` | 1 area, 2 GUI launches, 1 agentic session, 2 paths, 2 edits, 2 commits | 176 704 | passes |
| `tree_replacement` | 2 processes, 3 areas (one not there at first), 2 paths, 2 operations, 2 edits, 1 fault | 1 765 964 | passes |
| `gui_launches` | 3 launches and an agentic session; lint, bind, start, death, discard | 293 376 | passes |
| `gui_orphans` | 2 launches, 2 contents; coordinator crash, service failure, death, discard | 910 716 | passes |
| `source_spool` | 2 sessions, 2 requests, 1 fault | 461 875 | passes |
| `artifact_store` | 2 builders, 1 edit, 1 fault | 448 026 | passes |
| `incremental_build` | 2 builders, 3 leaves, 2 edits, 3 runs, 1 fault | 469 932 | passes |
| `gui_unbound` | 2 launches and a session, no failure | finding | `StartedImageIsBound` violated |
| `gui_reload` | 3 launches; an image may die | finding | `ReloadSparesChanges` violated |
| `gui_refused` | 2 launches, no failure | finding | `RefusalHasReason` violated |
| `skipped_prefix` | the same recipe, 1 edit, no fault | finding | `GenerationsAreComplete` violated |

- **staging_changes**: the rename pairing depends on the order of the loop, yet
  the report mentions exactly the changed paths and pairs all it can
  (`ReportIsExact`), a rebase keeps both sides' changes
  (`RebaseKeepsBothSides`) and promotion stays inside the owned packages
  (`PromotionStaysInOwnedPaths`). `StagingArea` may therefore compute
  "prohibited" from the trees alone. Beside them a fix ends with the exported
  tree or with the tree it started from (`FixIsAllOrNothing`). The property
  excepts a promotion after the comparison: the fix takes no lock, and then
  overwrites or undoes that promotion's files.
- **staging_area**: `TypeOK`; a live coordinator keeps its area and lease
  (`LeaseHeld`) and is alone in it (`ExclusiveAttachment`); a reservation ends
  only by resumption or discard (`ReservationIsKept`); a new attachment sees all
  of `src/` (`AttachmentIsCurrent`); promotion replaces only what the base
  recorded (`PromotionOverwritesNothing`); staged changes survive every command
  (`StagedWorkIsKept`); a new HEAD gets a new generation
  (`GenerationFollowsHead`); and all of it implements `ExclusiveLease`
  (`LeaseSpec`).
- **tree_replacement**: `StagingArea` takes a replacement for one step; this run
  looks inside. A tree that is not in its place is in a backup (`TreesSurvive`);
  a replacement that fails without a kill restores every tree, also when it is
  itself a roll-back (`FailedReplacementRestores`); a promotion overwrites no
  other promotion unseen (`PromotionOverwritesNoPromotion`); and no overlay falls
  behind its base, so that no failure makes the next promotion revert `src/`
  (`NothingIsReverted`, if nobody is killed, of the areas that exist at the
  start). Exceptions are written into the properties: an integration between the
  two renames of a promotion finds no `src/` to back up, and if it then fails, it
  removes what the promotion has moved in, and `src/` is gone (`TreesSurvive`
  excepts that one interleaving); restored and overwritten trees are compared up
  to edits made since, because no lock of the code covers editors; and once an
  integration has written `src/` under its own lock, neither
  `FailedReplacementRestores` nor `PromotionOverwritesNoPromotion` says anything.
- **gui_launches**: `GuiTypeOK`; the whole launch protocol implements
  `StagingArea` (`Spec`); a reload never overwrites the changes of an image
  whose own orderly save is the last completion (`ReloadSparesSavedChanges`).
- **gui_orphans**: a reservation always has a workspace that can lift it
  (`ReservationIsJustified`), although orphans save images and write completions
  behind the launches' backs; and an image bound to the area as it exists now,
  and since then saved only by sessions whose launch waited for them, is started
  only with all of HEAD (`StartedImageIsCurrent`). A save by an orphan, a reset
  of the area and an image that was never bound leave its `provenance` unknown,
  and the property then says nothing.
- **source_spool**: a UI request is executed at most once, and not after its
  command has given it up, although orphan and successor poll one spool and a
  time-out deletes the request an image may be reading; a source request is
  performed at most once, though possibly when its button has stopped waiting
  (`EffectsAreWanted`). A coordinator that is not lost leaves no request of its
  session behind, whenever the image exits (`NothingIsLeftBehind`). And a request
  does not stay in the spool of an image whose worker lives
  (`RequestsAreAnswered`, liveness). A worker that had listed a request which its
  command then removed ends with an error and `ready.json` stays, so this
  property says nothing of a session whose worker is dead.
- **artifact_store**: an artifact holds what its key says, and project source of
  just the content that was digested (`PayloadFollowsKey`); one builder works on
  a key unless a prune removed the lock's file (`OneBuilderPerKey`); a build
  reaches the key of its whole recipe (`BuildCoversRecipe`); nothing published is
  replaced (`PublishedOnce`); a collection takes no checkpoint from under a
  reference it decided to keep (`CollectionSparesReferences`); and every build
  ends (`BuildsEnd`, liveness). A collection may still remove a build workspace
  or a session under its user: a workspace collected after its last step is
  published without its files (`torn`), and no property claims otherwise.
- **incremental_build**: the build lock is held throughout, also around the
  task that takes it again (`BuildLockIsHeld`); `current.json` never names a
  half-copied generation (`CurrentIsWhole`); a generation is reused only for the
  fingerprints in its manifest (`ReuseMatchesManifest`, except after a kill
  between `current.json` and `state.json`, when inputs changed back match the
  older description); nothing from a failed, killed or older build gets into a
  checkpoint (`CheckpointsHoldTheirPrefix`); tasks that must always run do
  (`AlwaysRunTasksRun`). With it TLC evaluates the four laws of `TaskGraph` as
  assumptions, over all small graphs and sequences: binding succeeds exactly on
  trees of distinct tasks and well-formed names, a plan has the leaves in the
  order of the text with the right checkpoint boundaries, the operations on
  sequences keep order and names, and in the repository's own recipe every file
  a task reads is an output of a task before it.

### Bounds, and why they are enough

*Staging and launches.* One area in `staging_area`: no operation reads two
areas, and two areas meet only in `src/`, where the promotion of another area
does no more than an edit can do. (The theorems hold for any number of areas.)
Two GUI launches share one context and the agentic session has its own, which
gives every pair the lease check tells apart; the third launch is for behaviours
of three generations of one workspace: save, resume and lose, reload. Two paths,
one owned, tell a permitted promotion from a prohibited one; with two edits
`src/` and the overlay can change the same path or different ones, on either
side of a rebase. `MaxCommits = 2` bounds image commits and resets; the commits
of create, rebase and promotion are not counted against it but need a preceding
edit, export or reset. `gui_*` runs need one path only, because merging is the
business of `staging_area`. Symmetry permutes GUI launches: they are
interchangeable and every property of those runs is a safety property.

*Replacement.* Two processes make the pairs that meet in `src/`: two promotions,
a promotion and a rebase or a creation or an integration. Each operation
replaces at most two trees in a call, and a second operation sees what the first
one left. One fault is a kill or one failing call, which its handlers then
have to deal with. Areas and processes are interchangeable (symmetry, safety
only).

*Spools.* Two sessions are an orphan and its successor; two requests, over both
spools together, are two UI requests, two source requests, or one of each. One
fault is a lost coordinator, a crashed image or an interrupted command.
Neither run with a liveness property uses symmetry.

*Builds.* The recipe of `artifact_store` has three steps and two artifacts with
the pinned project source between them, and is also offered cut by its last step
where that still ends at an artifact; one edit can fall between any two reads of
the resolution, and one fault is a kill, a collection or a prune. The recipe of
`incremental_build` is what `PlanOf` makes of the repository's recipe cut down to
the nested checkpoint and the task after it: three leaves, a checkpoint within
the plan and one at its end. Three runs are a seed, a changed build and a build
that meets both; two edits change an input and change it back. One of the two
builders has a task that must always run, inside the checkpoint.

`CHECK_DEADLOCK` is off in every run: processes do not restart, operations,
edits and requests are bounded, and when all are used up nothing more can
happen.

### Fairness

Safety properties need none, and nothing in the code promises that a developer
releases an image. Fairness is assumed where the code itself goes on:

- `StoreSpec`: weak fairness of each builder's resolution and build steps. A
  running process is scheduled, and `flock` wakes a waiter when the file is free;
  the holder's work is finite, or it is killed and the lock with it. Sessions,
  editors, collections and prunes are under no obligation.
- `SpoolSpec`: weak fairness of each image's worker, a loop in a running process,
  and of the clock. Nothing is assumed of commands, users, coordinators or the
  UI process: that a worker does not wait for them for ever is what
  `RequestsAreAnswered` is about.

### What the violated properties show

1. `gui_unbound`: `_initialize` writes `workspace.json` before the lease is
   taken. When the lease is refused, the next launch takes the workspace for
   initialised, finds equal generations, skips the bind and starts an image the
   staging repository was never loaded into.
2. `gui_reload`: resuming a reserved image turns the reservation into a plain
   lease. If that image dies, nothing records that the file still has changes;
   the next launch binds the overlay over them.
3. `gui_refused`: an export from the running image raises the area's generation
   but not the one `workspace.json` compares with. Save after a further edit, and
   every later launch is refused although the image has all of HEAD.
4. `skipped_prefix`: when no checkpoint matches, the executor empties `work/`
   (`executor.py` 179-182) but still starts behind the unchanged prefix, and
   publishes a generation without the prefix's outputs. One builder and one edit
   suffice.

`PROJECT.json` quotes the documentation each contradicts. The properties of the
passing runs are stated so that they say what does hold in spite of these.

Two more disagreements met while modelling have no run. Line 174 of
`docs/klibgen-gt-build-v0.3.md` has the executor call `steps()` once while
binding; the fingerprints call it again for every enclosing group
(`executor.py` 118), so a `steps()` that does not return the same each time
binds one plan and digests another. And line 273 of that document lets a later
execution restore "the previous generation or a newer valid checkpoint before
retrying"; the code copies the previous generation only into an empty `work/`
(`executor.py` 147-151), which after a failure is rarely empty. The model does
what the code does.

## What is proved

For every value of the constants, from the named assumptions of the modules only
(distinctness of the "none" constants, subsets, bounds that are numbers; the
bounds mean nothing to the proofs, which hold for any number of edits, commits,
runs, sessions and faults):

- **TreeMergeProofs.** `MergeKeepsBothSides`, `MergeIsIdempotent`,
  `OneSidedChangesMerge`: what the three-way merge does for all trees.
- **StagingAreaProofs.** `TypeCorrect`; `LeaseIsHeld`, `AttachmentIsExclusive`,
  `ReservationsAreKept`. `LeaseHeld` is not inductive, for two reasons. A
  release by session or context id could hit a lease whose context does not
  belong to its session: `LeaseShape` says what a lease looks like in
  each of its two forms. And an attachment could find a lease in force whose
  process has let go: `LeaseBacked` says a live process a lease names is
  attached to that area. `LeaseInv` is the types, these two, and
  `LeaseHeld`. Most actions leave the leases alone (`KeepsLeases`); attaching,
  releasing, resetting and discarding each have a lemma with their effect.
  The same module shows that the records implement `ExclusiveLease`
  (`LeaseIsExclusive`), one case per kind of step: taking or resuming, releasing
  into nothing or into a reservation, the death of the holder, resetting an
  unused area, discarding; all else stutters.
  `PromotionsOverwriteNothing`, `StagedWorkSurvives`, `AttachmentsAreCurrent` and
  `GenerationsFollowHeads` rest on `RebaseOutcomes`, which says once what the
  three outcomes of `_rebase_locked` are, and on `MergeKeepsBothSides`. Only
  staged work needs more than types: `AbsentIsEmpty`, or creating an area could
  overwrite something. A last section is about commits (`CommitInv`): no
  area is ahead of the counter, so every commit is new when it is made, and while
  an area exists its HEAD only moves to such a commit (`CommitsAreNew`,
  `AreasStay`). The launches need it.
- **StagingChangesProofs** (with `SourceFix`). `ReportMentionsTheChanges` and
  `RenamesAreMaximal` say of any two trees what the report mentions and that it
  leaves nothing to pair; `ReportsAreExact`, `RebasesKeepBothSides`,
  `PromotionsStayInOwnedPaths` and `FixesAreAllOrNothing` are the properties of
  the run. The rename loop of `staging_changes` is a recursive function over
  places (`Pairing`). `Paired` is its loop invariant: nothing is in two renames,
  and no removal seen so far matches an addition that remains. That the function
  is what its equation says, and that `Paired` holds after every turn, is not
  shown by the induction theorem, which the provers cannot instantiate, but from
  the least place at which it would fail (`LeastPlace`, from the well-foundedness
  of the naturals). The fix needs `FixInv`: what is not to do any more has the
  exported content, or while it is undone the original one, unless `src/` was
  promoted to since.
- **TreeReplacementProofs.** `TypesAreRight`, `NoTreeVanishes`,
  `FailuresAreUndone`, `NoPromotionIsOverwritten`, `NothingOldComesBack`: for any
  number of processes, areas, paths, edits, failures and kills. A chain of
  invariants, each resting on the first. `Inv` is the types, which lock a
  process holds where (`Holds`), and that each destination of a call is pending,
  in place, or neither (`Orderly`): so a step of one process leaves the
  directories of another alone. `KeepInv`: what a call can still undo it has a
  backup of, and an integration that has begun to write has one too. `RestoreInv`:
  a backup is what was there before the call, and what the call has not touched
  still is, up to edits since; for a promotion the same of what it has read.
  `AgeInv`: nothing in a tree, a backup or a process's memory is newer than the
  newest edit. `OrderInv` needs it to see that edits and merges keep an overlay
  at least as new as its base; during a call both the pair that was there and the
  pair that will be there are in order (`WasOrdered`, `WillOrdered`), so either
  end of the call leaves an area in order.
- **GuiWorkspaceProofs.** `GuiTypeCorrect` and `LaunchesUseAreasAsAllowed`,
  with the corollary that launches never disturb a live coordinator's lease.
  The types of the workspace are not inductive: that a launch updates a
  `workspace.json` that exists follows from the workspace lock (`LaunchesSafe`:
  only one launch is past it, and one that is over holds nothing).
  `ReservationsAreJustified` needs more (`LaunchOwns`): a launch works in the
  area `workspace.json` names, and finds no reservation once it has attached
  there or discarded the workspace. So the one area that can be reserved is the
  workspace's, what removes or moves the workspace comes when none is, and only
  the two ends of a launch that count unexported changes make a new one
  (`EndingReserves`, `NoNewReservation`).
  `ReloadsSpareSavedChanges` rests on `SaveInv`: a completion that says "saved"
  is that of an image about to quit in the state it reports or that has quit, and
  then the file it saved has no changes it does not report (`SavesAreTrue`); and
  a launch that has not started its image has left neither a completion nor a
  save behind (`NotStarted`), so a record on file is never about to change its
  meaning.
  `StartedImagesAreCurrent` rests on `ProvInv`. A number and a commit vouch for
  the image together: as long as the area's record has the recorded generation
  and names its HEAD, the image has that HEAD (`Vouches`). Commits being new when
  they are made, and generations only growing while the area exists, what vouches
  once does so for ever (`VouchesStay`). This is kept for the image file and for
  every running image whose launch still waits (`RecordedVouches`), and a launch
  compares generations the area has really had (`LaunchKnows`). An earlier form
  of the property, which excluded only images loaded before the area was created,
  passed its run and could not be proved: with a third launch TLC finds two
  behaviours that break it. A bind may succeed and the start after it fail, which
  leaves the older generation in `workspace.json`; after a reset of the area that
  number recurs and the image is kept without a bind. And an image saved by an
  orphan is saved once more, in order, by a later session. The present form says
  whose images are meant, and holds without bounds.
- **IncrementalBuildProofs.** `OneBuilderHoldsTheLock`, `BuildTypes`,
  `CheckpointsArePrefixes`, `AlwaysRunTasksAreNotSkipped`,
  `CurrentGenerationIsWhole`, `ReusedGenerationsMatch`. All rest on the lock:
  only its holder is past "idle", so what one builder does is not undone by
  another. From there each has a small strengthening: the work tree of a running
  builder holds nothing from its next leaf on (`Prefix`), which is why a
  checkpoint holds its prefix; what a builder skips ends before its first task
  that must always run (`Skips`); a generation is filled before the pointer moves
  (`Publishes`); and state, manifest and pointer agree except in the one window
  that `described` records (`StateIsTrue`).
- **ArtifactStoreProofs.** `StoreTypes`, `PayloadsFollowKeys`,
  `OneBuilderHoldsAKey`, `BuildsCoverRecipes`, `ArtifactsArePublishedOnce`,
  `CollectionsSpareReferences`. The
  tree only gains newer contents, so a revision that is the same before and
  after the content was read pins that content: this makes the resolved plan
  right. What a builder has executed so far is the prefix of its plan, so what
  it publishes is right. That it holds its key's lock in its era while it works
  gives one builder per key and era, and nothing it finds published is replaced.
  That a collection spares what it kept needs the checkpoints an artifact names to
  be known from its key alone: an artifact may be erased and published again, by
  another target, while the collection removes. They are the prefixes of the key
  that end at a boundary (`Stops`, `Chained`), if a role is a boundary in every
  offered recipe that has it or in none. This is the assumption
  `OneRoleIsABoundary`: `recipes.py` declares each role's step once and all
  targets share it. `Recipe.replace` would accept a step with another checkpoint
  policy, but no target is made that way.
- **SourceSpoolProofs.** `SpoolTypes`, `RequestsAreNotForgotten`,
  `EffectsAreOnlyWanted`. The invariant has a part for each actor: a worker that
  has read a request of its session has not executed it, and one that was
  executed and is still in the spool is being answered or its worker is over
  (`Handles`, `Once`); without an orphan, what was neither executed nor expired
  is unanswered (`Unanswered`); only lost coordinators leave images behind
  (`Alone`); and in its last pass a coordinator has listed all there will be,
  because the image that could ask for more has ended (`LastPass`).

Only model-checked:

- The laws of `Recipes` and `TaskGraph`, as assumptions evaluated on instances.
- `BuildsEnd` and `RequestsAreAnswered`. Liveness under fairness, `ENABLED`,
  induction over data and recursive operators are out of the prover's reach.

## What is not modelled

- *v0.3 worktrees and launches*: `WorktreeManager` and `materialize_launch`
  write directories that nothing else reads. `build_lock` is not safe between
  threads of one process (`v3/workspaces.py` 48-67), but no caller starts
  threads; two checkpoint groups whose paths differ in `__` and `:` only would
  share a directory, which no recipe of the repository has. What the
  fingerprints of `RunCommand` and `RunPython` leave out is a matter of the
  recipes' authors.
- *Headless sessions*: the readonly mode's file permissions and the command
  protocol inside the image.
- *UI control over TCP*: one connection without shared state, used by tests
  only.
- *Inventory graph* and the copy of Lepiter notes made by prune: they read, or
  copy what nothing else reads.
- *Tonel scanners, `tonel_export.py`, JSON models, parsers, image tools, type
  pragmas, command line, host tools*: sequential conversions, queries and
  wrappers, better served by the repository's example tests. They are most of
  the code that no definition maps.
- *Reuse of process ids*. It keeps a dead lease in force longer.
- Two listed hazards have no property. A reset area starts again at generation
  1, so that the number of an older area can recur, also after a bind whose start
  failed and left the older number in `workspace.json`; the model has these
  behaviours, and `StartedImageIsCurrent` speaks only of images whose
  `provenance` is known. And an area that is itself named `promotion` would share
  its lock file with the promotion lock.

## Plan

1. A refinement from `TreeReplacement` to the one-step replacement of
   `StagingArea` where no fault intervenes.
2. Theorems for the pure operators of `Recipes` that do not recurse, should the
   laws be wanted for recipes of every length.
3. Worktrees and materialized launches, should anything come to depend on them.
