-------------------------- MODULE TreeReplacement --------------------------
(***************************************************************************)
(* What StagingArea takes for one step, rename by rename: _replace_trees   *)
(* under rebase_staging and promote_staging, the making of an area by      *)
(* create_staging and migrate_staging (staging.py), and the copying        *)
(* integration of v0.3 (v3/staging.py), which holds the build lock instead *)
(* of the promotion lock.  Operations fail, processes are killed, and      *)
(* developers edit src/ and overlays all the while.  Reading one tree is   *)
(* one step.  Contents are numbered as they are made.                      *)
(***************************************************************************)
EXTENDS TreeMerge, Naturals, Sequences

CONSTANTS Areas, Procs, Nobody,
          Existing,                \* areas that exist at the start
          Absent,                  \* no such directory
          InitialSource,
          LegacyWork, LegacyRoot,  \* a legacy repository: its files, its first commit
          Given,                   \* contents up to this number are there at the start
          Edited,                  \* <<destination, path>>: what developers edit
          MaxEdits, MaxOps, MaxFaults  \* bounds

Src == <<"src", "src">>
Base(a) == <<a, "base">>
Overlay(a) == <<a, "overlay">>
Dests == {Src} \cup {Base(a) : a \in Areas} \cup {Overlay(a) : a \in Areas}

ASSUME ExistingAreAreas == Existing \subseteq Areas /\ "src" \notin Areas
ASSUME NobodyIsNoProcess == Nobody \notin Procs
ASSUME AbsentIsNoTree == Absent \notin Trees
ASSUME NumberedContents ==
    Given \in Nat /\ Contents \subseteq Nat /\ Given + 1 .. Given + MaxEdits \subseteq Contents
ASSUME TreesAreGiven ==
    \A t \in {InitialSource, LegacyWork, LegacyRoot} :
        t \in Trees /\ \A f \in Paths : t[f] \in 0 .. Given \cup {Missing}
ASSUME EditsAreGiven == Edited \subseteq (({Src} \cup {Overlay(a) : a \in Areas}) \X Paths)
ASSUME BoundsAreNaturals == MaxEdits \in Nat /\ MaxOps \in Nat /\ MaxFaults \in Nat

VARIABLES tree,      \* what each destination holds
          litter,    \* backups that nobody will remove or restore any more
          backups,   \* those of the replacement each process is making, in order
          record,    \* of each area: none, bare (no staging.json), or its state
          areaLock, promotionLock, buildLock,
          proc,      \* where each process is, and what it has in memory
          disturbed, \* which of these has happened: a process was killed, an
                     \* integration wrote src/ or found no src/ to back up
          edits, ops, faults \* counters of the bounds

locks == <<areaLock, promotionLock, buildLock>>
counters == <<edits, ops, faults>>
vars == <<tree, litter, backups, record, locks, proc, disturbed, counters>>

Idle == [op |-> "none", area |-> Nobody, at |-> "idle", call |-> "none", jobs |-> <<>>,
         installed |-> <<>>, base |-> EmptyTree, overlay |-> EmptyTree,
         current |-> EmptyTree, before |-> Absent, original |-> <<>>, since |-> 0]

Init == /\ tree = [d \in Dests |->
                     IF d = Src \/ \E a \in Existing : d \in {Base(a), Overlay(a)}
                     THEN InitialSource ELSE Absent]
        /\ litter = [d \in Dests |-> {}]
        /\ backups = [p \in Procs |-> <<>>]
        /\ record = [a \in Areas |-> IF a \in Existing THEN "ready" ELSE "none"]
        /\ areaLock = [a \in Areas |-> Nobody]
        /\ promotionLock = Nobody /\ buildLock = Nobody
        /\ proc = [p \in Procs |-> Idle]
        /\ disturbed = {}
        /\ edits = 0 /\ ops = 0 /\ faults = 0

----------------------------------------------------------------------------
At(p, phase) == proc[p].at = phase
Become(p, state) == proc' = [proc EXCEPT ![p] = state]
Go(p, phase) == Become(p, [proc[p] EXCEPT !.at = phase])

\* _contents of a directory that may not be there.
Read(d) == IF tree[d] = Absent THEN EmptyTree ELSE tree[d]

Put(d, t) == tree' = [tree EXCEPT ![d] = t]

\* The number of the newest content there is.
Newest == Given + edits

Fault == faults < MaxFaults /\ faults' = faults + 1

\* Mutant of Leave: the promotion lock is kept.
LeaveLocked(p) ==
    /\ Become(p, Idle)
    /\ areaLock' = [a \in Areas |-> IF areaLock[a] = p THEN Nobody ELSE areaLock[a]]
    /\ buildLock' = IF buildLock = p THEN Nobody ELSE buildLock
    /\ UNCHANGED promotionLock

\* The with blocks of p are left; an interrupted replacement leaves its backups.
Leave(p) ==
    /\ Become(p, Idle)
    /\ areaLock' = [a \in Areas |-> IF areaLock[a] = p THEN Nobody ELSE areaLock[a]]
    /\ promotionLock' = IF promotionLock = p THEN Nobody ELSE promotionLock
    /\ buildLock' = IF buildLock = p THEN Nobody ELSE buildLock

Littered(p) == [d \in Dests |-> litter[d] \cup
                   {backups[p][i][2] : i \in {j \in DOMAIN backups[p] : backups[p][j][1] = d}}]

Forget(p) == backups' = [backups EXCEPT ![p] = <<>>]

----------------------------------------------------------------------------
(* _replace_trees.                                                         *)

Calling(p, call, jobs) ==
    [proc[p] EXCEPT !.at = "replacing", !.call = call, !.jobs = jobs, !.installed = <<>>,
        !.original = [d \in {jobs[i][1] : i \in DOMAIN jobs} |-> tree[d]]]

Target(p) == proc[p].jobs[1][1]

MoveAway(p) ==
    /\ At(p, "replacing") /\ proc[p].jobs # <<>> /\ tree[Target(p)] # Absent
    /\ Put(Target(p), Absent)
    /\ backups' = [backups EXCEPT ![p] = Append(backups[p], <<Target(p), tree[Target(p)]>>)]
    /\ Go(p, "between")
    /\ UNCHANGED <<litter, record, locks, disturbed, counters>>

\* A destination that was not there needs no backup.
MoveIn(p) ==
    /\ At(p, "replacing") \/ At(p, "between")
    /\ proc[p].jobs # <<>> /\ tree[Target(p)] = Absent
    /\ Put(Target(p), proc[p].jobs[1][2])
    /\ Become(p, [proc[p] EXCEPT !.at = "replacing", !.jobs = Tail(proc[p].jobs),
                                 !.installed = Append(proc[p].installed, Target(p))])
    /\ UNCHANGED <<litter, backups, record, locks, disturbed, counters>>

\* A rename fails; the second one does if the destination is there again.
RenameFails(p) ==
    /\ At(p, "replacing") \/ At(p, "between")
    /\ proc[p].jobs # <<>>
    /\ \/ Fault
       \/ At(p, "between") /\ tree[Target(p)] # Absent /\ UNCHANGED faults
    /\ Go(p, "undoing")
    /\ UNCHANGED <<tree, litter, backups, record, locks, disturbed, edits, ops>>

RemoveInstalled(p) ==
    LET n == Len(proc[p].installed)
    IN  /\ At(p, "undoing") /\ n > 0
        /\ Put(proc[p].installed[n], Absent)
        /\ Become(p, [proc[p] EXCEPT !.installed = SubSeq(proc[p].installed, 1, n - 1)])
        /\ UNCHANGED <<litter, backups, record, locks, disturbed, counters>>

\* Mutant of RestoreBackup: only the tree whose rename failed is put back.
RestoreLast(p) ==
    LET n == Len(backups[p])
    IN  /\ At(p, "undoing") /\ proc[p].installed = <<>> /\ n > 0
        /\ tree[backups[p][n][1]] = Absent
        /\ Put(backups[p][n][1], backups[p][n][2])
        /\ litter' = Littered(p) /\ Forget(p)
        /\ UNCHANGED <<record, locks, proc, disturbed, counters>>

RestoreBackup(p) ==
    LET n == Len(backups[p])
    IN  /\ At(p, "undoing") /\ proc[p].installed = <<>> /\ n > 0
        /\ tree[backups[p][n][1]] = Absent
        /\ Put(backups[p][n][1], backups[p][n][2])
        /\ backups' = [backups EXCEPT ![p] = SubSeq(backups[p], 1, n - 1)]
        /\ UNCHANGED <<litter, record, locks, proc, disturbed, counters>>

\* Where a call of _replace_trees returns to, and where its exception goes.
Returns == [rebase |-> "committing", rebaseUndo |-> "failing", source |-> "sourced",
            base |-> "recording", sourceUndo |-> "failing"]
Raises == [rebase |-> "reverting", rebaseUndo |-> "failing", source |-> "handling",
           base |-> "handling", sourceUndo |-> "failing"]

\* Putting back fails too if the destination is there again.
RestoreFails(p) ==
    LET n == Len(backups[p])
    IN  /\ At(p, "undoing") /\ proc[p].installed = <<>> /\ n > 0
        /\ tree[backups[p][n][1]] # Absent
        /\ litter' = Littered(p) /\ Forget(p)
        /\ Go(p, Raises[proc[p].call])
        /\ UNCHANGED <<tree, record, locks, disturbed, counters>>

Undone(p) == At(p, "undoing") /\ proc[p].installed = <<>> /\ backups[p] = <<>>

Raise(p) == /\ Undone(p)
            /\ Go(p, Raises[proc[p].call])
            /\ UNCHANGED <<tree, litter, backups, record, locks, disturbed, counters>>

\* Mutant of DropBackup: each backup is removed as soon as its tree is moved in.
DropEarly(p) == /\ At(p, "replacing") /\ backups[p] # <<>>
                /\ backups' = [backups EXCEPT ![p] = Tail(backups[p])]
                /\ UNCHANGED <<tree, litter, record, locks, proc, disturbed, counters>>

DropBackup(p) == /\ At(p, "replacing") /\ proc[p].jobs = <<>> /\ backups[p] # <<>>
                 /\ backups' = [backups EXCEPT ![p] = Tail(backups[p])]
                 /\ UNCHANGED <<tree, litter, record, locks, proc, disturbed, counters>>

Replaced(p) == /\ At(p, "replacing") /\ proc[p].jobs = <<>> /\ backups[p] = <<>>
               /\ Go(p, Returns[proc[p].call])
               /\ UNCHANGED <<tree, litter, backups, record, locks, disturbed, counters>>

ReplaceTrees(p) == \/ MoveAway(p) \/ MoveIn(p) \/ RenameFails(p) \/ RemoveInstalled(p)
                   \/ RestoreBackup(p) \/ RestoreFails(p) \/ Raise(p) \/ DropBackup(p)
                   \/ Replaced(p)

----------------------------------------------------------------------------
(* rebase_staging, and the first half of promote_staging.                  *)

Readable(a) == record[a] \notin {"none", "bare"}

Started(p, o, a, phase) ==
    /\ At(p, "idle") /\ ops < MaxOps /\ ops' = ops + 1
    /\ Become(p, [Idle EXCEPT !.op = o, !.area = a, !.at = phase])

Lock(p, a) == areaLock[a] = Nobody /\ areaLock' = [areaLock EXCEPT ![a] = p]

Rebase(p, a) == /\ Started(p, "rebase", a, "reading") /\ Lock(p, a) /\ Readable(a)
                /\ UNCHANGED <<tree, litter, backups, record, promotionLock, buildLock,
                               disturbed, edits, faults>>

Promote(p, a) == /\ Started(p, "promote", a, "waiting") /\ Lock(p, a) /\ Readable(a)
                 /\ UNCHANGED <<tree, litter, backups, record, promotionLock, buildLock,
                                disturbed, edits, faults>>

\* Mutant of LockPromotion: promotions of different areas exclude nobody.
LockNothing(p) == /\ At(p, "waiting") /\ Go(p, "reading")
                  /\ UNCHANGED <<tree, litter, backups, record, locks, disturbed, counters>>

\* The area lock is already held.
LockPromotion(p) ==
    /\ At(p, "waiting") /\ promotionLock = Nobody /\ promotionLock' = p
    /\ Go(p, "reading")
    /\ UNCHANGED <<tree, litter, backups, record, areaLock, buildLock, disturbed, counters>>

\* _rebase_locked up to its decision.
ReadTrees(p) ==
    LET a == proc[p].area
        mem == [proc[p] EXCEPT !.base = Read(Base(a)), !.overlay = Read(Overlay(a)),
                               !.current = Read(Src), !.since = Newest]
        clash == Conflicts(mem.base, mem.overlay, mem.current) # {}
    IN  /\ At(p, "reading")
        /\ \/ /\ mem.base = mem.current
              /\ Become(p, [mem EXCEPT !.at = "rebased"])
              /\ record' = [record EXCEPT ![a] = IF @ = "conflicted" THEN "ready" ELSE @]
           \/ /\ mem.base # mem.current /\ clash
              /\ Become(p, [mem EXCEPT !.at = "failing"])
              /\ record' = [record EXCEPT ![a] = "conflicted"]
           \/ /\ mem.base # mem.current /\ ~clash
              /\ Become(p, [mem EXCEPT !.at = "prepared"])
              /\ UNCHANGED record
        /\ UNCHANGED <<tree, litter, backups, locks, disturbed, counters>>

\* Resolving the source may raise before anything is written.
ReplacePair(p) ==
    LET q == proc[p]
    IN  /\ At(p, "prepared")
        /\ Become(p, Calling(p, "rebase",
               <<<<Base(q.area), q.current>>,
                 <<Overlay(q.area), Merge(q.base, q.overlay, q.current)>>>>))
        /\ UNCHANGED <<tree, litter, backups, record, locks, disturbed, counters>>

Commit(p) == /\ At(p, "committing")
             /\ record' = [record EXCEPT ![proc[p].area] = "ready"]
             /\ Go(p, "rebased")
             /\ UNCHANGED <<tree, litter, backups, locks, disturbed, counters>>

\* A call outside _replace_trees raises: resolving the source, git commit.
CallFails(p) == /\ proc[p].at \in {"prepared", "committing", "sourced"} /\ Fault
                /\ Go(p, CASE At(p, "prepared") -> "failing"
                           [] At(p, "committing") -> "reverting"
                           [] At(p, "sourced") -> "handling")
                /\ UNCHANGED <<tree, litter, backups, record, locks, disturbed, edits, ops>>

\* Mutant of Revert: only the overlay is written back.
RevertOverlay(p) ==
    /\ At(p, "reverting")
    /\ Become(p, Calling(p, "rebaseUndo", <<<<Overlay(proc[p].area), proc[p].overlay>>>>))
    /\ UNCHANGED <<tree, litter, backups, record, locks, disturbed, counters>>

\* Both trees are written back as they were read.
Revert(p) == /\ At(p, "reverting")
             /\ Become(p, Calling(p, "rebaseUndo",
                    <<<<Base(proc[p].area), proc[p].base>>, <<Overlay(proc[p].area), proc[p].overlay>>>>))
             /\ UNCHANGED <<tree, litter, backups, record, locks, disturbed, counters>>

Finish(p) == /\ \/ At(p, "rebased") /\ proc[p].op \in {"rebase", "accept"}
                \/ At(p, "failing") /\ proc[p].op # "accept"
             /\ Leave(p)
             /\ UNCHANGED <<tree, litter, backups, record, disturbed, counters>>

RebaseLocked(p) == ReadTrees(p) \/ ReplacePair(p) \/ Commit(p) \/ Revert(p)

----------------------------------------------------------------------------
(* The second half of promote_staging.                                     *)

ReplaceSource(p) ==
    LET a == proc[p].area
        staged == Read(Overlay(a))
    IN  /\ At(p, "rebased") /\ proc[p].op = "promote"
        /\ IF Prohibited(Read(Base(a)), staged) # {} THEN Go(p, "failing")
           ELSE Become(p, [Calling(p, "source", <<<<Src, staged>>>>)
                             EXCEPT !.overlay = staged, !.before = Read(Src)])
        /\ UNCHANGED <<tree, litter, backups, record, locks, disturbed, counters>>

ReplaceBase(p) ==
    /\ At(p, "sourced")
    /\ Become(p, Calling(p, "base", <<<<Base(proc[p].area), proc[p].overlay>>>>))
    /\ UNCHANGED <<tree, litter, backups, record, locks, disturbed, counters>>

\* The exception handler puts src/ back if it is not what it was.
Handle(p) ==
    /\ At(p, "handling")
    /\ IF Read(Src) = proc[p].before THEN Go(p, "failing")
       ELSE Become(p, Calling(p, "sourceUndo", <<<<Src, proc[p].before>>>>))
    /\ UNCHANGED <<tree, litter, backups, record, locks, disturbed, counters>>

RecordPromotion(p) ==
    /\ At(p, "recording")
    /\ record' = [record EXCEPT ![proc[p].area] = "promoted"]
    /\ Leave(p)
    /\ UNCHANGED <<tree, litter, backups, disturbed, counters>>

PromoteTrees(p) == LockPromotion(p) \/ ReplaceSource(p) \/ ReplaceBase(p) \/ Handle(p)
                   \/ RecordPromotion(p)

----------------------------------------------------------------------------
(* create_staging and migrate_staging.                                     *)

Create(p, a) == /\ Started(p, "create", a, "copying") /\ Lock(p, a) /\ record[a] = "none"
                /\ record' = [record EXCEPT ![a] = "bare"]
                /\ UNCHANGED <<tree, litter, backups, promotionLock, buildLock,
                               disturbed, edits, faults>>

\* base/src and overlay/src are two copies of src/, one after the other.
CopyTree(p) ==
    LET a == proc[p].area
        d == IF tree[Base(a)] = Absent THEN Base(a) ELSE Overlay(a)
    IN  /\ At(p, "copying") /\ tree[Overlay(a)] = Absent
        /\ IF tree[Src] = Absent
           THEN Go(p, "failing") /\ UNCHANGED tree
           ELSE Put(d, tree[Src]) /\ UNCHANGED proc
        /\ UNCHANGED <<litter, backups, record, locks, disturbed, counters>>

Migrate(p, a) == /\ Started(p, "migrate", a, "importing") /\ Lock(p, a) /\ record[a] = "none"
                 /\ record' = [record EXCEPT ![a] = "bare"]
                 /\ UNCHANGED <<tree, litter, backups, promotionLock, buildLock,
                                disturbed, edits, faults>>

\* The repository as it is, and then its root commit as the base.
ImportTree(p) ==
    LET a == proc[p].area
    IN  /\ At(p, "importing") /\ tree[Base(a)] = Absent
        /\ IF tree[Overlay(a)] = Absent THEN Put(Overlay(a), LegacyWork)
           ELSE Put(Base(a), LegacyRoot)
        /\ UNCHANGED <<litter, backups, record, locks, proc, disturbed, counters>>

\* staging.json is written last.
WriteRecord(p) ==
    LET a == proc[p].area
    IN  /\ At(p, "copying") \/ At(p, "importing")
        /\ tree[Base(a)] # Absent /\ tree[Overlay(a)] # Absent
        /\ record' = [record EXCEPT ![a] = "ready"]
        /\ Leave(p)
        /\ UNCHANGED <<tree, litter, backups, disturbed, counters>>

----------------------------------------------------------------------------
(* StagingAreaManager.integrate.                                           *)

Integrate(p, a) == /\ Started(p, "reconcile", a, "entering")
                   /\ buildLock = Nobody /\ buildLock' = p
                   /\ UNCHANGED <<tree, litter, backups, record, areaLock, promotionLock,
                                  disturbed, edits, faults>>

\* reconcile and accept_integrated are rebases of their own.
LockArea(p) == /\ At(p, "entering") /\ Lock(p, proc[p].area)
               /\ Go(p, IF Readable(proc[p].area) THEN "reading" ELSE "failing")
               /\ UNCHANGED <<tree, litter, backups, record, promotionLock, buildLock,
                              disturbed, counters>>

Unlock(p) == areaLock' = [areaLock EXCEPT ![proc[p].area] = Nobody]

Reconciled(p) == /\ At(p, "rebased") /\ proc[p].op = "reconcile" /\ Unlock(p)
                 /\ Go(p, "integrating")
                 /\ UNCHANGED <<tree, litter, backups, record, promotionLock, buildLock,
                                disturbed, counters>>

\* A copy of src/ that is never removed.
BackUp(p) ==
    LET a == proc[p].area
    IN  /\ At(p, "integrating")
        /\ IF Prohibited(Read(Base(a)), Read(Overlay(a))) # {}
           THEN Go(p, "failing") /\ UNCHANGED <<litter, disturbed>>
           ELSE /\ disturbed' = disturbed \cup (IF tree[Src] = Absent THEN {"no backup"} ELSE {})
                /\ Become(p, [proc[p] EXCEPT !.at = "applying", !.before = tree[Src]])
                /\ litter' = [litter EXCEPT ![Src] =
                                 IF tree[Src] = Absent THEN @ ELSE @ \cup {tree[Src]}]
        /\ UNCHANGED <<tree, backups, record, locks, counters>>

\* rsync in place; it may stop half way.  The overlay is not locked here.
Apply(p) ==
    LET from == Overlay(proc[p].area)
    IN  /\ At(p, "applying") /\ disturbed' = disturbed \cup {"integration"}
        /\ \/ /\ tree[from] # Absent /\ Put(Src, tree[from])
              /\ Become(p, [proc[p] EXCEPT !.at = "entering", !.op = "accept"])
              /\ UNCHANGED faults
           \/ /\ tree[from] # Absent /\ Fault /\ Go(p, "restoring")
              /\ \E done \in SUBSET Paths :
                    Put(Src, [f \in Paths |-> IF f \in done THEN tree[from][f] ELSE Read(Src)[f]])
           \/ /\ tree[from] = Absent /\ Go(p, "restoring") /\ UNCHANGED faults
              /\ Put(Src, Read(Src))
        /\ UNCHANGED <<litter, backups, record, locks, edits, ops>>

\* accept_integrated raised, on a conflict or for want of a record.
NotAccepted(p) == /\ At(p, "failing") /\ proc[p].op = "accept" /\ Unlock(p)
                  /\ Go(p, "restoring")
                  /\ UNCHANGED <<tree, litter, backups, record, promotionLock, buildLock,
                                 disturbed, counters>>

\* The handler removes src/, and then copies the backup.
RemoveSource(p) == /\ At(p, "restoring")
                   /\ Put(Src, Absent) /\ Go(p, "removed")
                   /\ UNCHANGED <<litter, backups, record, locks, disturbed, counters>>

CopyBackup(p) == /\ At(p, "removed")
                 /\ IF tree[Src] = Absent THEN Put(Src, proc[p].before) ELSE UNCHANGED tree
                 /\ Leave(p)
                 /\ UNCHANGED <<litter, backups, record, disturbed, counters>>

IntegrateTrees(p) == \/ LockArea(p) \/ Reconciled(p) \/ BackUp(p) \/ Apply(p)
                     \/ NotAccepted(p) \/ RemoveSource(p) \/ CopyBackup(p)

----------------------------------------------------------------------------
\* Of src/ or an overlay; not of a directory that is away.
Edit(d, f) == /\ edits < MaxEdits /\ edits' = edits + 1
              /\ tree[d] # Absent
              /\ \A a \in Areas : d = Overlay(a) => Readable(a)
              /\ Put(d, [tree[d] EXCEPT ![f] = Newest + 1])
              /\ UNCHANGED <<litter, backups, record, locks, proc, disturbed, ops, faults>>

\* The kernel drops the flocks; nobody restores the backups.
Kill(p) == /\ ~At(p, "idle") /\ Fault
           /\ Leave(p)
           /\ litter' = Littered(p) /\ Forget(p)
           /\ disturbed' = disturbed \cup {"kill"}
           /\ UNCHANGED <<tree, record, edits, ops>>

Works(p) == \/ ReplaceTrees(p) \/ RebaseLocked(p) \/ CallFails(p) \/ PromoteTrees(p) \/ Finish(p)
            \/ CopyTree(p) \/ ImportTree(p) \/ WriteRecord(p) \/ IntegrateTrees(p)

Next == \/ \E p \in Procs, a \in Areas : \/ Rebase(p, a) \/ Promote(p, a) \/ Integrate(p, a)
                                         \/ Create(p, a) \/ Migrate(p, a)
        \/ \E p \in Procs : Works(p) \/ Kill(p)
        \/ \E e \in Edited : Edit(e[1], e[2])

ReplacementSpec == Init /\ [][Next]_vars

----------------------------------------------------------------------------
(* Properties.                                                             *)

Operations == {"none", "rebase", "promote", "create", "migrate", "reconcile", "accept"}
Phases == {"idle", "waiting", "reading", "rebased", "prepared", "replacing", "between", "undoing",
           "committing", "reverting", "sourced", "handling", "recording", "failing",
           "copying", "importing", "entering", "integrating", "applying", "restoring", "removed"}
MaybeTree == Trees \cup {Absent}

\* Types.  A lock is held by a process that is not idle.
TypeOK ==
    /\ tree \in [Dests -> MaybeTree]
    /\ litter \in [Dests -> SUBSET Trees]
    /\ backups \in [Procs -> Seq(Dests \X Trees)]
    /\ record \in [Areas -> {"none", "bare", "ready", "conflicted", "promoted"}]
    /\ \A p \in Procs :
          /\ proc[p].op \in Operations /\ proc[p].at \in Phases
          /\ {proc[p].base, proc[p].overlay, proc[p].current} \subseteq Trees
          /\ proc[p].before \in MaybeTree
    /\ \A holder \in {areaLock[a] : a \in Areas} \cup {promotionLock, buildLock} :
          holder = Nobody \/ (holder \in Procs /\ ~At(holder, "idle"))
    /\ edits \in 0 .. MaxEdits /\ ops \in 0 .. MaxOps /\ faults \in 0 .. MaxFaults

Backed(d) == litter[d] # {} \/ \E p \in Procs : \E i \in DOMAIN backups[p] : backups[p][i][1] = d

\* A tree that is not in its place is in a backup: whatever fails and whoever is
\* killed between two renames, and whichever operations of other areas go on,
\* no tree of src/ or of an area vanishes (_replace_trees, integrate).  The one
\* exception is an integration that comes between the two renames of a
\* promotion, finds no src/ to back up, and fails.
TreesSurvive ==
    "no backup" \in disturbed \/ \A d \in Dests : tree[d] = Absent =>
        Backed(d) \/ \E a \in Areas : ~Readable(a) /\ d \in {Base(a), Overlay(a)}

\* Contents numbered above n are edits made after it.
SameButEdits(one, other, n) ==
    \A f \in Paths : one[f] = other[f] \/ (one[f] # Missing /\ one[f] > n)

\* staging.py:94: "Replace directories and restore every original if any rename
\* fails": all of them, or what they have become by edits since, and also when
\* the call that failed is itself the roll-back of a failed operation, and
\* whoever else is killed.  Only an integration may come between, at src/.
FailedReplacementRestores ==
    \A p \in Procs : (Undone(p) /\ "integration" \notin disturbed) =>
        \A d \in DOMAIN proc[p].original :
            IF proc[p].original[d] = Absent THEN tree[d] = Absent
            ELSE tree[d] # Absent /\ SameButEdits(tree[d], proc[p].original[d], proc[p].since)

\* What a promotion takes away from src/ is what its rebase has read, or an edit
\* made since: a promotion of another area is never overwritten unseen, nor
\* what a failed or killed one left.
PromotionOverwritesNoPromotion ==
    [][\A p \in Procs :
          ("integration" \notin disturbed /\ At(p, "replacing") /\ proc[p].call = "source"
              /\ At(p, "between")')
              => SameButEdits(tree[Src], proc[p].current, proc[p].since)]_vars

\* An overlay never has an older content of a file than its base, which the next
\* promotion would put back over src/: not after any failure of a rebase or of a
\* promotion half way, nor after an integration, if nobody is killed
\* (_rebase_locked).  An area made while src/ was replaced can have one: its base
\* and its overlay are two copies of src/.
NothingIsReverted ==
    "kill" \in disturbed \/ \A a \in Existing, f \in Paths :
        (areaLock[a] = Nobody /\ Readable(a)) =>
            LET old == tree[Base(a)][f]
                new == tree[Overlay(a)][f]
            IN  old # Missing => new # Missing /\ new >= old
=============================================================================
