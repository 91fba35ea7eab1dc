-------------------------- MODULE IncrementalBuild --------------------------
(***************************************************************************)
(* The v0.3 executor (v3/executor.py) on one build workspace               *)
(* (v3/workspaces.py): fingerprints are compared with those of the last    *)
(* recorded build, the longest checkpoint of the unchanged prefix is       *)
(* restored, the other leaf tasks are run in order, checkpoints are saved  *)
(* on the way, and the work tree becomes a new generation.  Builders are   *)
(* processes that share the build lock; inputs are edited at any time and  *)
(* may be changed back.                                                    *)
(***************************************************************************)
EXTENDS Naturals, Sequences

CONSTANTS Builders, Nobody,  \* processes, and no process
          N,                 \* leaf tasks of the bound plan, in order
          Boundaries,        \* leaf counts of its checkpoint groups
          Always,            \* leaves with the ALWAYS_RUN policy, by builder
          Checked,           \* leaves that declare outputs
          Nesting,           \* leaves that take the build lock again
          Versions, Missing, \* contents of an input; an output that is not there
          First,             \* the contents that a seed was built from
          MaxEdits, MaxRuns, MaxFaults  \* bounds

ASSUME PlanIsBound ==
    /\ N \in Nat \ {0} /\ Boundaries \subseteq 1 .. N
    /\ Always \in [Builders -> SUBSET (1 .. N)]
    /\ Checked \subseteq 1 .. N /\ Nesting \subseteq 1 .. N
ASSUME Outsiders == Nobody \notin Builders /\ Missing \notin Versions /\ First \in Versions
ASSUME BoundsAreNat == MaxEdits \in Nat /\ MaxRuns \in Nat /\ MaxFaults \in Nat

VARIABLES inputs,       \* contents of what each leaf reads
          exists,       \* whether the workspace directory is there
          work,         \* work/: what each leaf left there
          checkpoints,  \* checkpoints/ by leaf count
          generations,  \* generations/, in order of creation
          current,      \* current.json: a generation, or 0
          tasks,        \* state.json: fingerprints of the leaves
          described,    \* the current generation when it was written
          lock,         \* build.lock: holder and depth
          at, prints, clean, next, \* of each builder: phase, fingerprints, the
                               \* leaves it skips, the leaf to run next
          edits, runs, faults      \* counters of the bounds

disk == <<exists, work, checkpoints, generations, current, tasks, described>>
counters == <<edits, runs, faults>>
vars == <<inputs, disk, lock, at, prints, clean, next, counters>>

Leaves == 1 .. N
Empty == [i \in Leaves |-> Missing]
Unsaved == [payload |-> Empty, prints |-> <<>>]

\* Mutant of NoWorkspace: the pointer to the current generation stays.
NoWorkspaceButPointer == /\ work' = Empty
                         /\ checkpoints' = [c \in Boundaries |-> Unsaved]
                         /\ generations' = <<>> /\ current' = current
                         /\ tasks' = <<>> /\ described' = 0

NoWorkspace == /\ work' = Empty
               /\ checkpoints' = [c \in Boundaries |-> Unsaved]
               /\ generations' = <<>> /\ current' = 0
               /\ tasks' = <<>> /\ described' = 0

Init == /\ inputs = [i \in Leaves |-> First]
        /\ exists = FALSE /\ work = Empty
        /\ checkpoints = [c \in Boundaries |-> Unsaved]
        /\ generations = <<>> /\ current = 0
        /\ tasks = <<>> /\ described = 0
        /\ lock = [holder |-> Nobody, depth |-> 0]
        /\ at = [b \in Builders |-> "idle"]
        /\ prints = [b \in Builders |-> <<>>]
        /\ clean = [b \in Builders |-> 0]
        /\ next = [b \in Builders |-> 1]
        /\ edits = 0 /\ runs = 0 /\ faults = 0

Go(b, p) == at' = [at EXCEPT ![b] = p]

Edit(i) == /\ edits < MaxEdits /\ edits' = edits + 1
           /\ \E v \in Versions \ {inputs[i]} : inputs' = [inputs EXCEPT ![i] = v]
           /\ UNCHANGED <<disk, lock, at, prints, clean, next, runs, faults>>

----------------------------------------------------------------------------
(* Worktree.build_lock: an RLock and a count inside the process, a flock   *)
(* between processes that is given up with the last exit.                  *)

Taken(b) == /\ lock.holder \in {Nobody, b}
            /\ lock' = [holder |-> b, depth |-> lock.depth + 1]

\* Mutant of Released: every exit unlocks the file.
ReleasedAtOnce(b) == lock' = [holder |-> Nobody, depth |-> 0]

Released(b) == lock' = IF lock.depth = 1 THEN [holder |-> Nobody, depth |-> 0]
                       ELSE [lock EXCEPT !.depth = lock.depth - 1]

----------------------------------------------------------------------------
(* WorkspaceManager.create and remove, each under the lock.                *)

\* A seed's generation is published without fingerprints; its checkpoints are
\* copied, its state is not.
Create(seeded) ==
    /\ lock.holder = Nobody /\ ~exists
    /\ exists' = TRUE
    /\ LET seed == [i \in Leaves |-> First]
       IN  IF seeded
           THEN /\ work' = seed
                /\ generations' = <<[payload |-> seed, prints |-> <<>>, whole |-> TRUE]>>
                /\ current' = 1
                /\ checkpoints' = [c \in Boundaries |->
                      [payload |-> [i \in Leaves |-> IF i <= c THEN First ELSE Missing],
                       prints |-> [i \in 1 .. c |-> First]]]
           ELSE UNCHANGED <<work, generations, current, checkpoints>>
    /\ UNCHANGED <<inputs, tasks, described, lock, at, prints, clean, next, counters>>

Remove == /\ lock.holder = Nobody /\ exists /\ faults < MaxFaults /\ faults' = faults + 1
          /\ exists' = FALSE /\ NoWorkspace
          /\ UNCHANGED <<inputs, lock, at, prints, clean, next, edits, runs>>

----------------------------------------------------------------------------
(* Executor.execute.                                                       *)

\* The workspace is initialized, then the lock is taken; an empty work tree
\* is filled from the current generation.
Enter(b) ==
    /\ at[b] = "idle" /\ runs < MaxRuns /\ runs' = runs + 1
    /\ lock.holder = Nobody /\ Taken(b)
    /\ exists' = TRUE
    /\ work' = IF current # 0 /\ work = Empty THEN generations[current].payload ELSE work
    /\ prints' = [prints EXCEPT ![b] = <<>>]
    /\ Go(b, "digesting")
    /\ UNCHANGED <<inputs, checkpoints, generations, current, tasks, described, clean, next, edits, faults>>

\* fingerprint of one leaf: all of them are taken before the first task runs.
Fingerprint(b) ==
    /\ at[b] = "digesting" /\ Len(prints[b]) < N
    /\ prints' = [prints EXCEPT ![b] = Append(prints[b], inputs[Len(prints[b]) + 1])]
    /\ UNCHANGED <<inputs, disk, lock, at, clean, next, counters>>

\* _outputs_valid sees only declared outputs.
Stale(b, i) == \/ i \in Always[b]
               \/ i > Len(tasks) \/ tasks[i] # prints[b][i]
               \/ i \in Checked /\ work[i] = Missing

\* How many leaves precede the first dirty one.
CleanPrefix(b) == CHOOSE n \in 0 .. N : /\ \A i \in 1 .. n : ~Stale(b, i)
                                        /\ n < N => Stale(b, n + 1)

Digested(b) == at[b] = "digesting" /\ Len(prints[b]) = N

Reuse(b) == /\ Digested(b) /\ CleanPrefix(b) = N /\ current # 0
            /\ Released(b) /\ Go(b, "idle")
            /\ UNCHANGED <<inputs, disk, prints, clean, next, counters>>

Recorded(b, c) == checkpoints[c].prints = SubSeq(prints[b], 1, c)

\* Mutant of Usable: the deepest matching checkpoint, whatever is dirty.
UsableAnyDepth(b) == {c \in Boundaries : Recorded(b, c)}

\* Checkpoints of the unchanged prefix.
Usable(b) == {c \in Boundaries : c <= CleanPrefix(b) /\ Recorded(b, c)}

MustRun(b) == Digested(b) /\ ~(CleanPrefix(b) = N /\ current # 0)

Restore(b) == /\ MustRun(b)
              /\ \E c \in Usable(b) :
                    /\ \A d \in Usable(b) : d <= c
                    /\ work' = checkpoints[c].payload
                    /\ clean' = [clean EXCEPT ![b] = c]
              /\ next' = [next EXCEPT ![b] = clean'[b] + 1]
              /\ Go(b, "running")
              /\ UNCHANGED <<inputs, exists, checkpoints, generations, current, tasks, described,
                             lock, prints, counters>>

\* Mutant of Wipe: what a failed or older build left there stays.
WipeNothing(b) == /\ MustRun(b) /\ Usable(b) = {}
                  /\ clean' = [clean EXCEPT ![b] = CleanPrefix(b)]
                  /\ next' = [next EXCEPT ![b] = CleanPrefix(b) + 1]
                  /\ Go(b, "running")
                  /\ UNCHANGED <<inputs, disk, lock, prints, counters>>

\* No checkpoint: the work tree is emptied, and the clean prefix is skipped
\* all the same.
Wipe(b) == /\ MustRun(b) /\ Usable(b) = {}
           /\ work' = Empty
           /\ clean' = [clean EXCEPT ![b] = CleanPrefix(b)]
           /\ next' = [next EXCEPT ![b] = CleanPrefix(b) + 1]
           /\ Go(b, "running")
           /\ UNCHANGED <<inputs, exists, checkpoints, generations, current, tasks, described,
                          lock, prints, counters>>

\* A task reads its inputs as they are now.  One that prepares a staging area
\* takes the lock again while it runs.
RunTask(b) ==
    /\ at[b] = "running" /\ next[b] <= N
    /\ IF next[b] \in Nesting THEN Taken(b) ELSE UNCHANGED lock
    /\ work' = [work EXCEPT ![next[b]] = inputs[next[b]]]
    /\ Go(b, IF next[b] \in Nesting THEN "nested" ELSE "ran")
    /\ UNCHANGED <<inputs, exists, checkpoints, generations, current, tasks, described,
                   prints, clean, next, counters>>

Unnest(b) == /\ at[b] = "nested" /\ Released(b)
             /\ Go(b, "ran")
             /\ UNCHANGED <<inputs, disk, prints, clean, next, counters>>

Fault == faults < MaxFaults /\ faults' = faults + 1

\* A task or the validation of its outputs raises: what it did stays in work/,
\* and state.json keeps the fingerprints of the last recorded build.
TaskFails(b) ==
    /\ at[b] = "running" /\ next[b] <= N /\ Fault
    /\ work' \in {work, [work EXCEPT ![next[b]] = inputs[next[b]]]}
    /\ Released(b) /\ Go(b, "idle")
    /\ UNCHANGED <<inputs, exists, checkpoints, generations, current, tasks, described,
                   prints, clean, next, edits, runs>>

\* The task is done; save_checkpoint removes the old checkpoint first.
TaskDone(b) ==
    /\ at[b] = "ran"
    /\ next' = [next EXCEPT ![b] = next[b] + 1]
    /\ IF next[b] \in Boundaries
       THEN checkpoints' = [checkpoints EXCEPT ![next[b]] = Unsaved] /\ Go(b, "saving")
       ELSE Go(b, "running") /\ UNCHANGED checkpoints
    /\ UNCHANGED <<inputs, exists, work, generations, current, tasks, described,
                   lock, prints, clean, counters>>

\* Its final rename.
SaveCheckpoint(b) ==
    LET c == next[b] - 1
    IN  /\ at[b] = "saving"
        /\ checkpoints' = [checkpoints EXCEPT
               ![c] = [payload |-> work, prints |-> SubSeq(prints[b], 1, c)]]
        /\ Go(b, "running")
        /\ UNCHANGED <<inputs, exists, work, generations, current, tasks, described,
                       lock, prints, clean, next, counters>>

\* Mutant of BeginGeneration: current.json is written first.
BeginCurrent(b) ==
    /\ at[b] = "running" /\ next[b] > N
    /\ generations' = Append(generations, [payload |-> Empty, prints |-> <<>>, whole |-> FALSE])
    /\ current' = Len(generations) + 1
    /\ Go(b, "filling")
    /\ UNCHANGED <<inputs, exists, work, checkpoints, tasks, described,
                   lock, prints, clean, next, counters>>

\* publish: a directory of its own for the copy, the copy and its manifest,
\* and then the pointer.
BeginGeneration(b) ==
    /\ at[b] = "running" /\ next[b] > N
    /\ generations' = Append(generations, [payload |-> Empty, prints |-> <<>>, whole |-> FALSE])
    /\ Go(b, "filling")
    /\ UNCHANGED <<inputs, exists, work, checkpoints, current, tasks, described,
                   lock, prints, clean, next, counters>>

\* Mutant of FillGeneration: state.json is written before the pointer moves.
FillAndRecord(b) ==
    /\ at[b] = "filling"
    /\ generations' = [generations EXCEPT ![Len(generations)] =
                          [payload |-> work, prints |-> prints[b], whole |-> TRUE]]
    /\ tasks' = prints[b] /\ described' = current
    /\ Go(b, "switching")
    /\ UNCHANGED <<inputs, exists, work, checkpoints, current, lock, prints, clean, next, counters>>

FillGeneration(b) ==
    /\ at[b] = "filling"
    /\ generations' = [generations EXCEPT ![Len(generations)] =
                          [payload |-> work, prints |-> prints[b], whole |-> TRUE]]
    /\ Go(b, "switching")
    /\ UNCHANGED <<inputs, exists, work, checkpoints, current, tasks, described,
                   lock, prints, clean, next, counters>>

SwitchCurrent(b) ==
    /\ at[b] = "switching"
    /\ current' = Len(generations)
    /\ Go(b, "recording")
    /\ UNCHANGED <<inputs, exists, work, checkpoints, generations, tasks, described,
                   lock, prints, clean, next, counters>>

\* write_state, and the end of the with block.
RecordState(b) ==
    /\ at[b] = "recording"
    /\ tasks' = prints[b] /\ described' = current
    /\ Released(b) /\ Go(b, "idle")
    /\ UNCHANGED <<inputs, exists, work, checkpoints, generations, current,
                   prints, clean, next, counters>>

\* A builder is killed: the flock goes with the process.
Crash(b) == /\ at[b] # "idle" /\ Fault
            /\ lock' = [holder |-> Nobody, depth |-> 0]
            /\ Go(b, "idle")
            /\ UNCHANGED <<inputs, disk, prints, clean, next, edits, runs>>

Execute(b) == \/ Enter(b) \/ Fingerprint(b) \/ Reuse(b) \/ Restore(b) \/ Wipe(b)
              \/ RunTask(b) \/ Unnest(b) \/ TaskFails(b) \/ TaskDone(b) \/ SaveCheckpoint(b)
              \/ BeginGeneration(b) \/ FillGeneration(b) \/ SwitchCurrent(b) \/ RecordState(b)

Next == \/ \E i \in Leaves : Edit(i)
        \/ \E seeded \in BOOLEAN : Create(seeded)
        \/ Remove
        \/ \E b \in Builders : Execute(b) \/ Crash(b)

BuildSpec == Init /\ [][Next]_vars

----------------------------------------------------------------------------
(* Properties.                                                             *)

Phases == {"idle", "digesting", "running", "nested", "ran", "saving", "filling",
           "switching", "recording"}
Outputs == Versions \cup {Missing}
Prints == UNION {[1 .. n -> Versions] : n \in 0 .. N}

\* Types, with every fingerprint list no longer than the plan.
TypeOK ==
    /\ inputs \in [Leaves -> Versions] /\ exists \in BOOLEAN
    /\ work \in [Leaves -> Outputs]
    /\ checkpoints \in [Boundaries -> [payload : [Leaves -> Outputs], prints : Prints]]
    /\ generations \in Seq([payload : [Leaves -> Outputs], prints : Prints, whole : BOOLEAN])
    /\ current \in 0 .. Len(generations) /\ described \in Nat
    /\ tasks \in Prints
    /\ lock \in [holder : Builders \cup {Nobody}, depth : 0 .. 2]
    /\ at \in [Builders -> Phases]
    /\ prints \in [Builders -> Prints]
    /\ clean \in [Builders -> 0 .. N] /\ next \in [Builders -> 1 .. (N + 1)]
    /\ edits \in 0 .. MaxEdits /\ runs \in 0 .. MaxRuns /\ faults \in 0 .. MaxFaults

\* Whoever is between taking and leaving the build lock holds it all the time,
\* also while and after a task has taken it a second time (build_lock,
\* StagingAreaManager.ensure), so one builder at a time touches work/.
BuildLockIsHeld ==
    \A b \in Builders : at[b] # "idle" =>
        lock = [holder |-> b, depth |-> IF at[b] = "nested" THEN 2 ELSE 1]

\* current.json never names a generation that is not copied completely, after
\* any kill in publish.
CurrentIsWhole == current # 0 => generations[current].whole

\* A generation is reused only for the fingerprints in its own manifest, as
\* long as state.json was written after it: a kill between the pointer and
\* state.json is the one way to leave an older description beside it.
ReuseMatchesManifest ==
    \A b \in Builders :
        (Digested(b) /\ CleanPrefix(b) = N /\ current # 0 /\ described = current)
            => generations[current].prints = prints[b]

\* Nothing that a failed, killed or older build left in work/ gets into a
\* checkpoint: a checkpoint holds outputs of the leaves before it only.
CheckpointsHoldTheirPrefix ==
    \A c \in Boundaries : \A i \in Leaves : i > c => checkpoints[c].payload[i] = Missing

\* A task that must always run has run in the build that publishes, whichever
\* checkpoints match.
AlwaysRunTasksRun ==
    \A b \in Builders : at[b] \in {"filling", "switching", "recording"} =>
        \A i \in Always[b] : clean[b] < i /\ i < next[b]

\* docs/klibgen-gt-build-v0.3.md:254: "If no checkpoint remains valid, it clears
\* the mutable construction tree and starts from the first task", so that a
\* published generation holds the outputs of every task.
GenerationsAreComplete ==
    \A g \in DOMAIN generations : generations[g].whole =>
        \A i \in Leaves : generations[g].payload[i] # Missing
=============================================================================
