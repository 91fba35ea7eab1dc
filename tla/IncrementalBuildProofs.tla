----------------------- MODULE IncrementalBuildProofs -----------------------
(* Proofs about the v0.3 executor, for every plan, number of builders and   *)
(* bound: mutual exclusion first, then the types, and on both of them what  *)
(* checkpoints, generations and recorded fingerprints hold.                 *)
EXTENDS IncrementalBuild, SequenceTheorems, WellFoundedInduction, TLAPS

----------------------------------------------------------------------------
(* The lock.                                                               *)

LockInv == /\ lock \in [holder : Builders \cup {Nobody}, depth : Nat]
           /\ IF lock.holder = Nobody THEN lock.depth = 0 ELSE at[lock.holder] # "idle"
           /\ at \in [Builders -> Phases]
           /\ BuildLockIsHeld

LEMMA LockInit == Init => LockInv
BY DEF Init, LockInv, BuildLockIsHeld, Phases

\* Whoever is in a phase is alone in it.
LEMMA Alone ==
    ASSUME LockInv, NEW b \in Builders, at[b] # "idle", NEW c \in Builders, c # b
    PROVE  at[c] = "idle"
BY DEF LockInv, BuildLockIsHeld

LEMMA AllIdle ==
    ASSUME LockInv, lock.holder = Nobody, NEW b \in Builders
    PROVE  at[b] = "idle"
BY Outsiders DEF LockInv, BuildLockIsHeld

\* A step inside the lock, between phases of the same depth.
LEMMA KeepsLock ==
    ASSUME LockInv, NEW b \in Builders, at[b] \notin {"idle", "nested"},
           NEW p \in Phases \ {"idle", "nested"}, at' = [at EXCEPT ![b] = p], lock' = lock
    PROVE  LockInv'
BY DEF LockInv, BuildLockIsHeld

\* One builder takes the lock, a first or a second time, or gives the second up.
LEMMA OnlyOne ==
    ASSUME LockInv, NEW b \in Builders, NEW p \in Phases \ {"idle"},
           NEW d \in Nat, d = IF p = "nested" THEN 2 ELSE 1,
           at' = [at EXCEPT ![b] = p], lock' = [holder |-> b, depth |-> d],
           \A c \in Builders : c # b => at[c] = "idle"
    PROVE  LockInv'
BY Outsiders DEF LockInv, BuildLockIsHeld

\* The end of the critical section.
LEMMA LeavesLock ==
    ASSUME LockInv, NEW b \in Builders, at[b] # "idle",
           at' = [at EXCEPT ![b] = "idle"], lock' = [holder |-> Nobody, depth |-> 0]
    PROVE  LockInv'
<1>1. \A c \in Builders : at'[c] = "idle"
  BY Alone DEF LockInv
<1> QED BY <1>1 DEF LockInv, BuildLockIsHeld, Phases

LEMMA ReleasedLast ==
    ASSUME LockInv, NEW b \in Builders, at[b] \notin {"idle", "nested"}, Released(b)
    PROVE  lock' = [holder |-> Nobody, depth |-> 0]
BY DEF LockInv, BuildLockIsHeld, Released

LEMMA LockStep ==
    ASSUME LockInv, [Next]_vars
    PROVE  LockInv'
<1>1. CASE UNCHANGED vars
  BY <1>1 DEF LockInv, BuildLockIsHeld, vars
<1>2. ASSUME NEW i \in Leaves, Edit(i) PROVE LockInv'
  BY <1>2 DEF LockInv, BuildLockIsHeld, Edit
<1>3. ASSUME NEW seeded \in BOOLEAN, Create(seeded) PROVE LockInv'
  BY <1>3 DEF LockInv, BuildLockIsHeld, Create
<1>4. CASE Remove
  BY <1>4 DEF LockInv, BuildLockIsHeld, Remove
<1>5. ASSUME NEW b \in Builders, Execute(b) PROVE LockInv'
  <2>1. CASE Enter(b)
    <3>1. /\ lock' = [holder |-> b, depth |-> 1] /\ at' = [at EXCEPT ![b] = "digesting"]
          /\ \A c \in Builders : at[c] = "idle"
      BY <2>1, AllIdle DEF Enter, Taken, Go, LockInv, BuildLockIsHeld
    <3> QED BY <3>1, OnlyOne, Outsiders DEF Phases
  <2>2. CASE Fingerprint(b)
    BY <2>2 DEF Fingerprint, LockInv, BuildLockIsHeld
  <2>3. CASE Reuse(b)
    BY <2>3, LeavesLock, ReleasedLast DEF Reuse, Digested, Go
  <2>4. CASE Restore(b)
    BY <2>4, KeepsLock DEF Restore, MustRun, Digested, Go, Phases
  <2>5. CASE Wipe(b)
    BY <2>5, KeepsLock DEF Wipe, MustRun, Digested, Go, Phases
  <2>6. CASE RunTask(b)
    <3>1. CASE next[b] \in Nesting
      <4>1. lock' = [holder |-> b, depth |-> 2] /\ at' = [at EXCEPT ![b] = "nested"]
        BY <2>6, <3>1 DEF RunTask, Taken, Go, LockInv, BuildLockIsHeld
      <4>2. \A c \in Builders : c # b => at[c] = "idle"
        BY <2>6, Alone DEF RunTask
      <4> QED BY <4>1, <4>2, OnlyOne, Outsiders DEF Phases
    <3>2. CASE next[b] \notin Nesting
      BY <2>6, <3>2, KeepsLock DEF RunTask, Go, Phases
    <3> QED BY <3>1, <3>2
  <2>7. CASE Unnest(b)
    <3>1. lock = [holder |-> b, depth |-> 2] /\ lock' = [lock EXCEPT !.depth = lock.depth - 1]
      BY <2>7 DEF Unnest, Released, LockInv, BuildLockIsHeld
    <3>2. lock' = [holder |-> b, depth |-> 1] /\ at' = [at EXCEPT ![b] = "ran"]
      BY <2>7, <3>1 DEF Unnest, Go
    <3>3. \A c \in Builders : c # b => at[c] = "idle"
      BY <2>7, Alone DEF Unnest
    <3> QED BY <3>2, <3>3, OnlyOne, Outsiders DEF Phases
  <2>8. CASE TaskFails(b)
    BY <2>8, LeavesLock, ReleasedLast DEF TaskFails, Go
  <2>9. CASE TaskDone(b)
    BY <2>9, KeepsLock DEF TaskDone, Go, Phases
  <2>10. CASE SaveCheckpoint(b)
    BY <2>10, KeepsLock DEF SaveCheckpoint, Go, Phases
  <2>11. CASE BeginGeneration(b)
    BY <2>11, KeepsLock DEF BeginGeneration, Go, Phases
  <2>12. CASE FillGeneration(b)
    BY <2>12, KeepsLock DEF FillGeneration, Go, Phases
  <2>13. CASE SwitchCurrent(b)
    BY <2>13, KeepsLock DEF SwitchCurrent, Go, Phases
  <2>14. CASE RecordState(b)
    BY <2>14, LeavesLock, ReleasedLast DEF RecordState, Go
  <2> QED BY <1>5, <2>1, <2>2, <2>3, <2>4, <2>5, <2>6, <2>7, <2>8, <2>9, <2>10, <2>11,
             <2>12, <2>13, <2>14 DEF Execute
<1>6. ASSUME NEW b \in Builders, Crash(b) PROVE LockInv'
  BY <1>6, LeavesLock DEF Crash, Go
<1> QED BY <1>1, <1>2, <1>3, <1>4, <1>5, <1>6 DEF Next

\* One builder at a time is between taking and leaving the build lock, also
\* around a task that takes it again (Worktree.build_lock).
THEOREM OneBuilderHoldsTheLock == BuildSpec => []BuildLockIsHeld
<1>1. LockInv => BuildLockIsHeld
  BY DEF LockInv
<1> QED BY <1>1, LockInit, LockStep, PTL DEF BuildSpec

----------------------------------------------------------------------------
(* Data.                                                                   *)

LEMMA PrintsAre == \A s : (s \in Prints) <=> (s \in Seq(Versions) /\ Len(s) <= N)
<1>1. ASSUME NEW s, s \in Prints PROVE s \in Seq(Versions) /\ Len(s) <= N
  <2>1. PICK n \in 0 .. N : s \in [1 .. n -> Versions]
    BY <1>1 DEF Prints
  <2>2. n \in Nat /\ n <= N
    BY PlanIsBound
  <2>3. s \in Seq(Versions)
    BY <2>1, <2>2, SeqDef
  <2>4. Len(s) = n
    BY <2>1, <2>2, <2>3, LenProperties
  <2> QED BY <2>2, <2>3, <2>4
<1>2. ASSUME NEW s, s \in Seq(Versions), Len(s) <= N PROVE s \in Prints
  <2>1. Len(s) \in 0 .. N /\ s \in [1 .. Len(s) -> Versions]
    BY <1>2, LenProperties, PlanIsBound
  <2> QED BY <2>1 DEF Prints
<1> QED BY <1>1, <1>2, Zenon

LEMMA NoPrints == <<>> \in Prints
<1>1. <<>> \in Seq(Versions) /\ Len(<<>>) = 0
  BY EmptySeq, Zenon
<1>2. 0 <= N
  BY PlanIsBound
<1> QED BY <1>1, <1>2, PrintsAre, Zenon

LEMMA Least ==
    ASSUME NEW T, T \subseteq Nat, T # {}
    PROVE  \E m \in T : \A k \in T : m <= k
<1> DEFINE R == OpToRel(<, Nat)
<1>1. \A x, y \in Nat : x < y => <<x, y>> \in R
  BY DEF OpToRel
<1>2. PICK m \in T : \A k \in T : ~ (<<k, m>> \in R)
  <2>1. IsWellFoundedOn(R, Nat)
    BY NatLessThanWellFounded, Zenon
  <2> HIDE DEF R
  <2> QED BY <2>1, WFMin, Zenon
<1> HIDE DEF R
<1>3. \A k \in T : ~(k < m)
  BY <1>1, <1>2
<1> QED BY <1>3

\* The clean prefix ends before the first stale leaf.
LEMMA CleanPrefixIs ==
    ASSUME NEW b \in Builders
    PROVE  /\ CleanPrefix(b) \in 0 .. N
           /\ \A i \in 1 .. CleanPrefix(b) : ~Stale(b, i)
<1> DEFINE P(n) == /\ \A i \in 1 .. n : ~Stale(b, i)
                   /\ n < N => Stale(b, n + 1)
<1>1. \E n \in 0 .. N : P(n)
  <2> DEFINE T == {i \in Leaves : Stale(b, i)}
  <2>1. CASE T = {}
    BY <2>1, PlanIsBound DEF Leaves
  <2>2. CASE T # {}
    <3>1. T \subseteq Nat
      BY PlanIsBound DEF Leaves
    <3>2. PICK m \in T : \A k \in T : m <= k
      BY <2>2, <3>1, Least
    <3>3. m \in 1 .. N /\ Stale(b, m)
      BY DEF Leaves
    <3>4. \A i \in 1 .. (m - 1) : i \in Leaves /\ ~(m <= i)
      BY <3>3, PlanIsBound DEF Leaves
    <3> DEFINE n == m - 1
    <3>5. n \in 0 .. N /\ n + 1 = m
      BY <3>3, PlanIsBound
    <3>6. \A i \in 1 .. n : ~Stale(b, i)
      BY <3>2, <3>4
    <3>7. P(n)
      BY <3>3, <3>5, <3>6
    <3> QED BY <3>5, <3>7
  <2> QED BY <2>1, <2>2
<1>2. CleanPrefix(b) = CHOOSE n \in 0 .. N : P(n)
  BY DEF CleanPrefix
<1> HIDE DEF P
<1>3. CleanPrefix(b) \in 0 .. N /\ P(CleanPrefix(b))
  BY <1>1, <1>2
<1> QED BY <1>3 DEF P

----------------------------------------------------------------------------
(* Types.                                                                  *)

\* How far a builder has come, next to the types.
Course(b) == /\ at[b] \notin {"idle", "digesting"} => Len(prints[b]) = N
             /\ at[b] \in {"ran", "nested"} => next[b] <= N
             /\ at[b] = "saving" => next[b] - 1 \in Boundaries
             /\ at[b] \in {"filling", "switching", "recording"} => next[b] = N + 1
             /\ at[b] \in {"filling", "switching"} => Len(generations) > 0

TypeInv == LockInv /\ TypeOK /\ \A b \in Builders : Course(b)

Generation == [payload : [Leaves -> Outputs], prints : Prints, whole : BOOLEAN]

\* The part of the types that is not a bound or a lock.
Disk == /\ inputs \in [Leaves -> Versions] /\ exists \in BOOLEAN
        /\ work \in [Leaves -> Outputs]
        /\ checkpoints \in [Boundaries -> [payload : [Leaves -> Outputs], prints : Prints]]
        /\ generations \in Seq(Generation)
        /\ current \in 0 .. Len(generations) /\ described \in Nat
        /\ tasks \in Prints
Builds == /\ prints \in [Builders -> Prints]
          /\ clean \in [Builders -> 0 .. N] /\ next \in [Builders -> 1 .. (N + 1)]
Bounds == edits \in 0 .. MaxEdits /\ runs \in 0 .. MaxRuns /\ faults \in 0 .. MaxFaults

LEMMA TypeParts == LockInv => (TypeOK <=> Disk /\ Builds /\ Bounds)
<1> SUFFICES ASSUME LockInv PROVE TypeOK <=> Disk /\ Builds /\ Bounds
  OBVIOUS
<1>1. lock \in [holder : Builders \cup {Nobody}, depth : 0 .. 2]
  BY DEF LockInv, BuildLockIsHeld
<1> QED BY <1>1 DEF TypeOK, Disk, Builds, Bounds, Generation, LockInv

LEMMA EmptyTree == Empty \in [Leaves -> Outputs]
BY DEF Empty, Outputs

LEMMA EmptyWorkspace ==
    ASSUME NoWorkspace
    PROVE  /\ work' \in [Leaves -> Outputs]
           /\ checkpoints' \in [Boundaries -> [payload : [Leaves -> Outputs], prints : Prints]]
           /\ generations' \in Seq(Generation) /\ current' \in 0 .. Len(generations')
           /\ described' \in Nat /\ tasks' \in Prints
<1>1. generations' = <<>> /\ current' = 0 /\ described' = 0 /\ tasks' = <<>>
  BY DEF NoWorkspace
<1>2. generations' \in Seq(Generation) /\ Len(generations') = 0
  BY <1>1, EmptySeq, Zenon
<1>3. tasks' \in Prints
  BY <1>1, NoPrints, Zenon
<1>4. Unsaved \in [payload : [Leaves -> Outputs], prints : Prints]
  BY EmptyTree, NoPrints DEF Unsaved
<1> QED BY <1>1, <1>2, <1>3, <1>4, EmptyTree DEF NoWorkspace

LEMMA TypeInit == Init => TypeInv
<1> SUFFICES ASSUME Init PROVE TypeInv
  OBVIOUS
<1>1. generations \in Seq(Generation) /\ Len(generations) = 0 /\ tasks \in Prints
  BY EmptySeq, NoPrints, Zenon DEF Init
<1>2. Unsaved \in [payload : [Leaves -> Outputs], prints : Prints]
  BY EmptyTree, NoPrints DEF Unsaved
<1>3. inputs \in [Leaves -> Versions]
  BY Outsiders DEF Init
<1>4. Disk
  <2>1. /\ inputs \in [Leaves -> Versions] /\ exists \in BOOLEAN
        /\ work \in [Leaves -> Outputs]
        /\ checkpoints \in [Boundaries -> [payload : [Leaves -> Outputs], prints : Prints]]
    BY <1>2, <1>3, EmptyTree, Zenon DEF Init
  <2>2. current \in 0 .. Len(generations) /\ described \in Nat
    BY <1>1 DEF Init
  <2> QED BY <1>1, <2>1, <2>2 DEF Disk
<1>5. prints \in [Builders -> Prints]
  BY NoPrints, Zenon DEF Init
<1>6. Builds /\ Bounds
  BY <1>5, PlanIsBound, BoundsAreNat DEF Init, Builds, Bounds
<1>7. \A b \in Builders : Course(b)
  BY DEF Init, Course
<1> QED BY <1>4, <1>6, <1>7, LockInit, TypeParts DEF TypeInv

\* While one builder steps, the others are idle.
LEMMA StepOfOne ==
    ASSUME LockInv, NEW b \in Builders, Execute(b) \/ Crash(b)
    PROVE  \A c \in Builders : c # b => at[c] = "idle" /\ at'[c] = "idle"
<1>1. \A c \in Builders : c # b => at'[c] = at[c]
  BY DEF Execute, Crash, Enter, Go, LockInv, Fingerprint, Reuse, Restore, Wipe,
         RunTask, Unnest, TaskFails, TaskDone, SaveCheckpoint, BeginGeneration, FillGeneration,
         SwitchCurrent, RecordState
<1>2. lock.holder = Nobody \/ at[b] # "idle"
  BY DEF Execute, Crash, Enter, Fingerprint, Reuse, Restore, Wipe, MustRun, Digested,
         RunTask, Unnest, TaskFails, TaskDone, SaveCheckpoint, BeginGeneration, FillGeneration,
         SwitchCurrent, RecordState
<1> QED BY <1>1, <1>2, AllIdle, Alone

LEMMA TypeStep ==
    ASSUME TypeInv, [Next]_vars
    PROVE  TypeInv'
<1> USE DEF TypeInv
<1>0. LockInv' /\ Disk /\ Builds /\ Bounds
  BY LockStep, TypeParts
<1> SUFFICES Disk' /\ Builds' /\ Bounds' /\ \A b \in Builders : Course(b)'
  <2>1. LockInv' => (TypeOK' <=> Disk' /\ Builds' /\ Bounds')
    BY TypeParts, PTL
  <2> QED BY <1>0, <2>1
<1>1. CASE UNCHANGED vars
  BY <1>0, <1>1 DEF Disk, Builds, Bounds, Course, vars, disk, counters
<1>2. ASSUME NEW i \in Leaves, Edit(i)
      PROVE  Disk' /\ Builds' /\ Bounds' /\ \A b \in Builders : Course(b)'
  BY <1>0, <1>2, BoundsAreNat DEF Edit, Disk, Builds, Bounds, Course, disk
<1>3. ASSUME NEW seeded \in BOOLEAN, Create(seeded)
      PROVE  Disk' /\ Builds' /\ Bounds' /\ \A b \in Builders : Course(b)'
  <2>1. Disk'
    <3>1. CASE seeded
      <4> DEFINE seed == [i \in Leaves |-> First]
      <4> DEFINE first == [payload |-> seed, prints |-> <<>>, whole |-> TRUE]
      <4>1. seed \in [Leaves -> Outputs]
        BY Outsiders DEF Outputs
      <4>2. work' = seed /\ generations' = <<first>> /\ current' = 1
        BY <1>3, <3>1 DEF Create
      <4>3. first \in Generation
        BY <4>1, NoPrints DEF Generation
      <4>4. generations' \in Seq(Generation) /\ Len(generations') = 1
        <5> HIDE DEF first
        <5> QED BY <4>2, <4>3
      <4>5. checkpoints' \in [Boundaries -> [payload : [Leaves -> Outputs], prints : Prints]]
        <5>1. \A c \in Boundaries : [i \in 1 .. c |-> First] \in Prints
          <6> SUFFICES ASSUME NEW c \in Boundaries PROVE [i \in 1 .. c |-> First] \in Prints
            OBVIOUS
          <6>1. c \in 0 .. N
            BY PlanIsBound
          <6>2. [i \in 1 .. c |-> First] \in [1 .. c -> Versions]
            BY Outsiders
          <6> QED BY <6>1, <6>2 DEF Prints
        <5>2. \A c \in Boundaries : [i \in Leaves |-> IF i <= c THEN First ELSE Missing] \in [Leaves -> Outputs]
          BY Outsiders DEF Outputs
        <5>3. checkpoints' = [c \in Boundaries |->
                 [payload |-> [i \in Leaves |-> IF i <= c THEN First ELSE Missing],
                  prints |-> [i \in 1 .. c |-> First]]]
          BY <1>3, <3>1 DEF Create
        <5> QED BY <5>1, <5>2, <5>3
      <4> HIDE DEF seed, first
      <4> QED BY <1>0, <1>3, <4>1, <4>2, <4>4, <4>5 DEF Create, Disk
    <3>2. CASE ~seeded
      BY <1>0, <1>3, <3>2 DEF Create, Disk
    <3> QED BY <3>1, <3>2
  <2> QED BY <1>0, <1>3, <2>1, AllIdle DEF Create, Builds, Bounds, Course, counters
<1>4. ASSUME Remove
      PROVE  Disk' /\ Builds' /\ Bounds' /\ \A b \in Builders : Course(b)'
  <2>1. Disk'
    BY <1>0, <1>4, EmptyWorkspace DEF Remove, Disk
  <2> QED BY <1>0, <1>4, <2>1, BoundsAreNat, AllIdle DEF Remove, Builds, Bounds, Course
<1>5. ASSUME NEW b \in Builders, Execute(b) \/ Crash(b)
      PROVE  Disk' /\ Builds' /\ Bounds' /\ Course(b)'
  <2>1. CASE Enter(b)
    <3>1. prints' \in [Builders -> Prints]
      <4>1. prints' = [prints EXCEPT ![b] = <<>>]
        BY <2>1 DEF Enter
      <4> QED BY <1>0, <4>1, NoPrints, Zenon DEF Builds
    <3>2. work' \in [Leaves -> Outputs]
      <4>1. CASE current # 0
        <5>1. generations[current] \in Generation
          BY <1>0, <4>1, ElementOfSeq DEF Disk
        <5> QED BY <1>0, <2>1, <5>1 DEF Enter, Disk, Generation
      <4>2. CASE current = 0
        BY <1>0, <2>1, <4>2 DEF Enter, Disk
      <4> QED BY <4>1, <4>2
    <3>3. at' = [at EXCEPT ![b] = "digesting"]
      BY <2>1 DEF Enter, Go
    <3>4. Disk' /\ Builds' /\ Bounds'
      BY <1>0, <2>1, <3>1, <3>2, BoundsAreNat DEF Enter, Disk, Builds, Bounds
    <3> QED BY <1>0, <3>3, <3>4 DEF Course, LockInv
  <2>2. CASE Fingerprint(b)
    <3>1. prints[b] \in Seq(Versions) /\ Len(prints[b]) < N
      BY <1>0, <2>2, PrintsAre DEF Fingerprint, Builds
    <3>2. inputs[Len(prints[b]) + 1] \in Versions
      BY <1>0, <3>1, PlanIsBound DEF Disk, Leaves
    <3>3. PICK s : s = Append(prints[b], inputs[Len(prints[b]) + 1])
      OBVIOUS
    <3>4. s \in Seq(Versions) /\ Len(s) <= N
      BY <3>1, <3>2, <3>3, PlanIsBound
    <3>5. prints' = [prints EXCEPT ![b] = s]
      BY <2>2, <3>3 DEF Fingerprint
    <3>6. prints' \in [Builders -> Prints]
      BY <1>0, <3>4, <3>5, PrintsAre, Zenon DEF Builds
    <3> QED BY <1>0, <2>2, <3>6 DEF Fingerprint, Disk, Builds, Bounds, Course, disk, counters
  <2>3. CASE Reuse(b)
    BY <1>0, <2>3 DEF Reuse, Go, Disk, Builds, Bounds, Course, disk, counters, LockInv
  <2>4. CASE Restore(b)
    <3>1. PICK c \in Boundaries : /\ work' = checkpoints[c].payload
                                  /\ clean' = [clean EXCEPT ![b] = c]
      BY <2>4 DEF Restore, Usable
    <3>2. c \in 1 .. N /\ c \in Nat
      BY PlanIsBound
    <3>3. work' \in [Leaves -> Outputs]
      BY <1>0, <3>1 DEF Disk
    <3>4. next' = [next EXCEPT ![b] = c + 1]
      BY <1>0, <2>4, <3>1 DEF Restore, Builds
    <3>5. at' = [at EXCEPT ![b] = "running"] /\ Len(prints[b]) = N
      BY <2>4 DEF Restore, MustRun, Digested, Go
    <3>6. clean' \in [Builders -> 0 .. N] /\ next' \in [Builders -> 1 .. (N + 1)]
      BY <1>0, <3>1, <3>2, <3>4, PlanIsBound DEF Builds
    <3>7. Disk' /\ Builds' /\ Bounds'
      BY <1>0, <2>4, <3>3, <3>6 DEF Restore, Disk, Builds, Bounds, counters
    <3> QED BY <1>0, <2>4, <3>5, <3>7 DEF Restore, Course, LockInv
  <2>5. CASE Wipe(b)
    <3>1. PICK c \in 0 .. N : c = CleanPrefix(b)
      BY CleanPrefixIs
    <3>2. /\ clean' = [clean EXCEPT ![b] = c] /\ next' = [next EXCEPT ![b] = c + 1]
          /\ work' \in [Leaves -> Outputs]
      BY <2>5, <3>1, EmptyTree DEF Wipe
    <3>3. at' = [at EXCEPT ![b] = "running"] /\ Len(prints[b]) = N
      BY <2>5 DEF Wipe, MustRun, Digested, Go
    <3>4. clean' \in [Builders -> 0 .. N] /\ next' \in [Builders -> 1 .. (N + 1)]
      BY <1>0, <3>1, <3>2, PlanIsBound DEF Builds
    <3>5. Disk' /\ Builds' /\ Bounds'
      BY <1>0, <2>5, <3>2, <3>4 DEF Wipe, Disk, Builds, Bounds, counters
    <3> QED BY <1>0, <2>5, <3>3, <3>5 DEF Wipe, Course, LockInv
  <2>6. CASE RunTask(b)
    <3>1. next[b] \in Leaves /\ next[b] <= N
      BY <1>0, <2>6, PlanIsBound DEF RunTask, Builds, Leaves
    <3>2. work' \in [Leaves -> Outputs]
      BY <1>0, <2>6, <3>1 DEF RunTask, Disk, Outputs
    <3>3. Disk' /\ Builds' /\ Bounds'
      BY <1>0, <2>6, <3>2 DEF RunTask, Disk, Builds, Bounds, counters
    <3> QED BY <1>0, <2>6, <3>1, <3>3 DEF RunTask, Course, Go, LockInv
  <2>7. CASE Unnest(b)
    BY <1>0, <2>7 DEF Unnest, Go, Disk, Builds, Bounds, Course, disk, counters, LockInv
  <2>8. CASE TaskFails(b)
    <3>1. next[b] \in Leaves
      BY <1>0, <2>8, PlanIsBound DEF TaskFails, Builds, Leaves
    <3>2. work' \in [Leaves -> Outputs]
      BY <1>0, <2>8, <3>1 DEF TaskFails, Disk, Outputs
    <3>3. Disk' /\ Builds' /\ Bounds'
      BY <1>0, <2>8, <3>2, BoundsAreNat DEF TaskFails, Fault, Disk, Builds, Bounds
    <3> QED BY <1>0, <2>8, <3>3 DEF TaskFails, Course, Go, LockInv
  <2>9. CASE TaskDone(b)
    <3>1. PICK n \in 1 .. N : n = next[b]
      BY <1>0, <2>9, PlanIsBound DEF TaskDone, Builds, Course
    <3>2. next' = [next EXCEPT ![b] = n + 1] /\ n \in Nat /\ n + 1 - 1 = n
      BY <2>9, <3>1, PlanIsBound DEF TaskDone
    <3>3. next' \in [Builders -> 1 .. (N + 1)] /\ next'[b] - 1 = n
      BY <1>0, <3>1, <3>2, PlanIsBound DEF Builds
    <3>4. Unsaved \in [payload : [Leaves -> Outputs], prints : Prints]
      BY EmptyTree, NoPrints DEF Unsaved
    <3>5. checkpoints' \in [Boundaries -> [payload : [Leaves -> Outputs], prints : Prints]]
      <4>1. checkpoints' = [checkpoints EXCEPT ![n] = Unsaved] \/ checkpoints' = checkpoints
        BY <2>9, <3>1 DEF TaskDone
      <4> QED BY <1>0, <3>4, <4>1 DEF Disk
    <3>6. Disk' /\ Builds' /\ Bounds'
      BY <1>0, <2>9, <3>3, <3>5 DEF TaskDone, Disk, Builds, Bounds, counters
    <3>7. /\ at' = [at EXCEPT ![b] = IF n \in Boundaries THEN "saving" ELSE "running"]
          /\ prints' = prints /\ Len(prints[b]) = N
      BY <2>9, <3>1 DEF TaskDone, Go, Course
    <3> QED BY <1>0, <3>3, <3>6, <3>7 DEF Course, LockInv
  <2>10. CASE SaveCheckpoint(b)
    <3>1. PICK c \in Boundaries : c = next[b] - 1
      BY <2>10 DEF SaveCheckpoint, Course
    <3>2. c \in 1 .. N /\ prints[b] \in Seq(Versions) /\ Len(prints[b]) = N
      BY <1>0, <2>10, PlanIsBound, PrintsAre DEF SaveCheckpoint, Builds, Course
    <3>3. PICK s : s = SubSeq(prints[b], 1, c)
      OBVIOUS
    <3>4. s \in Seq(Versions) /\ Len(s) <= N
      BY <3>2, <3>3, PlanIsBound
    <3>5. s \in Prints
      BY <3>4, PrintsAre
    <3>6. checkpoints' = [checkpoints EXCEPT ![c] = [payload |-> work, prints |-> s]]
      BY <2>10, <3>1, <3>3 DEF SaveCheckpoint
    <3>7. [payload |-> work, prints |-> s] \in [payload : [Leaves -> Outputs], prints : Prints]
      BY <1>0, <3>5 DEF Disk
    <3>8. checkpoints' \in [Boundaries -> [payload : [Leaves -> Outputs], prints : Prints]]
      BY <1>0, <3>6, <3>7, Zenon DEF Disk
    <3>9. Disk' /\ Builds' /\ Bounds'
      BY <1>0, <2>10, <3>8 DEF SaveCheckpoint, Disk, Builds, Bounds, counters
    <3> QED BY <1>0, <2>10, <3>9 DEF SaveCheckpoint, Go, Course, LockInv
  <2>11. CASE BeginGeneration(b)
    <3>1. PICK g : g = [payload |-> Empty, prints |-> <<>>, whole |-> FALSE]
      OBVIOUS
    <3>2. g \in Generation
      BY <3>1, EmptyTree, NoPrints DEF Generation
    <3>3. generations' = Append(generations, g)
      BY <2>11, <3>1 DEF BeginGeneration
    <3>4. generations' \in Seq(Generation) /\ Len(generations') = Len(generations) + 1
      BY <1>0, <3>2, <3>3 DEF Disk
    <3>5. current \in 0 .. Len(generations')
      BY <1>0, <3>4 DEF Disk
    <3>6. Disk' /\ Builds' /\ Bounds'
      BY <1>0, <2>11, <3>4, <3>5 DEF BeginGeneration, Disk, Builds, Bounds, counters
    <3>7. next[b] = N + 1
      BY <1>0, <2>11, PlanIsBound DEF BeginGeneration, Builds
    <3> QED BY <1>0, <2>11, <3>6, <3>7 DEF BeginGeneration, Go, Course, LockInv
  <2>12. CASE FillGeneration(b)
    <3>1. PICK g : g = [payload |-> work, prints |-> prints[b], whole |-> TRUE]
      OBVIOUS
    <3>2. g \in Generation
      BY <1>0, <3>1 DEF Generation, Disk, Builds
    <3>3. generations' = [generations EXCEPT ![Len(generations)] = g]
      BY <2>12, <3>1 DEF FillGeneration
    <3>4. generations' \in Seq(Generation) /\ Len(generations') = Len(generations)
      <4>1. generations \in Seq(Generation) /\ Len(generations) \in 1 .. Len(generations)
        BY <1>0, <2>12 DEF FillGeneration, Disk, Course
      <4> QED BY <3>2, <3>3, <4>1, ExceptSeq
    <3>5. Disk' /\ Builds' /\ Bounds'
      BY <1>0, <2>12, <3>4 DEF FillGeneration, Disk, Builds, Bounds, counters
    <3> QED BY <1>0, <2>12, <3>5 DEF FillGeneration, Go, Course, LockInv
  <2>13. CASE SwitchCurrent(b)
    <3>1. Disk' /\ Builds' /\ Bounds'
      BY <1>0, <2>13 DEF SwitchCurrent, Disk, Builds, Bounds, counters
    <3> QED BY <1>0, <2>13, <3>1 DEF SwitchCurrent, Go, Course, LockInv
  <2>14. CASE RecordState(b)
    <3>1. Disk' /\ Builds' /\ Bounds'
      BY <1>0, <2>14 DEF RecordState, Disk, Builds, Bounds, counters
    <3> QED BY <1>0, <2>14, <3>1 DEF RecordState, Go, Course, LockInv
  <2>15. CASE Crash(b)
    <3>1. Disk' /\ Builds' /\ Bounds'
      BY <1>0, <2>15, BoundsAreNat DEF Crash, Fault, Disk, Builds, Bounds, disk
    <3> QED BY <1>0, <2>15, <3>1 DEF Crash, Go, Course, LockInv
  <2> QED BY <1>5, <2>1, <2>2, <2>3, <2>4, <2>5, <2>6, <2>7, <2>8, <2>9, <2>10, <2>11,
             <2>12, <2>13, <2>14, <2>15 DEF Execute
<1>6. ASSUME NEW b \in Builders, Execute(b) \/ Crash(b) PROVE \A c \in Builders : Course(c)'
  BY <1>5, <1>6, StepOfOne DEF Course
<1> QED BY <1>0, <1>1, <1>2, <1>3, <1>4, <1>5, <1>6 DEF Next

\* TypeOK holds for every plan, whatever the builders do.
THEOREM BuildTypes == BuildSpec => []TypeOK
<1>1. TypeInv => TypeOK
  BY DEF TypeInv
<1> QED BY <1>1, TypeInit, TypeStep, PTL DEF BuildSpec

----------------------------------------------------------------------------
(* The work tree and the checkpoints.                                      *)

\* While a builder runs, the work tree holds nothing of the leaves to come.
Prefix(b) ==
    /\ at[b] \in {"running", "saving"} => \A i \in Leaves : i >= next[b] => work[i] = Missing
    /\ at[b] \in {"ran", "nested"} => \A i \in Leaves : i > next[b] => work[i] = Missing

WorkInv == CheckpointsHoldTheirPrefix /\ \A b \in Builders : Prefix(b)

LEMMA WorkInit == Init => WorkInv
BY DEF Init, WorkInv, CheckpointsHoldTheirPrefix, Prefix, Unsaved, Empty

LEMMA WorkStep ==
    ASSUME TypeInv, WorkInv, [Next]_vars
    PROVE  WorkInv'
<1>0. LockInv /\ Disk /\ Builds
  BY TypeParts DEF TypeInv
<1>1. CASE UNCHANGED vars
  BY <1>1 DEF WorkInv, CheckpointsHoldTheirPrefix, Prefix, vars, disk
<1>2. ASSUME NEW i \in Leaves, Edit(i) PROVE WorkInv'
  BY <1>2 DEF Edit, WorkInv, CheckpointsHoldTheirPrefix, Prefix, disk
<1>3. ASSUME NEW seeded \in BOOLEAN, Create(seeded) PROVE WorkInv'
  <2>1. CheckpointsHoldTheirPrefix'
    <3>1. CASE seeded
      <4>1. checkpoints' = [c \in Boundaries |->
               [payload |-> [i \in Leaves |-> IF i <= c THEN First ELSE Missing],
                prints |-> [i \in 1 .. c |-> First]]]
        BY <1>3, <3>1 DEF Create
      <4> SUFFICES ASSUME NEW c \in Boundaries, NEW i \in Leaves, i > c
                   PROVE  checkpoints'[c].payload[i] = Missing
        BY DEF CheckpointsHoldTheirPrefix
      <4>2. ~(i <= c)
        BY PlanIsBound DEF Leaves
      <4> QED BY <4>1, <4>2
    <3>2. CASE ~seeded
      BY <1>3, <3>2 DEF Create, WorkInv, CheckpointsHoldTheirPrefix
    <3> QED BY <3>1, <3>2
  <2>2. \A b \in Builders : at'[b] = "idle"
    BY <1>0, <1>3, AllIdle DEF Create
  <2> QED BY <2>1, <2>2 DEF WorkInv, Prefix
<1>4. ASSUME Remove PROVE WorkInv'
  <2>1. \A b \in Builders : at'[b] = "idle"
    BY <1>0, <1>4, AllIdle DEF Remove
  <2> QED BY <1>4, <2>1 DEF Remove, NoWorkspace, WorkInv, Prefix, CheckpointsHoldTheirPrefix, Unsaved, Empty
<1>5. ASSUME NEW b \in Builders, Execute(b) \/ Crash(b)
      PROVE  CheckpointsHoldTheirPrefix' /\ Prefix(b)'
  <2>0. CheckpointsHoldTheirPrefix /\ Prefix(b) /\ at \in [Builders -> Phases]
    BY <1>0 DEF WorkInv, LockInv
  <2>1. CASE Enter(b)
    BY <2>0, <2>1 DEF Enter, Go, CheckpointsHoldTheirPrefix, Prefix
  <2>2. CASE Fingerprint(b)
    BY <2>0, <2>2 DEF Fingerprint, CheckpointsHoldTheirPrefix, Prefix, disk
  <2>3. CASE Reuse(b)
    BY <2>0, <2>3 DEF Reuse, Go, CheckpointsHoldTheirPrefix, Prefix, disk
  <2>4. CASE Restore(b)
    <3>1. PICK c \in Boundaries : /\ work' = checkpoints[c].payload
                                  /\ clean' = [clean EXCEPT ![b] = c]
      BY <2>4 DEF Restore, Usable
    <3>2. next'[b] = c + 1
      BY <1>0, <2>4, <3>1 DEF Restore, Builds
    <3>3. \A i \in Leaves : i >= next'[b] => work'[i] = Missing
      <4> SUFFICES ASSUME NEW i \in Leaves, i >= next'[b] PROVE work'[i] = Missing
        OBVIOUS
      <4>1. i > c
        BY <3>2, PlanIsBound DEF Leaves
      <4> QED BY <2>0, <3>1, <4>1 DEF CheckpointsHoldTheirPrefix
    <3> QED BY <2>0, <2>4, <3>3 DEF Restore, Go, CheckpointsHoldTheirPrefix, Prefix
  <2>5. CASE Wipe(b)
    BY <2>0, <2>5 DEF Wipe, Go, CheckpointsHoldTheirPrefix, Prefix, Empty
  <2>6. CASE RunTask(b)
    <3>1. /\ work' = [work EXCEPT ![next[b]] = inputs[next[b]]] /\ next' = next
          /\ checkpoints' = checkpoints /\ at'[b] \in {"nested", "ran"} /\ at[b] = "running"
      BY <2>0, <2>6 DEF RunTask, Go
    <3>2. \A i \in Leaves : i > next'[b] => work'[i] = Missing
      <4> SUFFICES ASSUME NEW i \in Leaves, i > next[b] PROVE work'[i] = Missing
        BY <3>1
      <4>1. i >= next[b] /\ i # next[b]
        BY <1>0, PlanIsBound DEF Leaves, Builds
      <4> QED BY <1>0, <2>0, <3>1, <4>1 DEF Prefix, Disk
    <3> QED BY <2>0, <3>1, <3>2 DEF CheckpointsHoldTheirPrefix, Prefix
  <2>7. CASE Unnest(b)
    BY <2>0, <2>7 DEF Unnest, Go, CheckpointsHoldTheirPrefix, Prefix, disk
  <2>8. CASE TaskFails(b)
    BY <2>0, <2>8 DEF TaskFails, Go, CheckpointsHoldTheirPrefix, Prefix
  <2>9. CASE TaskDone(b)
    <3>1. next[b] \in 1 .. N /\ next'[b] = next[b] + 1 /\ work' = work /\ at[b] = "ran"
      BY <1>0, <2>9, PlanIsBound DEF TaskDone, Builds, TypeInv, Course
    <3>2. \A i \in Leaves : i >= next'[b] => work'[i] = Missing
      <4> SUFFICES ASSUME NEW i \in Leaves, i >= next[b] + 1 PROVE work[i] = Missing
        BY <3>1
      <4>1. i > next[b]
        BY <3>1, PlanIsBound DEF Leaves
      <4> QED BY <2>0, <3>1, <4>1 DEF Prefix
    <3>3. at'[b] \in {"running", "saving"}
      BY <2>0, <2>9 DEF TaskDone, Go
    <3>4. CheckpointsHoldTheirPrefix'
      BY <1>0, <2>0, <2>9 DEF TaskDone, CheckpointsHoldTheirPrefix, Disk, Unsaved, Empty
    <3> QED BY <3>2, <3>3, <3>4 DEF Prefix
  <2>10. CASE SaveCheckpoint(b)
    <3>1. PICK c \in Boundaries : c = next[b] - 1
      BY <2>10 DEF SaveCheckpoint, TypeInv, Course
    <3>2. PICK s : s = SubSeq(prints[b], 1, c)
      OBVIOUS
    <3>3. checkpoints' = [checkpoints EXCEPT ![c] = [payload |-> work, prints |-> s]]
      BY <2>10, <3>1, <3>2 DEF SaveCheckpoint
    <3>4. \A i \in Leaves : i > c => work[i] = Missing
      <4> SUFFICES ASSUME NEW i \in Leaves, i > c PROVE work[i] = Missing
        OBVIOUS
      <4>1. i >= next[b]
        BY <1>0, <3>1, PlanIsBound DEF Leaves, Builds
      <4> QED BY <2>0, <2>10, <4>1 DEF SaveCheckpoint, Prefix
    <3>5. CheckpointsHoldTheirPrefix'
      BY <1>0, <2>0, <3>3, <3>4 DEF CheckpointsHoldTheirPrefix, Disk
    <3> QED BY <2>0, <2>10, <3>5 DEF SaveCheckpoint, Go, Prefix
  <2>11. CASE BeginGeneration(b)
    BY <2>0, <2>11 DEF BeginGeneration, Go, CheckpointsHoldTheirPrefix, Prefix
  <2>12. CASE FillGeneration(b)
    BY <2>0, <2>12 DEF FillGeneration, Go, CheckpointsHoldTheirPrefix, Prefix
  <2>13. CASE SwitchCurrent(b)
    BY <2>0, <2>13 DEF SwitchCurrent, Go, CheckpointsHoldTheirPrefix, Prefix
  <2>14. CASE RecordState(b)
    BY <2>0, <2>14 DEF RecordState, Go, CheckpointsHoldTheirPrefix, Prefix
  <2>15. CASE Crash(b)
    BY <2>0, <2>15 DEF Crash, Go, CheckpointsHoldTheirPrefix, Prefix, disk
  <2> QED BY <1>5, <2>1, <2>2, <2>3, <2>4, <2>5, <2>6, <2>7, <2>8, <2>9, <2>10, <2>11,
             <2>12, <2>13, <2>14, <2>15 DEF Execute
<1>6. ASSUME NEW b \in Builders, Execute(b) \/ Crash(b) PROVE WorkInv'
  BY <1>0, <1>5, <1>6, StepOfOne DEF WorkInv, Prefix
<1> QED BY <1>1, <1>2, <1>3, <1>4, <1>6 DEF Next

\* What a failed, killed or older build left behind never gets into a checkpoint
\* (save_checkpoint, restore_checkpoint, and the wiping in Executor.execute).
THEOREM CheckpointsArePrefixes == BuildSpec => []CheckpointsHoldTheirPrefix
<1>1. WorkInv => CheckpointsHoldTheirPrefix
  BY DEF WorkInv
<1> QED BY <1>1, TypeInit, TypeStep, WorkInit, WorkStep, PTL DEF BuildSpec

----------------------------------------------------------------------------
(* Tasks that always run.                                                  *)

Skips(b) == at[b] \notin {"idle", "digesting"} => \A i \in Always[b] : clean[b] < i

LEMMA SkipsStep ==
    ASSUME TypeInv, \A b \in Builders : Skips(b), [Next]_vars
    PROVE  \A b \in Builders : Skips(b)'
<1>0. LockInv /\ Builds
  BY TypeParts DEF TypeInv
<1>1. CASE UNCHANGED vars
  BY <1>1 DEF Skips, vars
<1>2. ASSUME NEW i \in Leaves, Edit(i) PROVE \A b \in Builders : Skips(b)'
  BY <1>2 DEF Edit, Skips
<1>3. ASSUME NEW seeded \in BOOLEAN, Create(seeded) PROVE \A b \in Builders : Skips(b)'
  BY <1>3 DEF Create, Skips
<1>4. ASSUME Remove PROVE \A b \in Builders : Skips(b)'
  BY <1>4 DEF Remove, Skips
<1>5. ASSUME NEW b \in Builders, Execute(b) \/ Crash(b) PROVE Skips(b)'
  <2>0. Skips(b) /\ at \in [Builders -> Phases]
    BY <1>0 DEF LockInv
  <2>1. CASE Restore(b)
    <3>1. PICK c \in Usable(b) : clean' = [clean EXCEPT ![b] = c]
      BY <2>1 DEF Restore
    <3>2. c <= CleanPrefix(b) /\ c \in 1 .. N
      BY PlanIsBound DEF Usable
    <3>3. CleanPrefix(b) \in 0 .. N /\ \A i \in 1 .. CleanPrefix(b) : i \notin Always[b]
      BY CleanPrefixIs DEF Stale
    <3>4. \A i \in Always[b] : c < i
      BY <3>2, <3>3, PlanIsBound
    <3>5. clean'[b] = c
      BY <1>0, <3>1 DEF Builds
    <3> QED BY <3>4, <3>5 DEF Skips
  <2>2. CASE Wipe(b)
    <3>1. PICK c \in 0 .. N : c = CleanPrefix(b)
      BY CleanPrefixIs
    <3>2. \A i \in 1 .. c : i \notin Always[b]
      BY <3>1, CleanPrefixIs DEF Stale
    <3>3. \A i \in Always[b] : c < i
      BY <3>1, <3>2, PlanIsBound
    <3>4. clean'[b] = c
      BY <1>0, <2>2, <3>1 DEF Builds, Wipe
    <3> QED BY <3>3, <3>4 DEF Skips
  <2>3. CASE at'[b] \in {"idle", "digesting"}
    BY <2>3 DEF Skips
  <2>4. CASE clean'[b] = clean[b] /\ at[b] \notin {"idle", "digesting"}
    BY <2>0, <2>4 DEF Skips
  <2> QED BY <1>0, <1>5, <2>0, <2>1, <2>2, <2>3, <2>4
          DEF Execute, Enter, Fingerprint, Reuse, Digested, RunTask, Unnest, TaskFails, TaskDone,
              SaveCheckpoint, BeginGeneration, FillGeneration, SwitchCurrent, RecordState, Crash, Go
<1>6. ASSUME NEW b \in Builders, Execute(b) \/ Crash(b) PROVE \A c \in Builders : Skips(c)'
  BY <1>0, <1>5, <1>6, StepOfOne DEF Skips
<1> QED BY <1>1, <1>2, <1>3, <1>4, <1>6 DEF Next

\* A task with the ALWAYS_RUN policy has run in every build that publishes,
\* whatever the recorded fingerprints and the checkpoints say.
THEOREM AlwaysRunTasksAreNotSkipped == BuildSpec => []AlwaysRunTasksRun
<1>1. Init => \A b \in Builders : Skips(b)
  BY DEF Init, Skips
<1>2. TypeInv /\ (\A b \in Builders : Skips(b)) => AlwaysRunTasksRun
  <2> SUFFICES ASSUME TypeInv, NEW b \in Builders, Skips(b),
                      at[b] \in {"filling", "switching", "recording"}, NEW i \in Always[b]
               PROVE  clean[b] < i /\ i < next[b]
    BY DEF AlwaysRunTasksRun
  <2>1. next[b] = N + 1 /\ i \in 1 .. N
    BY PlanIsBound DEF TypeInv, Course
  <2> QED BY <2>1, PlanIsBound DEF Skips
<1> DEFINE AllSkip == \A b \in Builders : Skips(b)
<1>3. Init => AllSkip
  BY <1>1
<1>4. TypeInv /\ AllSkip => AlwaysRunTasksRun
  BY <1>2
<1>5. TypeInv /\ AllSkip /\ [Next]_vars => AllSkip'
  BY SkipsStep
<1> HIDE DEF AllSkip
<1> QED BY <1>3, <1>4, <1>5, TypeInit, TypeStep, PTL DEF BuildSpec

----------------------------------------------------------------------------
(* Generations and the recorded state.                                     *)

\* What a builder that is publishing knows of its generation.
Publishes(b) ==
    /\ at[b] # "idle" => exists
    /\ at[b] \in {"filling", "switching"} => described < Len(generations)
    /\ at[b] = "switching" => /\ generations[Len(generations)].whole
                              /\ generations[Len(generations)].prints = prints[b]
    /\ at[b] = "recording" => current # 0 /\ generations[current].prints = prints[b]

\* state.json speaks of the generation it was written after.
StateIsTrue == /\ described <= Len(generations)
               /\ ~exists => described = 0
               /\ (described = current /\ current # 0) =>
                      generations[current].prints = tasks /\ Len(tasks) = N

GenerationInv == CurrentIsWhole /\ StateIsTrue /\ \A b \in Builders : Publishes(b)

LEMMA GenerationInit == Init => GenerationInv
<1> SUFFICES ASSUME Init PROVE GenerationInv
  OBVIOUS
<1>1. Len(generations) = 0
  BY EmptySeq, Zenon DEF Init
<1> QED BY <1>1 DEF Init, GenerationInv, CurrentIsWhole, StateIsTrue, Publishes

LEMMA GenerationStep ==
    ASSUME TypeInv, GenerationInv, [Next]_vars
    PROVE  GenerationInv'
<1>0. LockInv /\ Disk /\ Builds
  BY TypeParts DEF TypeInv
<1>1. CASE UNCHANGED vars
  BY <1>1 DEF GenerationInv, CurrentIsWhole, StateIsTrue, Publishes, vars, disk
<1>2. ASSUME NEW i \in Leaves, Edit(i) PROVE GenerationInv'
  BY <1>2 DEF Edit, GenerationInv, CurrentIsWhole, StateIsTrue, Publishes, disk
<1>3. ASSUME NEW seeded \in BOOLEAN, Create(seeded) PROVE GenerationInv'
  <2>1. \A b \in Builders : at'[b] = "idle"
    BY <1>0, <1>3, AllIdle DEF Create
  <2>2. exists' = TRUE /\ described' = 0 /\ tasks' = tasks
    BY <1>3 DEF Create, GenerationInv, StateIsTrue
  <2>3. CASE seeded
    <3>1. PICK seed : seed = [i \in Leaves |-> First]
      OBVIOUS
    <3>2. PICK g : g = [payload |-> seed, prints |-> <<>>, whole |-> TRUE]
      OBVIOUS
    <3>3. generations' = <<g>> /\ current' = 1
      BY <1>3, <2>3, <3>1, <3>2 DEF Create
    <3>4. generations'[current'].whole /\ Len(generations') = 1
      BY <3>2, <3>3
    <3> QED BY <2>1, <2>2, <3>3, <3>4 DEF GenerationInv, CurrentIsWhole, StateIsTrue, Publishes
  <2>4. CASE ~seeded
    BY <1>0, <1>3, <2>1, <2>2, <2>4 DEF Create, GenerationInv, CurrentIsWhole, StateIsTrue, Publishes, Disk
  <2> QED BY <2>3, <2>4
<1>4. ASSUME Remove PROVE GenerationInv'
  <2>1. \A b \in Builders : at'[b] = "idle"
    BY <1>0, <1>4, AllIdle DEF Remove
  <2>2. current' = 0 /\ described' = 0 /\ Len(generations') = 0
    <3>1. generations' = <<>>
      BY <1>4 DEF Remove, NoWorkspace
    <3>2. Len(generations') = 0
      BY <3>1, EmptySeq, Zenon
    <3> QED BY <1>4, <3>2 DEF Remove, NoWorkspace
  <2> QED BY <2>1, <2>2 DEF GenerationInv, CurrentIsWhole, StateIsTrue, Publishes
<1>5. ASSUME NEW b \in Builders, Execute(b) \/ Crash(b)
      PROVE  CurrentIsWhole' /\ StateIsTrue' /\ Publishes(b)'
  <2>0. CurrentIsWhole /\ StateIsTrue /\ Publishes(b) /\ at \in [Builders -> Phases] /\ Course(b)
    BY <1>0 DEF GenerationInv, LockInv, TypeInv
  <2>1. CASE Enter(b)
    BY <2>0, <2>1 DEF Enter, Go, CurrentIsWhole, StateIsTrue, Publishes
  <2>2. CASE Fingerprint(b)
    BY <2>0, <2>2 DEF Fingerprint, CurrentIsWhole, StateIsTrue, Publishes, disk
  <2>3. CASE Reuse(b)
    BY <2>0, <2>3 DEF Reuse, Go, CurrentIsWhole, StateIsTrue, Publishes, disk
  <2>4. CASE Restore(b)
    BY <2>0, <2>4 DEF Restore, MustRun, Digested, Go, CurrentIsWhole, StateIsTrue, Publishes
  <2>5. CASE Wipe(b)
    BY <2>0, <2>5 DEF Wipe, MustRun, Digested, Go, CurrentIsWhole, StateIsTrue, Publishes
  <2>6. CASE RunTask(b)
    BY <2>0, <2>6 DEF RunTask, Go, CurrentIsWhole, StateIsTrue, Publishes
  <2>7. CASE Unnest(b)
    BY <2>0, <2>7 DEF Unnest, Go, CurrentIsWhole, StateIsTrue, Publishes, disk
  <2>8. CASE TaskFails(b)
    BY <2>0, <2>8 DEF TaskFails, Go, CurrentIsWhole, StateIsTrue, Publishes
  <2>9. CASE TaskDone(b)
    BY <2>0, <2>9 DEF TaskDone, Go, CurrentIsWhole, StateIsTrue, Publishes
  <2>10. CASE SaveCheckpoint(b)
    BY <2>0, <2>10 DEF SaveCheckpoint, Go, CurrentIsWhole, StateIsTrue, Publishes
  <2>11. CASE BeginGeneration(b)
    <3>1. PICK g : g = [payload |-> Empty, prints |-> <<>>, whole |-> FALSE]
      OBVIOUS
    <3>2. generations' = Append(generations, g) /\ current' = current /\ described' = described
      BY <2>11, <3>1 DEF BeginGeneration
    <3>3. /\ Len(generations') = Len(generations) + 1
          /\ \A k \in 1 .. Len(generations) : generations'[k] = generations[k]
      BY <1>0, <3>2 DEF Disk
    <3>4. described' < Len(generations')
      BY <1>0, <2>0, <3>2, <3>3 DEF StateIsTrue, Disk
    <3>5. current # 0 => generations'[current] = generations[current]
      BY <1>0, <3>3 DEF Disk
    <3>6. CurrentIsWhole'
      BY <2>0, <3>2, <3>5 DEF CurrentIsWhole
    <3>7. /\ at'[b] = "filling" /\ tasks' = tasks /\ exists' = exists /\ exists
          /\ described' \in Nat /\ Len(generations') \in Nat
      BY <1>0, <2>0, <2>11, <3>2, <3>3 DEF BeginGeneration, Go, Publishes, Disk
    <3>8. StateIsTrue'
      BY <2>0, <3>2, <3>4, <3>5, <3>7 DEF StateIsTrue
    <3>9. Publishes(b)'
      BY <3>4, <3>7 DEF Publishes
    <3> QED BY <3>6, <3>8, <3>9
  <2>12. CASE FillGeneration(b)
    <3>1. PICK n : n = Len(generations)
      OBVIOUS
    <3>2. PICK g : g = [payload |-> work, prints |-> prints[b], whole |-> TRUE]
      OBVIOUS
    <3>3. generations' = [generations EXCEPT ![n] = g]
      BY <2>12, <3>1, <3>2 DEF FillGeneration
    <3>4. n \in 1 .. n /\ generations \in Seq(Generation)
      BY <1>0, <2>0, <2>12, <3>1 DEF FillGeneration, Disk, Course
    <3>5. /\ Len(generations') = n /\ generations'[n] = g
          /\ \A k \in 1 .. n : k # n => generations'[k] = generations[k]
      BY <3>1, <3>3, <3>4
    <3>6. g.whole /\ g.prints = prints[b]
      BY <3>2
    <3>7. current' = current /\ current \in 0 .. n /\ described' = described /\ described < n
          /\ tasks' = tasks /\ exists' = exists /\ prints' = prints /\ at'[b] = "switching" /\ exists
      BY <1>0, <2>0, <2>12, <3>1 DEF FillGeneration, Disk, Publishes, Go
    <3>8. CurrentIsWhole'
      BY <2>0, <3>5, <3>6, <3>7 DEF CurrentIsWhole
    <3>9. StateIsTrue'
      BY <2>0, <3>1, <3>5, <3>7 DEF StateIsTrue
    <3>10. Publishes(b)'
      BY <3>5, <3>6, <3>7 DEF Publishes
    <3> QED BY <3>8, <3>9, <3>10
  <2>13. CASE SwitchCurrent(b)
    <3>1. /\ current' = Len(generations) /\ generations' = generations /\ described' = described
          /\ described < Len(generations) /\ Len(generations) > 0 /\ at'[b] = "recording"
          /\ prints' = prints /\ exists' = exists /\ tasks' = tasks
          /\ generations[Len(generations)].whole /\ generations[Len(generations)].prints = prints[b]
      BY <2>0, <2>13 DEF SwitchCurrent, Go, Publishes, Course
    <3>2. described # Len(generations) /\ Len(generations) # 0
      BY <1>0, <3>1 DEF Disk
    <3>3. CurrentIsWhole' /\ StateIsTrue'
      BY <2>0, <3>1, <3>2 DEF CurrentIsWhole, StateIsTrue
    <3> QED BY <2>0, <2>13, <3>1, <3>2, <3>3 DEF SwitchCurrent, Publishes
  <2>14. CASE RecordState(b)
    <3>1. /\ tasks' = prints[b] /\ described' = current /\ current' = current /\ at'[b] = "idle"
          /\ generations' = generations /\ exists' = exists /\ exists /\ Len(prints[b]) = N
          /\ generations[current].prints = prints[b]
      BY <2>0, <2>14 DEF RecordState, Go, Publishes, Course
    <3>2. current <= Len(generations)
      BY <1>0 DEF Disk
    <3> QED BY <2>0, <3>1, <3>2 DEF CurrentIsWhole, StateIsTrue, Publishes
  <2>15. CASE Crash(b)
    BY <2>0, <2>15 DEF Crash, Go, CurrentIsWhole, StateIsTrue, Publishes, disk
  <2> QED BY <1>5, <2>1, <2>2, <2>3, <2>4, <2>5, <2>6, <2>7, <2>8, <2>9, <2>10, <2>11,
             <2>12, <2>13, <2>14, <2>15 DEF Execute
<1>6. ASSUME NEW b \in Builders, Execute(b) \/ Crash(b) PROVE GenerationInv'
  BY <1>0, <1>5, <1>6, StepOfOne DEF GenerationInv, Publishes
<1> QED BY <1>1, <1>2, <1>3, <1>4, <1>6 DEF Next

LEMMA GenerationAlways == BuildSpec => [](TypeInv /\ GenerationInv)
BY TypeInit, TypeStep, GenerationInit, GenerationStep, PTL DEF BuildSpec

\* current.json never names a generation that is not complete, whichever
\* builders are killed in publish, and whoever removes the workspace.
THEOREM CurrentGenerationIsWhole == BuildSpec => []CurrentIsWhole
<1>1. GenerationInv => CurrentIsWhole
  BY DEF GenerationInv
<1> QED BY <1>1, GenerationAlways, PTL

\* A generation that Executor.execute reuses was made for exactly the
\* fingerprints that the builder has computed.
THEOREM ReusedGenerationsMatch == BuildSpec => []ReuseMatchesManifest
<1>1. TypeInv /\ GenerationInv => ReuseMatchesManifest
  <2> SUFFICES ASSUME TypeInv, GenerationInv, NEW b \in Builders, Digested(b),
                      CleanPrefix(b) = N, current # 0, described = current
               PROVE  generations[current].prints = prints[b]
    BY DEF ReuseMatchesManifest
  <2>1. Disk /\ Builds
    BY TypeParts DEF TypeInv
  <2>2. generations[current].prints = tasks /\ Len(tasks) = N
    BY DEF GenerationInv, StateIsTrue
  <2>3. \A i \in 1 .. N : tasks[i] = prints[b][i]
    BY CleanPrefixIs DEF Stale
  <2>4. tasks \in Seq(Versions) /\ prints[b] \in Seq(Versions) /\ Len(prints[b]) = N
    BY <2>1, PrintsAre DEF Disk, Builds, Digested
  <2>5. tasks = prints[b]
    BY <2>2, <2>3, <2>4, SeqEqual
  <2> QED BY <2>2, <2>5
<1> QED BY <1>1, GenerationAlways, PTL
=============================================================================
