-------------------------- MODULE StagingAreaProofs --------------------------
(* Theorems about staging areas for every number of areas, coordinators, paths
   and contents, and without the bounds a model-checking run needs.           *)
EXTENDS StagingArea, TreeMergeProofs

-----------------------------------------------------------------------------
(* Types of what the operations compute.                                      *)

LEMMA NewLeaseType == ASSUME NEW p \in Procs PROVE NewLease(p) \in Leases
BY DEF NewLease, Leases, Context, ContextIds

LEMMA RecordFields ==
    ASSUME TypeOK, NEW a \in Areas, Exists(a)
    PROVE  record[a] \in Records
BY DEF TypeOK, Exists

\* Changing fields of a record gives a record, and leaves the lease alone.
LEMMA StateUpdate ==
    ASSUME NEW r \in Records, NEW s \in States
    PROVE  /\ [r EXCEPT !.state = s] \in Records
           /\ [r EXCEPT !.state = s].lease = r.lease
BY DEF Records

LEMMA ReconcileUpdate ==
    ASSUME NEW r \in Records, NEW s \in States, NEW h \in Nat
    PROVE  /\ [r EXCEPT !.headCommit = h, !.generation = @ + 1, !.state = s] \in Records
           /\ [r EXCEPT !.headCommit = h, !.generation = @ + 1, !.state = s].lease = r.lease
<1>1. r.generation + 1 \in Nat
  BY DEF Records
<1>2. ASSUME NEW g \in Nat
      PROVE  /\ [r EXCEPT !.headCommit = h, !.generation = g, !.state = s] \in Records
             /\ [r EXCEPT !.headCommit = h, !.generation = g, !.state = s].lease = r.lease
  BY DEF Records
<1> QED
  BY <1>1, <1>2, Zenon

LEMMA RebaseUpdate ==
    ASSUME NEW r \in Records, NEW s \in States, NEW h \in Nat
    PROVE  /\ [r EXCEPT !.state = s, !.generation = @ + 1, !.headCommit = h] \in Records
           /\ [r EXCEPT !.state = s, !.generation = @ + 1, !.headCommit = h].lease = r.lease
<1>1. r.generation + 1 \in Nat
  BY DEF Records
<1>2. ASSUME NEW g \in Nat
      PROVE  /\ [r EXCEPT !.state = s, !.generation = g, !.headCommit = h] \in Records
             /\ [r EXCEPT !.state = s, !.generation = g, !.headCommit = h].lease = r.lease
  BY DEF Records
<1> QED
  BY <1>1, <1>2, Zenon

LEMMA ReconciledType ==
    ASSUME TypeOK, NEW a \in Areas, Exists(a)
    PROVE  /\ Reconciled(a) \in Records
           /\ Reconciled(a).lease = record[a].lease
<1>1. record[a] \in Records
  BY RecordFields
<1>2. head[a] \in Nat /\ "ready" \in States
  BY DEF TypeOK, States
<1> QED
  BY <1>1, <1>2, ReconcileUpdate, Zenon DEF Reconciled

LEMMA RebasedRecordType ==
    ASSUME TypeOK, NEW a \in Areas, Exists(a)
    PROVE  /\ RebasedRecord(a) \in Records
           /\ RebasedRecord(a).lease = record[a].lease
<1> DEFINE known == Reconciled(a)
<1>1. known \in Records /\ known.lease = record[a].lease
  BY ReconciledType
<1>2. commits + 1 \in Nat
  BY DEF TypeOK
<1> HIDE DEF known
<1>3. ASSUME NEW s \in States
      PROVE  /\ [known EXCEPT !.state = s] \in Records
             /\ [known EXCEPT !.state = s].lease = known.lease
  BY <1>1, StateUpdate
<1>4. ASSUME NEW h \in Nat
      PROVE  /\ [known EXCEPT !.state = "ready", !.generation = @ + 1, !.headCommit = h] \in Records
             /\ [known EXCEPT !.state = "ready", !.generation = @ + 1, !.headCommit = h].lease = known.lease
  <2>1. "ready" \in States
    BY DEF States
  <2> QED BY <1>1, <2>1, RebaseUpdate, Zenon
<1>5. known.headCommit \in Nat
  BY <1>1 DEF Records
<1>6. "ready" \in States /\ "conflicted" \in States
  BY DEF States
<1>7. CASE base[a] = src
  BY <1>1, <1>3, <1>6, <1>7 DEF RebasedRecord, known
<1>8. CASE base[a] # src /\ Conflicts(base[a], overlay[a], src) # {}
  BY <1>1, <1>3, <1>6, <1>8 DEF RebasedRecord, known
<1>9. CASE base[a] # src /\ Conflicts(base[a], overlay[a], src) = {}
  <2>1. CASE Merge(base[a], overlay[a], src) = headTree[a]
    <3>1. RebasedRecord(a)
            = [known EXCEPT !.state = "ready", !.generation = @ + 1, !.headCommit = known.headCommit]
      BY <1>1, <1>9, <2>1 DEF RebasedRecord, known, Records
    <3> QED BY <3>1, <1>1, <1>4, <1>5
  <2>2. CASE Merge(base[a], overlay[a], src) # headTree[a]
    <3>1. RebasedRecord(a)
            = [known EXCEPT !.state = "ready", !.generation = @ + 1, !.headCommit = commits + 1]
      BY <1>9, <2>2 DEF RebasedRecord, known
    <3> QED BY <3>1, <1>1, <1>2, <1>4
  <2> QED BY <2>1, <2>2
<1> QED
  BY <1>7, <1>8, <1>9

LEMMA RebasedTreesType ==
    ASSUME TypeOK, NEW a \in Areas
    PROVE  RebasedOverlay(a) \in Trees /\ RebasedBase(a) \in Trees
BY MergeType DEF TypeOK, RebasedOverlay, RebasedBase

LEMMA ReleasedType ==
    ASSUME TypeOK, NEW a \in Areas, Exists(a), NEW id, NEW dirty \in BOOLEAN
    PROVE  Released(a, id, dirty) \in Records
<1> DEFINE known == Reconciled(a)
<1>1. known \in Records
  BY ReconciledType
<1> HIDE DEF known
<1>2. CASE known.lease = NoLease
  BY <1>1, <1>2 DEF Released, known, Names
<1>3. CASE known.lease # NoLease
  <2>1. known.lease \in Leases
    BY <1>1, <1>3 DEF Records
  <2>2. [known EXCEPT !.lease = NoLease] \in Records
    BY <1>1 DEF Records
  <2>3. [known.lease EXCEPT !.pid = NoPid, !.reserved = TRUE] \in Leases
    BY <2>1 DEF Leases
  <2>4. [known EXCEPT !.lease.pid = NoPid, !.lease.reserved = TRUE]
          = [known EXCEPT !.lease = [known.lease EXCEPT !.pid = NoPid, !.reserved = TRUE]]
    BY <1>1, <2>1 DEF Records, Leases
  <2>5. [known EXCEPT !.lease.pid = NoPid, !.lease.reserved = TRUE] \in Records
    BY <1>1, <2>3, <2>4 DEF Records
  <2> QED BY <1>1, <2>2, <2>5 DEF Released, known
<1> QED
  BY <1>2, <1>3
-----------------------------------------------------------------------------
(* Type correctness.                                                          *)

LEMMA RebaseTreesType ==
    ASSUME TypeOK, NEW a \in Areas, RebaseTrees(a)
    PROVE  /\ base' \in [Areas -> Trees]
           /\ overlay' \in [Areas -> Trees]
           /\ head' \in [Areas -> Nat]
           /\ headTree' \in [Areas -> Trees]
           /\ commits' \in Nat
<1>1. RebasedOverlay(a) \in Trees /\ RebasedBase(a) \in Trees
  BY RebasedTreesType
<1>2. base' \in [Areas -> Trees] /\ overlay' \in [Areas -> Trees]
  BY <1>1 DEF TypeOK, RebaseTrees
<1>3. head' \in [Areas -> Nat] /\ headTree' \in [Areas -> Trees] /\ commits' \in Nat
  BY <1>1 DEF TypeOK, RebaseTrees, CommitRebase
<1> QED
  BY <1>2, <1>3

LEMMA CreateStagingType ==
    ASSUME TypeOK, NEW a \in Areas, CreateStaging(a)
    PROVE  TypeOK'
<1>1. [state |-> "ready", generation |-> 1, headCommit |-> commits + 1, lease |-> NoLease]
        \in Records
  BY DEF TypeOK, Records, States
<1> QED
  BY <1>1 DEF TypeOK, CreateStaging

LEMMA ResetStagingType ==
    ASSUME TypeOK, NEW a \in Areas, ResetStaging(a)
    PROVE  TypeOK'
BY EmptyTreeType DEF TypeOK, ResetStaging

LEMMA RebaseStagingType ==
    ASSUME TypeOK, NEW a \in Areas, RebaseStaging(a)
    PROVE  TypeOK'
<1>1. RebasedRecord(a) \in Records
  BY RebasedRecordType DEF RebaseStaging
<1>2. record' \in [Areas -> Records \cup {NoRecord}]
  BY <1>1 DEF TypeOK, RebaseStaging
<1> QED
  BY <1>2, RebaseTreesType DEF TypeOK, RebaseStaging

LEMMA ReconcileStagingType ==
    ASSUME TypeOK, NEW a \in Areas, ReconcileStaging(a)
    PROVE  TypeOK'
<1>1. Reconciled(a) \in Records
  BY ReconciledType DEF ReconcileStaging
<1> QED
  BY <1>1 DEF TypeOK, ReconcileStaging

LEMMA PromoteStagingType ==
    ASSUME TypeOK, NEW a \in Areas, PromoteStaging(a)
    PROVE  TypeOK'
<1>1. [RebasedRecord(a) EXCEPT !.state = "promoted"] \in Records
  BY RebasedRecordType, StateUpdate DEF PromoteStaging, States
<1>2. RebasedOverlay(a) \in Trees
  BY RebasedTreesType
<1>3. record' \in [Areas -> Records \cup {NoRecord}]
  BY <1>1 DEF TypeOK, PromoteStaging
<1>4. src' \in Trees /\ base' \in [Areas -> Trees] /\ overlay' \in [Areas -> Trees]
  BY <1>2 DEF TypeOK, PromoteStaging
<1>5. head' \in [Areas -> Nat] /\ headTree' \in [Areas -> Trees] /\ commits' \in Nat
  BY <1>2 DEF TypeOK, PromoteStaging, CommitRebase
<1> QED
  BY <1>3, <1>4, <1>5 DEF TypeOK, PromoteStaging

LEMMA AcquireLeaseType ==
    ASSUME TypeOK, NEW p \in Procs, NEW a \in Areas, AcquireLease(p, a)
    PROVE  TypeOK'
<1>1. Exists(a)
  BY DEF AcquireLease, MayAttach
<1>2. NewLease(p) \in Leases
  BY NewLeaseType
<1>3. attached' \in [Procs -> Areas \cup {NoArea}]
  BY DEF TypeOK, AcquireLease
<1>4. ASSUME NEW r \in Records PROVE [r EXCEPT !.lease = NewLease(p)] \in Records
  BY <1>2 DEF Records
<1>5. CASE ResumeLease(p, a)
  <2>1. record' = [record EXCEPT ![a] = [record[a] EXCEPT !.lease = NewLease(p)]]
    BY <1>5 DEF ResumeLease
  <2>2. record' \in [Areas -> Records \cup {NoRecord}]
    BY <1>1, <1>4, <2>1, RecordFields DEF TypeOK
  <2> QED BY <1>3, <1>5, <2>2 DEF TypeOK, AcquireLease, ResumeLease
<1>6. CASE TakeLease(p, a)
  <2>1. [RebasedRecord(a) EXCEPT !.lease = NewLease(p)] \in Records
    BY <1>1, <1>4, RebasedRecordType
  <2>2. record' \in [Areas -> Records \cup {NoRecord}]
    BY <1>6, <2>1 DEF TypeOK, TakeLease
  <2>3. RebaseTrees(a)
    BY <1>6 DEF TakeLease
  <2> QED BY <1>3, <2>2, <2>3, RebaseTreesType DEF TypeOK, AcquireLease
<1> QED
  BY <1>5, <1>6 DEF AcquireLease

LEMMA AttachConflictedType ==
    ASSUME TypeOK, NEW p \in Procs, NEW a \in Areas, AttachConflicted(p, a)
    PROVE  TypeOK'
<1>1. RebasedRecord(a) \in Records
  BY RebasedRecordType DEF AttachConflicted, MayAttach
<1>2. record' \in [Areas -> Records \cup {NoRecord}]
  BY <1>1 DEF TypeOK, AttachConflicted
<1> QED
  BY <1>2, RebaseTreesType DEF TypeOK, AttachConflicted

LEMMA ReleaseLeaseType ==
    ASSUME TypeOK, NEW p \in Procs, NEW dirty \in BOOLEAN, ReleaseLease(p, dirty)
    PROVE  TypeOK'
<1>1. attached[p] \in Areas
  BY DEF TypeOK, ReleaseLease
<1>2. Released(attached[p], p, dirty) \in Records
  BY <1>1, ReleasedType DEF ReleaseLease
<1>3. record' \in [Areas -> Records \cup {NoRecord}]
  BY <1>1, <1>2 DEF TypeOK, ReleaseLease
<1> QED
  BY <1>3 DEF TypeOK, ReleaseLease

LEMMA AbandonLeaseType ==
    ASSUME TypeOK, NEW p \in Procs, AbandonLease(p)
    PROVE  TypeOK'
<1>1. attached[p] \in Areas
  BY DEF TypeOK, AbandonLease
<1>2. Released(attached[p], p, FALSE) \in Records
  BY <1>1, ReleasedType DEF AbandonLease
<1>3. record' \in [Areas -> Records \cup {NoRecord}]
  BY <1>1, <1>2 DEF TypeOK, AbandonLease
<1> QED
  BY <1>3 DEF TypeOK, AbandonLease

LEMMA DiscardWorkspaceType ==
    ASSUME TypeOK, NEW a \in Areas, DiscardWorkspace(a)
    PROVE  TypeOK'
<1>1. Released(a, GuiDefault, FALSE) \in Records
  BY ReleasedType DEF DiscardWorkspace
<1> QED
  BY <1>1 DEF TypeOK, DiscardWorkspace

LEMMA EditType ==
    ASSUME TypeOK, NEW path \in Paths, NEW value \in Contents \cup {Missing}, EditStep(path, value)
    PROVE  TypeOK'
<1>1. ASSUME NEW t \in Trees PROVE [t EXCEPT ![path] = value] \in Trees
  BY DEF Trees
<1>2. CASE EditSource(path, value)
  <2>1. src \in Trees /\ src' = [src EXCEPT ![path] = value]
    BY <1>2 DEF TypeOK, EditSource
  <2>2. src' \in Trees
    BY <1>1, <2>1
  <2>3. edits' \in Nat
    BY <1>2 DEF TypeOK, EditSource
  <2> QED BY <1>2, <2>2, <2>3 DEF TypeOK, EditSource, areaVars
<1>3. ASSUME NEW a \in Areas, EditOverlay(a, path, value) PROVE TypeOK'
  <2>1. overlay' = [overlay EXCEPT ![a] = [overlay[a] EXCEPT ![path] = value]]
    BY <1>3 DEF EditOverlay
  <2>2. overlay' \in [Areas -> Trees]
    BY <1>1, <2>1 DEF TypeOK
  <2> QED BY <1>3, <2>2 DEF TypeOK, EditOverlay
<1>4. ASSUME NEW p \in Procs, ImageExport(p, path, value) PROVE TypeOK'
  <2> DEFINE a == attached[p]
  <2>1. a \in Areas /\ a = attached[p]
    BY <1>4 DEF TypeOK, ImageExport
  <2> HIDE DEF a
  <2>2. /\ overlay' = [overlay EXCEPT ![a] = [overlay[a] EXCEPT ![path] = value]]
        /\ headTree' = [headTree EXCEPT ![a] = [headTree[a] EXCEPT ![path] = value]]
    BY <1>4, <2>1 DEF ImageExport
  <2>3. overlay' \in [Areas -> Trees] /\ headTree' \in [Areas -> Trees]
    BY <1>1, <2>1, <2>2 DEF TypeOK
  <2>4. head' \in [Areas -> Nat] /\ commits' \in Nat
    BY <1>4, <2>1 DEF TypeOK, ImageExport
  <2> QED BY <1>4, <2>3, <2>4 DEF TypeOK, ImageExport
<1> QED
  BY <1>2, <1>3, <1>4 DEF EditStep

LEMMA TypeInit == Init => TypeOK
BY EmptyTreeType, SourceAssumption DEF Init, TypeOK

LEMMA TypeStep == TypeOK /\ [Next]_vars => TypeOK'
<1> SUFFICES ASSUME TypeOK, [Next]_vars PROVE TypeOK'
  OBVIOUS
<1>1. ASSUME NEW a \in Areas, AreaStep(a) PROVE TypeOK'
  BY <1>1, CreateStagingType, ResetStagingType, RebaseStagingType, ReconcileStagingType,
     PromoteStagingType, DiscardWorkspaceType DEF AreaStep
<1>2. ASSUME NEW p \in Procs, ProcStep(p) PROVE TypeOK'
  <2>1. ASSUME NEW a \in Areas, AcquireLease(p, a) \/ AttachConflicted(p, a) PROVE TypeOK'
    BY <2>1, AcquireLeaseType, AttachConflictedType
  <2>2. ASSUME NEW dirty \in BOOLEAN, ReleaseLease(p, dirty) PROVE TypeOK'
    BY <2>2, ReleaseLeaseType
  <2>3. CASE AbandonLease(p)
    BY <2>3, AbandonLeaseType
  <2>4. CASE ServiceExport(p) \/ ServicePromote(p)
    <3>1. attached[p] \in Areas
      BY <2>4 DEF TypeOK, ServiceExport, ServicePromote
    <3> QED
      BY <2>4, <3>1, ReconcileStagingType, PromoteStagingType DEF ServiceExport, ServicePromote
  <2>5. CASE Exit(p) \/ OrphanExit(p)
    BY <2>5 DEF TypeOK, Exit, OrphanExit, areaVars
  <2> QED
    BY <1>2, <2>1, <2>2, <2>3, <2>4, <2>5 DEF ProcStep
<1>3. ASSUME NEW path \in Paths, NEW value \in Contents \cup {Missing}, EditStep(path, value)
      PROVE  TypeOK'
  BY <1>3, EditType
<1>4. CASE UNCHANGED vars
  BY <1>4 DEF TypeOK, vars, areaVars
<1> QED
  BY <1>1, <1>2, <1>3, <1>4 DEF Next

\* Every record, tree and lease keeps its type: in particular an operation on
\* staging.json never leaves a record without one of its fields.
THEOREM TypeCorrect == Spec => []TypeOK
BY TypeInit, TypeStep, PTL DEF Spec
-----------------------------------------------------------------------------
(* The lease.  LeaseHeld is preserved by every step once the types are known;
   what a lease says of its holder also needs LeaseShape and LeaseBacked.     *)

\* A lease names one session throughout; only a GUI leaves a reservation.
LeaseShape ==
    \A a \in Areas :
        LeaseOf(a) # NoLease =>
            /\ LeaseOf(a).context = Context(LeaseOf(a).session)
            /\ LeaseOf(a).reserved => LeaseOf(a).pid = NoPid /\ LeaseOf(a).session \in GuiProcs
            /\ ~LeaseOf(a).reserved => LeaseOf(a).pid = LeaseOf(a).session

\* A live process that a lease names is attached to the lease's area.
LeaseBacked ==
    \A a \in Areas :
        LeaseOf(a) # NoLease /\ LeaseOf(a).pid \in alive => attached[LeaseOf(a).pid] = a

LeaseInv == TypeOK /\ LeaseHeld /\ LeaseShape /\ LeaseBacked

LEMMA LeaseOfType ==
    ASSUME TypeOK, NEW a \in Areas
    PROVE  LeaseOf(a) \in Leases \cup {NoLease}
BY RecordFields DEF LeaseOf, Records

LEMMA NewLeaseFields ==
    ASSUME NEW p \in Procs
    PROVE  /\ NewLease(p) # NoLease
           /\ NewLease(p).context = Context(p)
           /\ NewLease(p).session = p
           /\ NewLease(p).pid = p
           /\ NewLease(p).reserved = FALSE
BY NewLeaseType, LeaseAssumption DEF NewLease

\* Two coordinators of one context are GUI launches.
LEMMA SharedContextIsGui ==
    ASSUME NEW p \in Procs, NEW q \in Procs, p # q, Context(p) = Context(q)
    PROVE  p \in GuiProcs /\ q \in GuiProcs
BY ProcsAssumption DEF Context

LEMMA ReleasedLease ==
    ASSUME TypeOK, NEW a \in Areas, Exists(a), NEW id, NEW dirty \in BOOLEAN
    PROVE  Released(a, id, dirty).lease =
             IF ~Names(record[a].lease, id) THEN record[a].lease
             ELSE IF dirty THEN [record[a].lease EXCEPT !.pid = NoPid, !.reserved = TRUE]
             ELSE NoLease
<1> DEFINE known == Reconciled(a)
<1>1. known \in Records /\ known.lease = record[a].lease
  BY ReconciledType
<1> HIDE DEF known
<1>2. [known EXCEPT !.lease = NoLease].lease = NoLease
  BY <1>1 DEF Records
<1>3. [known EXCEPT !.lease.pid = NoPid, !.lease.reserved = TRUE].lease
        = [known.lease EXCEPT !.pid = NoPid, !.reserved = TRUE]
  BY <1>1 DEF Records
<1> QED
  BY <1>1, <1>2, <1>3 DEF Released, known

\* What most operations do to the leases: nothing.
KeepsLeases ==
    /\ \A a \in Areas : LeaseOf(a)' = LeaseOf(a) /\ (Exists(a) => Exists(a)')
    /\ alive' \subseteq alive
    /\ attached' = attached

LEMMA LeasesKept ==
    ASSUME LeaseInv, TypeOK', KeepsLeases
    PROVE  LeaseInv'
<1>1. LeaseHeld'
  <2> SUFFICES ASSUME NEW p \in alive', attached'[p] # NoArea
               PROVE  /\ Exists(attached[p])'
                      /\ (record[attached[p]].lease)' = NewLease(p)
    BY DEF LeaseHeld, NewLease
  <2>1. p \in alive /\ attached[p] # NoArea /\ attached'[p] = attached[p]
    BY DEF KeepsLeases
  <2>2. attached[p] \in Areas
    BY <2>1 DEF LeaseInv, TypeOK
  <2>3. Exists(attached[p]) /\ LeaseOf(attached[p]) = NewLease(p)
    BY <2>1 DEF LeaseInv, LeaseHeld, LeaseOf
  <2>4. Exists(attached[p])' /\ LeaseOf(attached[p])' = NewLease(p)
    BY <2>1, <2>2, <2>3 DEF KeepsLeases, Exists, LeaseOf
  <2> QED BY <2>4 DEF LeaseOf, Exists
<1>2. LeaseShape'
  BY DEF LeaseInv, LeaseShape, KeepsLeases
<1>3. LeaseBacked'
  BY DEF LeaseInv, LeaseBacked, KeepsLeases
<1> QED
  BY <1>1, <1>2, <1>3 DEF LeaseInv

LEMMA AreaStepKeepsLeases ==
    ASSUME TypeOK, TypeOK', NEW a \in Areas,
           CreateStaging(a) \/ RebaseStaging(a) \/ ReconcileStaging(a) \/ PromoteStaging(a)
    PROVE  KeepsLeases
<1>1. UNCHANGED <<alive, attached>>
  BY DEF CreateStaging, RebaseStaging, ReconcileStaging, PromoteStaging
<1>2. ASSUME NEW r \in Records, r.lease = LeaseOf(a), record' = [record EXCEPT ![a] = r]
      PROVE  KeepsLeases
  <2>1. r # NoRecord
    BY RecordAssumption
  <2>2. record' \in [Areas -> Records \cup {NoRecord}]
    BY DEF TypeOK
  <2>3. LeaseOf(a)' = LeaseOf(a) /\ Exists(a)'
    BY <1>2, <2>1 DEF LeaseOf, Exists, TypeOK
  <2>4. ASSUME NEW b \in Areas, b # a
        PROVE  LeaseOf(b)' = LeaseOf(b) /\ Exists(b)' = Exists(b)
    BY <1>2, <2>4 DEF LeaseOf, Exists, TypeOK
  <2> QED BY <1>1, <2>3, <2>4 DEF KeepsLeases
<1>3. CASE CreateStaging(a)
  <2> DEFINE r == [state |-> "ready", generation |-> 1, headCommit |-> commits + 1, lease |-> NoLease]
  <2>1. r \in Records /\ r.lease = NoLease
    BY DEF TypeOK, Records, States
  <2>2. record' = [record EXCEPT ![a] = r] /\ LeaseOf(a) = NoLease
    BY <1>3 DEF CreateStaging, LeaseOf
  <2> QED BY <1>2, <2>1, <2>2
<1>4. CASE RebaseStaging(a)
  <2>1. record' = [record EXCEPT ![a] = RebasedRecord(a)] /\ Exists(a)
    BY <1>4 DEF RebaseStaging
  <2> QED BY <1>2, <2>1, RebasedRecordType DEF LeaseOf
<1>5. CASE ReconcileStaging(a)
  <2>1. record' = [record EXCEPT ![a] = Reconciled(a)] /\ Exists(a)
    BY <1>5 DEF ReconcileStaging
  <2> QED BY <1>2, <2>1, ReconciledType DEF LeaseOf
<1>6. CASE PromoteStaging(a)
  <2> DEFINE r == [RebasedRecord(a) EXCEPT !.state = "promoted"]
  <2>1. record' = [record EXCEPT ![a] = r] /\ Exists(a)
    BY <1>6 DEF PromoteStaging
  <2>2. r \in Records /\ r.lease = record[a].lease
    BY <2>1, RebasedRecordType, StateUpdate DEF States
  <2> QED BY <1>2, <2>1, <2>2 DEF LeaseOf
<1> QED
  BY <1>3, <1>4, <1>5, <1>6

LEMMA EditStepKeepsLeases ==
    ASSUME NEW path \in Paths, NEW value, EditStep(path, value)
    PROVE  KeepsLeases
<1>1. UNCHANGED <<record, alive, attached>>
  BY DEF EditStep, EditSource, EditOverlay, ImageExport, areaVars
<1> QED
  BY <1>1 DEF KeepsLeases, LeaseOf, Exists

LEMMA ExitKeepsLeases ==
    ASSUME NEW p, Exit(p)
    PROVE  KeepsLeases
BY DEF Exit, areaVars, KeepsLeases, LeaseOf, Exists

LEMMA AttachConflictedKeepsLeases ==
    ASSUME TypeOK, NEW p \in Procs, NEW a \in Areas, AttachConflicted(p, a)
    PROVE  KeepsLeases
<1>1. /\ record' = [record EXCEPT ![a] = RebasedRecord(a)]
      /\ Exists(a)
      /\ alive' \subseteq alive
      /\ attached' = attached
  BY DEF AttachConflicted, MayAttach
<1>2. RebasedRecord(a) \in Records /\ RebasedRecord(a).lease = LeaseOf(a)
  BY <1>1, RebasedRecordType DEF LeaseOf
<1>3. RebasedRecord(a) # NoRecord
  BY <1>2, RecordAssumption
<1>4. LeaseOf(a)' = LeaseOf(a) /\ Exists(a)'
  BY <1>1, <1>2, <1>3 DEF LeaseOf, Exists, TypeOK
<1>5. ASSUME NEW b \in Areas, b # a
      PROVE  LeaseOf(b)' = LeaseOf(b) /\ Exists(b)' = Exists(b)
  BY <1>1, <1>5 DEF LeaseOf, Exists, TypeOK
<1> QED
  BY <1>1, <1>4, <1>5 DEF KeepsLeases

\* What acquire_staging_lease does to the leases.
LEMMA AcquireEffect ==
    ASSUME TypeOK, NEW p \in Procs, NEW a \in Areas, AcquireLease(p, a)
    PROVE  /\ p \in alive /\ attached[p] = NoArea /\ Exists(a)
           /\ p \in GuiProcs => GuiLockFree(p)
           /\ Resumes(p, a) \/ ~Refused(p, a)
           /\ alive' = alive /\ attached' = [attached EXCEPT ![p] = a]
           /\ Exists(a)' /\ LeaseOf(a)' = NewLease(p)
           /\ \A b \in Areas \ {a} : LeaseOf(b)' = LeaseOf(b) /\ Exists(b)' = Exists(b)
<1>1. /\ p \in alive /\ attached[p] = NoArea /\ Exists(a)
      /\ p \in GuiProcs => GuiLockFree(p)
      /\ Resumes(p, a) \/ ~Refused(p, a)
      /\ alive' = alive /\ attached' = [attached EXCEPT ![p] = a]
  BY DEF AcquireLease, MayAttach, ResumeLease, TakeLease
<1>2. PICK r \in Records : record' = [record EXCEPT ![a] = [r EXCEPT !.lease = NewLease(p)]]
  <2>1. CASE ResumeLease(p, a)
    BY <1>1, <2>1, RecordFields DEF ResumeLease
  <2>2. CASE TakeLease(p, a)
    BY <1>1, <2>2, RebasedRecordType DEF TakeLease
  <2> QED BY <2>1, <2>2 DEF AcquireLease
<1> DEFINE new == [r EXCEPT !.lease = NewLease(p)]
<1>3. new \in Records /\ new.lease = NewLease(p)
  BY NewLeaseType DEF Records
<1>4. new # NoRecord
  BY <1>3, RecordAssumption
<1> HIDE DEF new
<1>5. record' = [record EXCEPT ![a] = new]
  BY <1>2 DEF new
<1>6. Exists(a)' /\ LeaseOf(a)' = NewLease(p)
  BY <1>3, <1>4, <1>5 DEF LeaseOf, Exists, TypeOK
<1>7. \A b \in Areas \ {a} : LeaseOf(b)' = LeaseOf(b) /\ Exists(b)' = Exists(b)
  BY <1>5 DEF LeaseOf, Exists, TypeOK
<1> QED
  BY <1>1, <1>6, <1>7

\* No live process is attached to an area that another may attach to.
LEMMA AcquireFindsNobody ==
    ASSUME LeaseInv, NEW p \in Procs, NEW a \in Areas, AcquireLease(p, a),
           NEW q \in alive, attached[q] = a
    PROVE  FALSE
<1>1. TypeOK /\ q \in Procs /\ a # NoArea
  BY AreasAssumption DEF LeaseInv, TypeOK
<1>2. /\ attached[p] = NoArea
      /\ p \in GuiProcs => GuiLockFree(p)
      /\ Resumes(p, a) \/ ~Refused(p, a)
  BY <1>1, AcquireEffect
<1>3. p # q
  BY <1>1, <1>2
<1>4. record[a].lease = NewLease(q)
  BY <1>1 DEF LeaseInv, LeaseHeld
<1>5. ~Resumes(p, a) /\ InForce(record[a].lease)
  BY <1>1, <1>4, NewLeaseFields DEF Resumes, InForce
<1>6. SameContext(a, p)
  BY <1>2, <1>5 DEF Refused
<1>7. Context(p) = Context(q)
  BY <1>1, <1>4, <1>6, NewLeaseFields DEF SameContext
<1>8. p \in GuiProcs /\ q \in GuiProcs
  BY <1>1, <1>3, <1>7, SharedContextIsGui
<1> QED
  BY <1>1, <1>2, <1>3, <1>8 DEF GuiLockFree

LEMMA AcquireKeepsInv ==
    ASSUME LeaseInv, TypeOK', NEW p \in Procs, NEW a \in Areas, AcquireLease(p, a)
    PROVE  LeaseInv'
<1>0. TypeOK
  BY DEF LeaseInv
<1>1. /\ p \in alive /\ attached[p] = NoArea
      /\ alive' = alive /\ attached' = [attached EXCEPT ![p] = a]
      /\ Exists(a)' /\ LeaseOf(a)' = NewLease(p)
      /\ \A b \in Areas \ {a} : LeaseOf(b)' = LeaseOf(b) /\ Exists(b)' = Exists(b)
  BY <1>0, AcquireEffect
<1>2. LeaseHeld'
  <2> SUFFICES ASSUME NEW q \in alive', attached'[q] # NoArea
               PROVE  Exists(attached[q])' /\ (record[attached[q]].lease)' = NewLease(q)
    BY DEF LeaseHeld, NewLease
  <2>1. CASE q = p
    <3>1. attached'[q] = a
      BY <1>0, <1>1, <2>1 DEF TypeOK
    <3> QED BY <1>1, <2>1, <3>1 DEF LeaseOf, Exists
  <2>2. CASE q # p
    <3>1. q \in alive /\ attached'[q] = attached[q] /\ attached[q] \in Areas
      BY <1>0, <1>1, <2>2 DEF TypeOK
    <3>2. attached[q] # a
      BY <3>1, AcquireFindsNobody
    <3>3. Exists(attached[q]) /\ LeaseOf(attached[q]) = NewLease(q)
      BY <3>1 DEF LeaseInv, LeaseHeld, LeaseOf
    <3>4. Exists(attached[q])' /\ LeaseOf(attached[q])' = NewLease(q)
      BY <1>1, <3>1, <3>2, <3>3 DEF LeaseOf, Exists
    <3> QED BY <3>4 DEF LeaseOf, Exists
  <2> QED BY <2>1, <2>2
<1>3. LeaseShape'
  <2> SUFFICES ASSUME NEW b \in Areas, LeaseOf(b)' # NoLease
               PROVE  /\ LeaseOf(b)'.context = Context(LeaseOf(b)'.session)
                      /\ LeaseOf(b)'.reserved
                             => LeaseOf(b)'.pid = NoPid /\ LeaseOf(b)'.session \in GuiProcs
                      /\ ~LeaseOf(b)'.reserved => LeaseOf(b)'.pid = LeaseOf(b)'.session
    BY DEF LeaseShape, Context
  <2>1. CASE b = a
    BY <1>1, <2>1, NewLeaseFields
  <2>2. CASE b # a
    BY <1>1, <2>2 DEF LeaseInv, LeaseShape
  <2> QED BY <2>1, <2>2
<1>4. LeaseBacked'
  <2> SUFFICES ASSUME NEW b \in Areas, LeaseOf(b)' # NoLease, LeaseOf(b)'.pid \in alive'
               PROVE  attached'[LeaseOf(b)'.pid] = b
    BY DEF LeaseBacked
  <2>1. CASE b = a
    BY <1>0, <1>1, <2>1, NewLeaseFields DEF TypeOK
  <2>2. CASE b # a
    <3>1. LeaseOf(b) # NoLease /\ LeaseOf(b).pid \in alive /\ LeaseOf(b)' = LeaseOf(b)
      BY <1>1, <2>2
    <3>2. attached[LeaseOf(b).pid] = b
      BY <3>1 DEF LeaseInv, LeaseBacked
    <3>3. LeaseOf(b).pid # p
      BY <1>1, <3>2, AreasAssumption
    <3> QED BY <1>0, <1>1, <3>1, <3>2, <3>3 DEF TypeOK
  <2> QED BY <2>1, <2>2
<1> QED
  BY <1>2, <1>3, <1>4 DEF LeaseInv

\* What a release by a coordinator that ends does to the leases.
LEMMA ReleaseEffect ==
    ASSUME LeaseInv, NEW p \in Procs, NEW dirty \in BOOLEAN, NEW a, a = attached[p],
           \/ ReleaseLease(p, dirty)
           \/ AbandonLease(p) /\ ~dirty
    PROVE  /\ p \in alive /\ alive' = alive \ {p}
           /\ a \in Areas /\ Exists(a) /\ LeaseOf(a) = NewLease(p)
           /\ \A q \in Procs \ {p} : attached'[q] = attached[q]
           /\ dirty => p \in GuiProcs
           /\ Exists(a)'
           /\ LeaseOf(a)' = IF dirty THEN [NewLease(p) EXCEPT !.pid = NoPid, !.reserved = TRUE]
                            ELSE NoLease
           /\ \A b \in Areas \ {a} : LeaseOf(b)' = LeaseOf(b) /\ Exists(b)' = Exists(b)
<1>0. TypeOK
  BY DEF LeaseInv
<1>1. /\ p \in alive /\ alive' = alive \ {p} /\ a # NoArea /\ Exists(a)
      /\ dirty => p \in GuiProcs
      /\ record' = [record EXCEPT ![a] = Released(a, p, dirty)]
  BY DEF ReleaseLease, AbandonLease
<1>2. \A q \in Procs \ {p} : attached'[q] = attached[q]
  BY <1>0 DEF TypeOK, ReleaseLease, AbandonLease
<1>3. a \in Areas
  BY <1>0, <1>1 DEF TypeOK
<1>4. record[a].lease = NewLease(p) /\ LeaseOf(a) = NewLease(p)
  BY <1>1 DEF LeaseInv, LeaseHeld, LeaseOf
<1>5. Names(record[a].lease, p)
  BY <1>4, NewLeaseFields DEF Names
<1>6. Released(a, p, dirty) \in Records
  BY <1>0, <1>1, <1>3, ReleasedType
<1>7. Released(a, p, dirty).lease =
        IF dirty THEN [NewLease(p) EXCEPT !.pid = NoPid, !.reserved = TRUE] ELSE NoLease
  BY <1>0, <1>1, <1>3, <1>4, <1>5, ReleasedLease
<1>8. record'[a] = Released(a, p, dirty) /\ record'[a] # NoRecord
  BY <1>0, <1>1, <1>3, <1>6, RecordAssumption DEF TypeOK
<1>9. /\ Exists(a)'
      /\ LeaseOf(a)' = record'[a].lease
  BY <1>8 DEF LeaseOf, Exists
<1>10. \A b \in Areas \ {a} : LeaseOf(b)' = LeaseOf(b) /\ Exists(b)' = Exists(b)
  BY <1>0, <1>1 DEF LeaseOf, Exists, TypeOK
<1> QED
  BY <1>1, <1>2, <1>3, <1>4, <1>7, <1>8, <1>9, <1>10

LEMMA ReservationFields ==
    ASSUME NEW p \in Procs, NEW l, l = [NewLease(p) EXCEPT !.pid = NoPid, !.reserved = TRUE]
    PROVE  /\ l.context = Context(p) /\ l.session = p
           /\ l.pid = NoPid /\ l.reserved = TRUE
BY DEF NewLease

LEMMA ReleaseKeepsInv ==
    ASSUME LeaseInv, TypeOK', NEW p \in Procs, NEW dirty \in BOOLEAN,
           \/ ReleaseLease(p, dirty)
           \/ AbandonLease(p) /\ ~dirty
    PROVE  LeaseInv'
<1>0. TypeOK
  BY DEF LeaseInv
<1>1. PICK a : a = attached[p]
  OBVIOUS
<1>2. /\ p \in alive /\ alive' = alive \ {p}
      /\ a \in Areas /\ Exists(a) /\ LeaseOf(a) = NewLease(p)
      /\ \A q \in Procs \ {p} : attached'[q] = attached[q]
      /\ dirty => p \in GuiProcs
      /\ LeaseOf(a)' = IF dirty THEN [NewLease(p) EXCEPT !.pid = NoPid, !.reserved = TRUE]
                       ELSE NoLease
      /\ \A b \in Areas \ {a} : LeaseOf(b)' = LeaseOf(b) /\ Exists(b)' = Exists(b)
  BY <1>1, ReleaseEffect
<1>2a. LeaseOf(a)' # NoLease =>
          /\ p \in GuiProcs
          /\ LeaseOf(a)'.context = Context(p) /\ LeaseOf(a)'.session = p
          /\ LeaseOf(a)'.pid = NoPid /\ LeaseOf(a)'.reserved = TRUE
  <2> SUFFICES ASSUME LeaseOf(a)' # NoLease
               PROVE  /\ p \in GuiProcs
                      /\ LeaseOf(a)'.context = Context(p) /\ LeaseOf(a)'.session = p
                      /\ LeaseOf(a)'.pid = NoPid /\ LeaseOf(a)'.reserved = TRUE
    OBVIOUS
  <2>1. PICK l : l = LeaseOf(a)'
    OBVIOUS
  <2>2. dirty /\ l = [NewLease(p) EXCEPT !.pid = NoPid, !.reserved = TRUE]
    BY <1>2, <2>1
  <2>3. l.context = Context(p) /\ l.session = p /\ l.pid = NoPid /\ l.reserved = TRUE
    BY <2>2, ReservationFields
  <2> QED BY <1>2, <2>1, <2>2, <2>3
<1>3. LeaseHeld'
  <2> SUFFICES ASSUME NEW q \in alive', attached'[q] # NoArea
               PROVE  Exists(attached[q])' /\ (record[attached[q]].lease)' = NewLease(q)
    BY DEF LeaseHeld, NewLease
  <2>1. q \in alive /\ q # p /\ attached'[q] = attached[q] /\ attached[q] \in Areas
    BY <1>0, <1>2 DEF TypeOK
  <2>2. Exists(attached[q]) /\ LeaseOf(attached[q]) = NewLease(q)
    BY <2>1 DEF LeaseInv, LeaseHeld, LeaseOf
  <2>3. attached[q] # a
    <3>1. q \in Procs /\ NewLease(p).session = p /\ NewLease(q).session = q
      BY <1>0, <2>1, NewLeaseFields DEF TypeOK
    <3> QED BY <1>2, <2>1, <2>2, <3>1
  <2>4. PICK b \in Areas : b = attached[q]
    BY <2>1
  <2>5. Exists(b)' /\ LeaseOf(b)' = NewLease(q)
    BY <1>2, <2>2, <2>3, <2>4
  <2> QED BY <2>1, <2>4, <2>5 DEF LeaseOf, Exists
<1>4. LeaseShape'
  <2> SUFFICES ASSUME NEW b \in Areas, LeaseOf(b)' # NoLease
               PROVE  /\ LeaseOf(b)'.context = Context(LeaseOf(b)'.session)
                      /\ LeaseOf(b)'.reserved
                             => LeaseOf(b)'.pid = NoPid /\ LeaseOf(b)'.session \in GuiProcs
                      /\ ~LeaseOf(b)'.reserved => LeaseOf(b)'.pid = LeaseOf(b)'.session
    BY DEF LeaseShape, Context
  <2>1. CASE b = a
    BY <1>2a, <2>1
  <2>2. CASE b # a
    BY <1>2, <2>2 DEF LeaseInv, LeaseShape
  <2> QED BY <2>1, <2>2
<1>5. LeaseBacked'
  <2> SUFFICES ASSUME NEW b \in Areas, LeaseOf(b)' # NoLease, LeaseOf(b)'.pid \in alive'
               PROVE  attached'[LeaseOf(b)'.pid] = b
    BY DEF LeaseBacked
  <2>1. b # a
    <3>1. NoPid \notin alive'
      BY <1>0, <1>2, ProcsAssumption DEF TypeOK
    <3> QED BY <1>2a, <3>1
  <2>2. LeaseOf(b) # NoLease /\ LeaseOf(b).pid \in alive \ {p} /\ LeaseOf(b)' = LeaseOf(b)
    BY <1>2, <2>1
  <2> QED BY <1>0, <1>2, <2>2 DEF LeaseInv, LeaseBacked, TypeOK
<1> QED
  BY <1>3, <1>4, <1>5 DEF LeaseInv

\* reset_staging, and the release by the workspace's reset: a lease may go, but
\* not that of a live attachment.
LEMMA RemovalKeepsInv ==
    ASSUME LeaseInv, TypeOK', NEW a \in Areas,
           UNCHANGED <<alive, attached>>,
           LeaseOf(a)' \in {LeaseOf(a), NoLease},
           \A b \in Areas \ {a} : LeaseOf(b)' = LeaseOf(b) /\ Exists(b)' = Exists(b),
           \A q \in alive : attached[q] = a => Exists(a)' /\ LeaseOf(a)' = LeaseOf(a)
    PROVE  LeaseInv'
<1>0. TypeOK
  BY DEF LeaseInv
<1>1. LeaseHeld'
  <2> SUFFICES ASSUME NEW q \in alive, attached[q] # NoArea
               PROVE  record'[attached[q]] # NoRecord /\ record'[attached[q]].lease = NewLease(q)
    BY DEF LeaseHeld, NewLease, Exists
  <2>1. PICK b \in Areas : b = attached[q]
    BY <1>0 DEF TypeOK
  <2>2. Exists(b) /\ LeaseOf(b) = NewLease(q)
    BY <2>1 DEF LeaseInv, LeaseHeld, LeaseOf
  <2>3. Exists(b)' /\ LeaseOf(b)' = NewLease(q)
    BY <2>1, <2>2
  <2> QED BY <2>1, <2>3 DEF LeaseOf, Exists
<1>2. LeaseShape'
  BY DEF LeaseInv, LeaseShape
<1>3. LeaseBacked'
  BY DEF LeaseInv, LeaseBacked
<1> QED
  BY <1>1, <1>2, <1>3 DEF LeaseInv

LEMMA ResetKeepsInv ==
    ASSUME LeaseInv, TypeOK', NEW a \in Areas, ResetStaging(a)
    PROVE  LeaseInv'
<1>0. TypeOK
  BY DEF LeaseInv
<1>1. LeaseOf(a)' = NoLease
  BY <1>0 DEF ResetStaging, LeaseOf, Exists, TypeOK
<1>2. \A b \in Areas \ {a} : LeaseOf(b)' = LeaseOf(b) /\ Exists(b)' = Exists(b)
  BY <1>0 DEF ResetStaging, LeaseOf, Exists, TypeOK
<1>3. ASSUME NEW q \in alive, attached[q] = a PROVE FALSE
  <2>1. q \in Procs /\ a # NoArea
    BY <1>0, AreasAssumption DEF TypeOK
  <2>2. record[a].lease = NewLease(q)
    BY <1>3, <2>1 DEF LeaseInv, LeaseHeld
  <2>3. InForce(record[a].lease)
    BY <2>1, <2>2, NewLeaseFields DEF InForce
  <2> QED BY <2>3 DEF ResetStaging
<1>4. UNCHANGED <<alive, attached>>
  BY DEF ResetStaging
<1> QED
  BY <1>1, <1>2, <1>3, <1>4, RemovalKeepsInv

LEMMA DiscardEffect ==
    ASSUME TypeOK, NEW a \in Areas, DiscardWorkspace(a)
    PROVE  /\ UNCHANGED <<alive, attached>>
           /\ Exists(a) /\ Exists(a)'
           /\ LeaseOf(a)' = IF ~Names(LeaseOf(a), GuiDefault) THEN LeaseOf(a) ELSE NoLease
           /\ \A b \in Areas \ {a} : LeaseOf(b)' = LeaseOf(b) /\ Exists(b)' = Exists(b)
<1> DEFINE r == Released(a, GuiDefault, FALSE)
<1>1. Exists(a) /\ record' = [record EXCEPT ![a] = r] /\ UNCHANGED <<alive, attached>>
  BY DEF DiscardWorkspace
<1>2. r \in Records
  BY <1>1, ReleasedType
<1>3. r.lease = IF ~Names(LeaseOf(a), GuiDefault) THEN LeaseOf(a) ELSE NoLease
  BY <1>1, ReleasedLease DEF LeaseOf
<1>4. r # NoRecord
  BY <1>2, RecordAssumption
<1> HIDE DEF r
<1>5. Exists(a)' /\ LeaseOf(a)' = r.lease
  BY <1>1, <1>4 DEF LeaseOf, Exists, TypeOK
<1>6. \A b \in Areas \ {a} : LeaseOf(b)' = LeaseOf(b) /\ Exists(b)' = Exists(b)
  BY <1>1 DEF LeaseOf, Exists, TypeOK
<1> QED
  BY <1>1, <1>3, <1>5, <1>6

LEMMA DiscardKeepsInv ==
    ASSUME LeaseInv, TypeOK', NEW a \in Areas, DiscardWorkspace(a)
    PROVE  LeaseInv'
<1>0. TypeOK
  BY DEF LeaseInv
<1>1. /\ UNCHANGED <<alive, attached>> /\ Exists(a)'
      /\ LeaseOf(a)' = IF ~Names(LeaseOf(a), GuiDefault) THEN LeaseOf(a) ELSE NoLease
      /\ \A b \in Areas \ {a} : LeaseOf(b)' = LeaseOf(b) /\ Exists(b)' = Exists(b)
  BY <1>0, DiscardEffect
<1>2. ASSUME NEW q \in alive, attached[q] = a PROVE LeaseOf(a)' = LeaseOf(a)
  <2>1. q \in Procs /\ a # NoArea
    BY <1>0, AreasAssumption DEF TypeOK
  <2>2. LeaseOf(a) = NewLease(q)
    BY <1>2, <2>1 DEF LeaseInv, LeaseHeld, LeaseOf
  <2>3. q \notin GuiProcs
    BY <1>2, <2>1 DEF DiscardWorkspace
  <2>4. Context(q) # GuiDefault /\ q # GuiDefault
    BY <2>1, <2>3, ProcsAssumption DEF Context
  <2>5. ~Names(LeaseOf(a), GuiDefault)
    BY <2>1, <2>2, <2>4, NewLeaseFields DEF Names
  <2> QED BY <1>1, <2>5
<1> QED
  BY <1>1, <1>2, RemovalKeepsInv

LEMMA OrphanExitKeepsInv ==
    ASSUME LeaseInv, TypeOK', NEW p \in Procs, OrphanExit(p)
    PROVE  LeaseInv'
<1>0. TypeOK
  BY DEF LeaseInv
<1>1. /\ p \notin alive /\ UNCHANGED <<record, alive>>
      /\ \A q \in alive : attached'[q] = attached[q]
  BY <1>0 DEF OrphanExit, areaVars, TypeOK
<1>2. LeaseHeld'
  BY <1>1 DEF LeaseInv, LeaseHeld, NewLease, Exists
<1>3. LeaseShape'
  BY <1>1 DEF LeaseInv, LeaseShape, LeaseOf, Exists
<1>4. LeaseBacked'
  BY <1>1 DEF LeaseInv, LeaseBacked, LeaseOf, Exists
<1> QED
  BY <1>2, <1>3, <1>4 DEF LeaseInv

LEMMA LeaseInvInit == Init => LeaseInv
<1> SUFFICES ASSUME Init PROVE LeaseInv
  OBVIOUS
<1>1. TypeOK
  BY TypeInit
<1>2. \A a \in Areas : LeaseOf(a) = NoLease
  BY DEF Init, LeaseOf, Exists
<1>3. LeaseHeld
  BY DEF Init, LeaseHeld
<1> QED
  BY <1>1, <1>2, <1>3 DEF LeaseInv, LeaseShape, LeaseBacked

LEMMA LeaseInvStep == LeaseInv /\ [Next]_vars => LeaseInv'
<1> SUFFICES ASSUME LeaseInv, [Next]_vars PROVE LeaseInv'
  OBVIOUS
<1>0. TypeOK /\ TypeOK'
  BY TypeStep DEF LeaseInv
<1>1. ASSUME NEW a \in Areas, AreaStep(a) PROVE LeaseInv'
  BY <1>0, <1>1, AreaStepKeepsLeases, LeasesKept, ResetKeepsInv, DiscardKeepsInv DEF AreaStep
<1>2. ASSUME NEW p \in Procs, ProcStep(p) PROVE LeaseInv'
  <2>1. ASSUME NEW a \in Areas, AcquireLease(p, a) PROVE LeaseInv'
    BY <1>0, <2>1, AcquireKeepsInv
  <2>2. ASSUME NEW a \in Areas, AttachConflicted(p, a) PROVE LeaseInv'
    BY <1>0, <2>2, AttachConflictedKeepsLeases, LeasesKept
  <2>3. ASSUME NEW dirty \in BOOLEAN, ReleaseLease(p, dirty) PROVE LeaseInv'
    BY <1>0, <2>3, ReleaseKeepsInv
  <2>4. CASE AbandonLease(p)
    BY <1>0, <2>4, ReleaseKeepsInv
  <2>5. CASE ServiceExport(p) \/ ServicePromote(p)
    <3>1. PICK a \in Areas : ReconcileStaging(a) \/ PromoteStaging(a)
      BY <1>0, <2>5 DEF TypeOK, ServiceExport, ServicePromote
    <3> QED BY <1>0, <3>1, AreaStepKeepsLeases, LeasesKept
  <2>6. CASE Exit(p)
    BY <1>0, <2>6, ExitKeepsLeases, LeasesKept
  <2>7. CASE OrphanExit(p)
    BY <1>0, <2>7, OrphanExitKeepsInv
  <2> QED
    BY <1>2, <2>1, <2>2, <2>3, <2>4, <2>5, <2>6, <2>7 DEF ProcStep
<1>3. ASSUME NEW path \in Paths, NEW value \in Contents \cup {Missing}, EditStep(path, value)
      PROVE  LeaseInv'
  BY <1>0, <1>3, EditStepKeepsLeases, LeasesKept
<1>4. CASE UNCHANGED vars
  <2>1. KeepsLeases
    BY <1>4 DEF KeepsLeases, LeaseOf, Exists, vars, areaVars
  <2> QED BY <1>0, <2>1, LeasesKept
<1> QED
  BY <1>1, <1>2, <1>3, <1>4 DEF Next

LEMMA LeaseInvariant == Spec => []LeaseInv
BY LeaseInvInit, LeaseInvStep, PTL DEF Spec

\* A live coordinator's attachment is never taken away: not by another context's
\* acquire, not by a release, reset, promotion or workspace reset.
THEOREM LeaseIsHeld == Spec => []LeaseHeld
<1>1. LeaseInv => LeaseHeld
  BY DEF LeaseInv
<1> QED
  BY <1>1, LeaseInvariant, PTL

\* Two live coordinators never have images in one area.
THEOREM AttachmentIsExclusive == Spec => []ExclusiveAttachment
<1>1. LeaseInv => ExclusiveAttachment
  <2> SUFFICES ASSUME LeaseInv, NEW p \in alive, NEW q \in alive,
                      attached[p] # NoArea, attached[p] = attached[q]
               PROVE  p = q
    BY DEF ExclusiveAttachment
  <2>1. NewLease(p) = NewLease(q)
    BY DEF LeaseInv, LeaseHeld
  <2>2. p \in Procs /\ q \in Procs
    BY DEF LeaseInv, TypeOK
  <2> QED BY <2>1, <2>2, NewLeaseFields
<1> QED
  BY <1>1, LeaseInvariant, PTL

-----------------------------------------------------------------------------
(* Reservations.                                                              *)

LEMMA ReservationStep ==
    ASSUME LeaseInv, [Next]_vars, NEW a \in Areas, Reserved(a), ~Reserved(a)'
    PROVE  \/ \E p \in GuiProcs : AcquireLease(p, a)
           \/ DiscardWorkspace(a)
<1>0. TypeOK /\ TypeOK'
  BY TypeStep DEF LeaseInv
<1>1. LeaseOf(a)' # LeaseOf(a)
  BY DEF Reserved
<1>2. ~KeepsLeases
  BY <1>1 DEF KeepsLeases
<1>3. ASSUME NEW b \in Areas, AreaStep(b) PROVE DiscardWorkspace(a)
  <2>1. ResetStaging(b) \/ DiscardWorkspace(b)
    BY <1>0, <1>2, <1>3, AreaStepKeepsLeases DEF AreaStep
  <2>2. ~(ResetStaging(b) /\ b = a)
    BY DEF ResetStaging, InForce, Reserved, LeaseOf
  <2>3. b = a
    BY <1>0, <1>1, <2>1 DEF ResetStaging, DiscardWorkspace, LeaseOf, Exists, TypeOK
  <2> QED BY <2>1, <2>2, <2>3
<1>4. ASSUME NEW p \in Procs, ProcStep(p)
      PROVE  \E g \in GuiProcs : AcquireLease(g, a)
  <2>1. ASSUME NEW b \in Areas, AcquireLease(p, b) PROVE \E g \in GuiProcs : AcquireLease(g, a)
    <3>1. b = a /\ (Resumes(p, b) \/ ~Refused(p, b)) /\ Exists(a)
      BY <1>0, <1>1, <2>1, AcquireEffect
    <3>2. record[a].lease.context = Context(p)
      BY <3>1 DEF Resumes, Refused, SameContext, InForce, Reserved, LeaseOf
    <3>3. LeaseOf(a).context = Context(LeaseOf(a).session) /\ LeaseOf(a).session \in GuiProcs
      BY DEF LeaseInv, LeaseShape, Reserved
    <3>4. Context(p) = GuiDefault
      BY <3>1, <3>2, <3>3 DEF Context, LeaseOf
    <3>5. p \in GuiProcs
      BY <3>4, ProcsAssumption DEF Context
    <3> QED BY <2>1, <3>1, <3>5
  <2>2. ASSUME NEW b \in Areas, AttachConflicted(p, b) PROVE FALSE
    BY <1>0, <1>2, <2>2, AttachConflictedKeepsLeases
  <2>3. ASSUME NEW dirty \in BOOLEAN, ReleaseLease(p, dirty) \/ (AbandonLease(p) /\ ~dirty)
        PROVE  FALSE
    <3>1. PICK b : b = attached[p]
      OBVIOUS
    <3>2. /\ LeaseOf(b) = NewLease(p)
          /\ \A c \in Areas \ {b} : LeaseOf(c)' = LeaseOf(c)
      BY <2>3, <3>1, ReleaseEffect
    <3> QED BY <1>1, <3>2, NewLeaseFields DEF Reserved
  <2>4. ~(ServiceExport(p) \/ ServicePromote(p))
    <3> SUFFICES ASSUME ServiceExport(p) \/ ServicePromote(p) PROVE FALSE
      OBVIOUS
    <3>1. PICK b \in Areas : ReconcileStaging(b) \/ PromoteStaging(b)
      BY <1>0 DEF TypeOK, ServiceExport, ServicePromote
    <3> QED BY <1>0, <1>2, <3>1, AreaStepKeepsLeases
  <2>5. ~Exit(p)
    BY <1>2, ExitKeepsLeases
  <2>6. ~OrphanExit(p)
    BY <1>1 DEF OrphanExit, areaVars, LeaseOf, Exists
  <2> QED
    BY <1>4, <2>1, <2>2, <2>3, <2>4, <2>5, <2>6 DEF ProcStep
<1>5. ASSUME NEW path \in Paths, NEW value \in Contents \cup {Missing}, EditStep(path, value)
      PROVE  FALSE
  BY <1>2, <1>5, EditStepKeepsLeases
<1>6. ~UNCHANGED vars
  BY <1>1 DEF vars, areaVars, LeaseOf, Exists
<1> QED
  BY <1>3, <1>4, <1>5, <1>6 DEF Next

\* Only a GUI launch that resumes it, or a discard of the workspace, ends the
\* reservation of a GUI saved with unexported changes.
THEOREM ReservationsAreKept == Spec => ReservationIsKept
<1>1. LeaseInv /\ [Next]_vars =>
        [\A a \in Areas :
            Reserved(a) /\ ~Reserved(a)' =>
                \/ \E p \in GuiProcs : AcquireLease(p, a)
                \/ DiscardWorkspace(a)]_vars
  BY ReservationStep
<1> QED
  BY <1>1, LeaseInvariant, PTL DEF Spec, ReservationIsKept
-----------------------------------------------------------------------------
(* Staging records, area locks and process ids implement ExclusiveLease: every
   step of StagingArea is, seen through Holder, one step of the abstract lease
   of one area, or none.                                                      *)

HolderOf(a) ==
    IF ~InForce(LeaseOf(a)) THEN NoPid
    ELSE IF Reserved(a) THEN GuiDefault
    ELSE LeaseOf(a).session

LEMMA HolderIsHolderOf ==
    /\ Holder = [a \in Areas |-> HolderOf(a)]
    /\ Holder' = [a \in Areas |-> HolderOf(a)']
BY DEF Holder, HolderOf

\* A step that changes at most one area's holder.
LEMMA OneHolderChanges ==
    ASSUME NEW a \in Areas, NEW x, HolderOf(a)' = x,
           \A b \in Areas \ {a} : HolderOf(b)' = HolderOf(b)
    PROVE  Holder' = [Holder EXCEPT ![a] = x]
BY HolderIsHolderOf

LEMMA NoHolderChanges ==
    ASSUME \A b \in Areas : HolderOf(b)' = HolderOf(b)
    PROVE  Holder' = Holder
BY HolderIsHolderOf

\* The lease and the liveness of its process determine the holder.
LEMMA HolderKept ==
    ASSUME NEW a \in Areas, LeaseOf(a)' = LeaseOf(a),
           LeaseOf(a) # NoLease => (LeaseOf(a).pid \in alive' <=> LeaseOf(a).pid \in alive)
    PROVE  HolderOf(a)' = HolderOf(a)
BY DEF HolderOf, InForce, Reserved

LEMMA ExitRefines ==
    ASSUME LeaseInv, KeepsLeases, NEW p \in alive, alive' = alive \ {p}
    PROVE  Lease!Next \/ Holder' = Holder
<1>0. TypeOK /\ p \in Procs
  BY DEF LeaseInv, TypeOK
<1>1. \A b \in Areas : LeaseOf(b)' = LeaseOf(b)
  BY DEF KeepsLeases
<1>2. CASE \E a \in Areas : LeaseOf(a) # NoLease /\ LeaseOf(a).pid = p
  <2>1. PICK a \in Areas : LeaseOf(a) # NoLease /\ LeaseOf(a).pid = p
    BY <1>2
  <2>2. attached[p] = a
    BY <2>1 DEF LeaseInv, LeaseBacked
  <2>3. ASSUME NEW b \in Areas \ {a} PROVE HolderOf(b)' = HolderOf(b)
    <3>1. LeaseOf(b) # NoLease => LeaseOf(b).pid # p
      BY <2>2 DEF LeaseInv, LeaseBacked
    <3> QED BY <1>1, <3>1, HolderKept
  <2>4. ~LeaseOf(a).reserved /\ LeaseOf(a).session = p
    BY <1>0, <2>1, ProcsAssumption, LeaseOfType DEF LeaseInv, LeaseShape, Leases
  <2>5. HolderOf(a) = p
    BY <2>1, <2>4 DEF HolderOf, InForce, Reserved
  <2>6. HolderOf(a)' = NoPid
    BY <1>1, <2>1, <2>4 DEF HolderOf, InForce
  <2>7. Holder' = [Holder EXCEPT ![a] = NoPid]
    BY <2>3, <2>6, OneHolderChanges
  <2>8. Holder[a] = p
    BY <2>5, HolderIsHolderOf
  <2>9. Lease!Drop(a)
    BY <1>0, <2>7, <2>8 DEF Lease!Drop
  <2> QED BY <2>9 DEF Lease!Next
<1>3. CASE ~ \E a \in Areas : LeaseOf(a) # NoLease /\ LeaseOf(a).pid = p
  <2>1. ASSUME NEW b \in Areas PROVE HolderOf(b)' = HolderOf(b)
    BY <1>1, <1>3, HolderKept
  <2> QED BY <2>1, NoHolderChanges
<1> QED
  BY <1>2, <1>3

LEMMA AcquireRefines ==
    ASSUME LeaseInv, NEW p \in Procs, NEW a \in Areas, AcquireLease(p, a)
    PROVE  Lease!Next
<1>0. TypeOK
  BY DEF LeaseInv
<1>1. /\ p \in alive /\ alive' = alive
      /\ Resumes(p, a) \/ ~Refused(p, a)
      /\ Exists(a) /\ LeaseOf(a)' = NewLease(p)
      /\ \A b \in Areas \ {a} : LeaseOf(b)' = LeaseOf(b)
  BY <1>0, AcquireEffect
<1>2. HolderOf(a)' = p
  BY <1>1, NewLeaseFields DEF HolderOf, InForce, Reserved
<1>3. \A b \in Areas \ {a} : HolderOf(b)' = HolderOf(b)
  BY <1>1, HolderKept
<1>4. Holder' = [Holder EXCEPT ![a] = p]
  BY <1>2, <1>3, OneHolderChanges
<1>5. CASE ~InForce(LeaseOf(a))
  <2>1. Holder[a] = NoPid
    BY <1>5, HolderIsHolderOf DEF HolderOf
  <2>2. Lease!Take(a, p)
    BY <1>4, <2>1 DEF Lease!Take
  <2> QED BY <2>2 DEF Lease!Next
<1>6. CASE InForce(LeaseOf(a)) /\ Reserved(a)
  <2>1. Holder[a] = GuiDefault
    BY <1>6, HolderIsHolderOf DEF HolderOf
  <2>2. record[a].lease.context = Context(p)
    BY <1>1, <1>6 DEF Resumes, Refused, SameContext, LeaseOf
  <2>3. LeaseOf(a).context = Context(LeaseOf(a).session) /\ LeaseOf(a).session \in GuiProcs
    BY <1>6 DEF LeaseInv, LeaseShape, Reserved
  <2>4. Context(p) = GuiDefault
    BY <1>1, <2>2, <2>3 DEF Context, LeaseOf
  <2>5. p \in GuiProcs
    BY <2>4, ProcsAssumption DEF Context
  <2>6. Lease!Resume(a, p)
    BY <1>4, <2>1, <2>5 DEF Lease!Resume
  <2> QED BY <2>6 DEF Lease!Next
<1>7. CASE InForce(LeaseOf(a)) /\ ~Reserved(a)
  <2>1. LeaseOf(a) # NoLease /\ LeaseOf(a).pid \in alive
    BY <1>7 DEF InForce, Reserved
  <2>2. attached[LeaseOf(a).pid] = a
    BY <2>1 DEF LeaseInv, LeaseBacked
  <2> QED BY <2>1, <2>2, AcquireFindsNobody
<1> QED
  BY <1>5, <1>6, <1>7

LEMMA ReleaseRefines ==
    ASSUME LeaseInv, NEW p \in Procs, NEW dirty \in BOOLEAN,
           \/ ReleaseLease(p, dirty)
           \/ AbandonLease(p) /\ ~dirty
    PROVE  Lease!Next
<1>0. TypeOK
  BY DEF LeaseInv
<1>1. PICK a : a = attached[p]
  OBVIOUS
<1>2. /\ p \in alive /\ alive' = alive \ {p}
      /\ a \in Areas /\ LeaseOf(a) = NewLease(p)
      /\ dirty => p \in GuiProcs
      /\ LeaseOf(a)' = IF dirty THEN [NewLease(p) EXCEPT !.pid = NoPid, !.reserved = TRUE]
                       ELSE NoLease
      /\ \A b \in Areas \ {a} : LeaseOf(b)' = LeaseOf(b)
  BY <1>1, ReleaseEffect
<1>3. ASSUME NEW b \in Areas \ {a} PROVE HolderOf(b)' = HolderOf(b)
  <2>1. LeaseOf(b) # NoLease => LeaseOf(b).pid # p
    BY <1>1, <1>2 DEF LeaseInv, LeaseBacked
  <2> QED BY <1>2, <2>1, HolderKept
<1>4. Holder[a] = p
  <2>1. HolderOf(a) = p
    BY <1>2, NewLeaseFields DEF HolderOf, InForce, Reserved
  <2> QED BY <1>2, <2>1, HolderIsHolderOf
<1>5. CASE dirty
  <2>1. PICK l : l = LeaseOf(a)'
    OBVIOUS
  <2>2. l = [NewLease(p) EXCEPT !.pid = NoPid, !.reserved = TRUE]
    BY <1>2, <1>5, <2>1
  <2>3. l.reserved = TRUE /\ l # NoLease
    <3>1. ASSUME NEW r \in Leases
          PROVE  [r EXCEPT !.pid = NoPid, !.reserved = TRUE] \in Leases
      BY DEF Leases
    <3>2. l \in Leases
      BY <2>2, <3>1, NewLeaseType
    <3> QED BY <2>2, <3>2, ReservationFields, LeaseAssumption
  <2>4. HolderOf(a)' = GuiDefault
    BY <2>1, <2>3 DEF HolderOf, InForce, Reserved
  <2>5. Holder' = [Holder EXCEPT ![a] = GuiDefault]
    BY <1>2, <1>3, <2>4, OneHolderChanges
  <2>6. Lease!Reserve(a)
    BY <1>2, <1>4, <1>5, <2>5 DEF Lease!Reserve
  <2> QED BY <1>2, <2>6 DEF Lease!Next
<1>6. CASE ~dirty
  <2>1. HolderOf(a)' = NoPid
    BY <1>2, <1>6 DEF HolderOf, InForce
  <2>2. Holder' = [Holder EXCEPT ![a] = NoPid]
    BY <1>2, <1>3, <2>1, OneHolderChanges
  <2>3. Lease!Drop(a)
    BY <1>4, <2>2 DEF Lease!Drop
  <2> QED BY <1>2, <2>3 DEF Lease!Next
<1> QED
  BY <1>5, <1>6

LEMMA ResetRefines ==
    ASSUME LeaseInv, NEW a \in Areas, ResetStaging(a)
    PROVE  Holder' = Holder
<1>0. TypeOK
  BY DEF LeaseInv
<1>1. LeaseOf(a)' = NoLease /\ ~InForce(LeaseOf(a)) /\ alive' = alive
  BY <1>0 DEF ResetStaging, LeaseOf, Exists, TypeOK
<1>2. \A b \in Areas \ {a} : LeaseOf(b)' = LeaseOf(b)
  BY <1>0 DEF ResetStaging, LeaseOf, Exists, TypeOK
<1>3. HolderOf(a)' = HolderOf(a)
  BY <1>1 DEF HolderOf, InForce
<1> QED
  BY <1>1, <1>2, <1>3, HolderKept, NoHolderChanges

LEMMA DiscardRefines ==
    ASSUME LeaseInv, NEW a \in Areas, DiscardWorkspace(a)
    PROVE  Lease!Next \/ Holder' = Holder
<1>0. TypeOK
  BY DEF LeaseInv
<1>1. alive' = alive /\ Exists(a) /\ record' = [record EXCEPT ![a] = Released(a, GuiDefault, FALSE)]
  BY DEF DiscardWorkspace
<1>2. Released(a, GuiDefault, FALSE) # NoRecord
  BY <1>0, <1>1, ReleasedType, RecordAssumption
<1>3. LeaseOf(a)' = LeaseOf(a) \/ LeaseOf(a)' = NoLease
  <2>1. Released(a, GuiDefault, FALSE).lease \in {LeaseOf(a), NoLease}
    BY <1>0, <1>1, ReleasedLease DEF LeaseOf
  <2> QED BY <1>0, <1>1, <1>2, <2>1 DEF LeaseOf, Exists, TypeOK
<1>4. \A b \in Areas \ {a} : LeaseOf(b)' = LeaseOf(b)
  BY <1>0, <1>1 DEF LeaseOf, Exists, TypeOK
<1>5. \A b \in Areas \ {a} : HolderOf(b)' = HolderOf(b)
  BY <1>1, <1>4, HolderKept
<1>6. CASE LeaseOf(a)' = LeaseOf(a)
  BY <1>1, <1>5, <1>6, HolderKept, NoHolderChanges
<1>7. CASE LeaseOf(a)' = NoLease /\ LeaseOf(a) # NoLease
  <2>1. HolderOf(a)' = NoPid
    BY <1>7 DEF HolderOf, InForce
  <2>2. Holder' = [Holder EXCEPT ![a] = NoPid]
    BY <1>5, <2>1, OneHolderChanges
  <2>3. Holder[a] = HolderOf(a)
    BY HolderIsHolderOf
  <2>4. HolderOf(a) = NoPid \/ HolderOf(a) = GuiDefault \/ HolderOf(a) \in Procs
    BY <1>0, <1>7, LeaseOfType DEF HolderOf, Leases
  <2>5. CASE HolderOf(a) = NoPid
    BY <1>5, <2>1, <2>5, NoHolderChanges
  <2>6. CASE HolderOf(a) = GuiDefault
    BY <2>2, <2>3, <2>6 DEF Lease!Discard, Lease!Next
  <2>7. CASE HolderOf(a) \in Procs
    BY <2>2, <2>3, <2>7 DEF Lease!Drop, Lease!Next
  <2> QED BY <2>4, <2>5, <2>6, <2>7
<1> QED
  BY <1>3, <1>6, <1>7

LEMMA UnchangedRefines ==
    ASSUME KeepsLeases, alive' = alive
    PROVE  Holder' = Holder
<1>1. \A b \in Areas : HolderOf(b)' = HolderOf(b)
  BY HolderKept DEF KeepsLeases
<1> QED
  BY <1>1, NoHolderChanges

LEMMA StepRefines == LeaseInv /\ [Next]_vars => [Lease!Next]_Holder
<1> SUFFICES ASSUME LeaseInv, [Next]_vars PROVE Lease!Next \/ Holder' = Holder
  OBVIOUS
<1>0. TypeOK /\ TypeOK'
  BY TypeStep DEF LeaseInv
<1>1. ASSUME NEW a \in Areas, AreaStep(a) PROVE Lease!Next \/ Holder' = Holder
  <2>1. CASE ResetStaging(a) \/ DiscardWorkspace(a)
    BY <2>1, ResetRefines, DiscardRefines
  <2>2. CASE CreateStaging(a) \/ RebaseStaging(a) \/ ReconcileStaging(a) \/ PromoteStaging(a)
    <3>1. alive' = alive
      BY <2>2 DEF CreateStaging, RebaseStaging, ReconcileStaging, PromoteStaging
    <3> QED BY <1>0, <2>2, <3>1, AreaStepKeepsLeases, UnchangedRefines
  <2> QED BY <1>1, <2>1, <2>2 DEF AreaStep
<1>2. ASSUME NEW p \in Procs, ProcStep(p) PROVE Lease!Next \/ Holder' = Holder
  <2>1. ASSUME NEW a \in Areas, AcquireLease(p, a) PROVE Lease!Next
    BY <2>1, AcquireRefines
  <2>2. ASSUME NEW a \in Areas, AttachConflicted(p, a) PROVE Lease!Next \/ Holder' = Holder
    <3>1. p \in alive /\ alive' = alive \ {p}
      BY <2>2 DEF AttachConflicted, MayAttach
    <3> QED BY <1>0, <2>2, <3>1, AttachConflictedKeepsLeases, ExitRefines
  <2>3. ASSUME NEW dirty \in BOOLEAN, ReleaseLease(p, dirty) PROVE Lease!Next
    BY <2>3, ReleaseRefines
  <2>4. CASE AbandonLease(p)
    BY <2>4, ReleaseRefines
  <2>5. CASE ServiceExport(p) \/ ServicePromote(p)
    <3>1. PICK a \in Areas : ReconcileStaging(a) \/ PromoteStaging(a)
      BY <1>0, <2>5 DEF TypeOK, ServiceExport, ServicePromote
    <3>2. alive' = alive
      BY <3>1 DEF ReconcileStaging, PromoteStaging
    <3> QED BY <1>0, <3>1, <3>2, AreaStepKeepsLeases, UnchangedRefines
  <2>6. CASE Exit(p)
    <3>1. p \in alive /\ alive' = alive \ {p}
      BY <2>6 DEF Exit
    <3> QED BY <2>6, <3>1, ExitKeepsLeases, ExitRefines
  <2>7. CASE OrphanExit(p)
    <3>1. UNCHANGED <<record, alive>>
      BY <2>7 DEF OrphanExit, areaVars
    <3>2. \A b \in Areas : HolderOf(b)' = HolderOf(b)
      BY <3>1 DEF HolderOf, InForce, Reserved, LeaseOf, Exists
    <3> QED BY <3>2, NoHolderChanges
  <2> QED
    BY <1>2, <2>1, <2>2, <2>3, <2>4, <2>5, <2>6, <2>7 DEF ProcStep
<1>3. ASSUME NEW path \in Paths, NEW value \in Contents \cup {Missing}, EditStep(path, value)
      PROVE  Holder' = Holder
  <2>1. alive' = alive
    BY <1>3 DEF EditStep, EditSource, EditOverlay, ImageExport
  <2> QED BY <1>3, <2>1, EditStepKeepsLeases, UnchangedRefines
<1>4. CASE UNCHANGED vars
  <2>1. \A b \in Areas : HolderOf(b)' = HolderOf(b)
    BY <1>4 DEF vars, areaVars, HolderOf, InForce, Reserved, LeaseOf, Exists
  <2> QED BY <2>1, NoHolderChanges
<1> QED
  BY <1>1, <1>2, <1>3, <1>4 DEF Next

LEMMA InitRefines == Init => Lease!Init
<1> SUFFICES ASSUME Init PROVE Lease!Init
  OBVIOUS
<1>1. \A a \in Areas : HolderOf(a) = NoPid
  BY DEF Init, HolderOf, InForce, LeaseOf, Exists
<1> QED
  BY <1>1, HolderIsHolderOf DEF Lease!Init

\* The lease of every staging area is an exclusive lease: taken only when free,
\* resumed only by a GUI launch, and given up by its owner or its owner's death.
THEOREM LeaseIsExclusive == Spec => LeaseSpec
<1>1. Spec => []LeaseInv
  BY LeaseInvariant
<1> QED
  BY <1>1, InitRefines, StepRefines, PTL DEF Spec, LeaseSpec, Lease!Spec

-----------------------------------------------------------------------------
(* What staging areas promise about sources: promotion overwrites nothing, a
   rebase loses nothing, an attachment is current, and a generation follows its
   HEAD.  All of them rest on what _rebase_locked computes, for every path.   *)

-----------------------------------------------------------------------------
(* The records _reconcile_head_locked and _rebase_locked compute.             *)

\* s may replace r as the record of an area: the generation does not go back,
\* and it goes up when another HEAD is recorded.
Advances(r, s) ==
    /\ s.generation >= r.generation
    /\ s.headCommit # r.headCommit => s.generation > r.generation

LEMMA FieldUpdates ==
    ASSUME NEW r \in Records
    PROVE  /\ \A s \in States :
                /\ [r EXCEPT !.state = s].generation = r.generation
                /\ [r EXCEPT !.state = s].headCommit = r.headCommit
                /\ [r EXCEPT !.state = s].state = s
           /\ \A l : /\ [r EXCEPT !.lease = l].generation = r.generation
                     /\ [r EXCEPT !.lease = l].headCommit = r.headCommit
BY DEF Records

\* A HEAD the record does not know raises the generation.
LEMMA ReconciliationRaises ==
    ASSUME NEW r \in Records, NEW h \in Nat, NEW t,
           t = [r EXCEPT !.headCommit = h, !.generation = @ + 1, !.state = "ready"]
    PROVE  t.generation = r.generation + 1 /\ t.headCommit = h
<1>1. r.generation + 1 \in Nat
  BY DEF Records
<1>2. ASSUME NEW g \in Nat
      PROVE  /\ [r EXCEPT !.headCommit = h, !.generation = g, !.state = "ready"].generation = g
             /\ [r EXCEPT !.headCommit = h, !.generation = g, !.state = "ready"].headCommit = h
  BY DEF Records
<1> QED
  BY <1>1, <1>2, Zenon

LEMMA ReconciledFields ==
    ASSUME TypeOK, NEW a \in Areas, Exists(a)
    PROVE  /\ Reconciled(a).headCommit = head[a]
           /\ Advances(record[a], Reconciled(a))
<1>1. record[a] \in Records /\ record[a].generation \in Nat
  BY RecordFields DEF Records
<1>2. CASE record[a].headCommit = head[a]
  BY <1>1, <1>2 DEF Reconciled, Advances
<1>3. CASE record[a].headCommit # head[a]
  <2>1. Reconciled(a)
          = [record[a] EXCEPT !.headCommit = head[a], !.generation = @ + 1, !.state = "ready"]
    BY <1>3, Zenon DEF Reconciled
  <2>2. head[a] \in Nat
    BY DEF TypeOK
  <2>3. /\ Reconciled(a).generation = record[a].generation + 1
        /\ Reconciled(a).headCommit = head[a]
    BY <1>1, <2>1, <2>2, ReconciliationRaises, Zenon
  <2> QED BY <1>1, <2>1, <2>3 DEF Advances
<1> QED
  BY <1>2, <1>3

\* The three outcomes of a rebase.
LEMMA RebaseOutcomes ==
    ASSUME TypeOK, NEW a \in Areas, Exists(a)
    PROVE  /\ Advances(record[a], RebasedRecord(a))
           /\ base[a] = src =>
                 /\ ~Replaces(a)
                 /\ RebasedRecord(a).headCommit = head[a]
           /\ ~Replaces(a) => RebasedRecord(a).headCommit = head[a]
           /\ base[a] # src /\ ~Replaces(a) =>
                 RebasedRecord(a).state = "conflicted"
           /\ Replaces(a) =>
                 /\ Conflicts(base[a], overlay[a], src) = {}
                 /\ RebasedOverlay(a) = Merge(base[a], overlay[a], src)
                 /\ RebasedRecord(a).headCommit =
                       IF RebasedOverlay(a) = headTree[a] THEN head[a] ELSE commits + 1
<1> DEFINE known == Reconciled(a)
<1>1. known \in Records /\ known.headCommit = head[a] /\ Advances(record[a], known)
  BY ReconciledType, ReconciledFields
<1>2. record[a].generation \in Nat /\ known.generation \in Nat /\ head[a] \in Nat
      /\ commits + 1 \in Nat
  BY <1>1, RecordFields DEF Records, TypeOK
<1>3. "ready" \in States /\ "conflicted" \in States
  BY DEF States
<1>4. CASE base[a] = src
  <2>1. RebasedRecord(a) = known \/ RebasedRecord(a) = [known EXCEPT !.state = "ready"]
    BY <1>4 DEF RebasedRecord
  <2> HIDE DEF known
  <2>2. /\ [known EXCEPT !.state = "ready"].generation = known.generation
        /\ [known EXCEPT !.state = "ready"].headCommit = known.headCommit
    BY <1>1, <1>3, FieldUpdates, Zenon
  <2>3. RebasedRecord(a).generation = known.generation
        /\ RebasedRecord(a).headCommit = known.headCommit
    BY <2>1, <2>2, Zenon
  <2> QED BY <1>1, <1>4, <2>3 DEF Advances, Replaces
<1>5. CASE base[a] # src /\ Conflicts(base[a], overlay[a], src) # {}
  <2>1. RebasedRecord(a) = [known EXCEPT !.state = "conflicted"]
    BY <1>5 DEF RebasedRecord
  <2> HIDE DEF known
  <2>2. RebasedRecord(a).generation = known.generation
        /\ RebasedRecord(a).headCommit = known.headCommit
        /\ RebasedRecord(a).state = "conflicted"
    BY <1>1, <1>3, <2>1, FieldUpdates
  <2> QED BY <1>1, <1>5, <2>2 DEF Advances, Replaces
<1>6. CASE base[a] # src /\ Conflicts(base[a], overlay[a], src) = {}
  <2>1. Replaces(a) /\ RebasedOverlay(a) = Merge(base[a], overlay[a], src)
    BY <1>6 DEF Replaces, RebasedOverlay
  <2> DEFINE h == IF RebasedOverlay(a) = headTree[a] THEN head[a] ELSE commits + 1
  <2>2. RebasedRecord(a)
          = [known EXCEPT !.state = "ready", !.generation = @ + 1, !.headCommit = h]
    <3>1. CASE RebasedOverlay(a) = headTree[a]
      <4>1. h = known.headCommit
        BY <1>1, <3>1
      <4>2. RebasedRecord(a)
              = [known EXCEPT !.state = "ready", !.generation = @ + 1, !.headCommit = known.headCommit]
        BY <1>1, <1>6, <2>1, <3>1 DEF RebasedRecord, Records
      <4> QED BY <4>1, <4>2, Zenon
    <3>2. CASE RebasedOverlay(a) # headTree[a]
      <4>1. h = commits + 1
        BY <3>2
      <4>2. RebasedRecord(a)
              = [known EXCEPT !.state = "ready", !.generation = @ + 1, !.headCommit = commits + 1]
        BY <1>6, <2>1, <3>2 DEF RebasedRecord
      <4> QED BY <4>1, <4>2, Zenon
    <3> QED BY <3>1, <3>2
  <2>3. h \in Nat
    BY <1>2
  <2> HIDE DEF h, known
  <2>4. RebasedRecord(a).generation = known.generation + 1 /\ RebasedRecord(a).headCommit = h
    <3>1. PICK g \in Nat : g = known.generation + 1
      BY <1>2
    <3>2. RebasedRecord(a)
            = [known EXCEPT !.state = "ready", !.generation = g, !.headCommit = h]
      BY <2>2, <3>1, Zenon
    <3>3. RebasedRecord(a).generation = g /\ RebasedRecord(a).headCommit = h
      BY <1>1, <2>3, <3>2 DEF Records
    <3> QED BY <3>1, <3>3
  <2>5. Advances(record[a], RebasedRecord(a))
    BY <1>1, <1>2, <2>4 DEF Advances
  <2> QED BY <1>6, <2>1, <2>4, <2>5 DEF h
<1> QED
  BY <1>4, <1>5, <1>6

LEMMA ReleasedAdvances ==
    ASSUME TypeOK, NEW a \in Areas, Exists(a), NEW id, NEW dirty \in BOOLEAN
    PROVE  Advances(record[a], Released(a, id, dirty))
<1> DEFINE known == Reconciled(a)
           s == Released(a, id, dirty)
<1>1. known \in Records /\ Advances(record[a], known)
  BY ReconciledType, ReconciledFields
<1>2. \/ s = known
      \/ s = [known EXCEPT !.lease.pid = NoPid, !.lease.reserved = TRUE]
      \/ s = [known EXCEPT !.lease = NoLease]
  BY DEF Released
<1> HIDE DEF known, s
<1>3. s.generation = known.generation /\ s.headCommit = known.headCommit
  BY <1>1, <1>2 DEF Records
<1>4. Advances(record[a], s)
  BY <1>1, <1>3 DEF Advances
<1> QED
  BY <1>4 DEF s
-----------------------------------------------------------------------------
(* Generations.                                                               *)

\* Every area that exists before and after the step advances.
AllAdvance ==
    \A a \in Areas : Exists(a) /\ Exists(a)' => Advances(record[a], record'[a])

LEMMA OneAdvances ==
    ASSUME TypeOK, NEW a \in Areas, NEW r \in Records,
           Exists(a) => Advances(record[a], r),
           record' = [record EXCEPT ![a] = r]
    PROVE  AllAdvance
<1> SUFFICES ASSUME NEW b \in Areas, Exists(b) PROVE Advances(record[b], record'[b])
  BY DEF AllAdvance
<1>1. CASE b = a
  BY <1>1 DEF TypeOK
<1>2. CASE b # a
  <2>1. record'[b] = record[b] /\ record[b].generation \in Nat
    BY <1>2, RecordFields DEF TypeOK, Records
  <2> QED BY <2>1 DEF Advances
<1> QED
  BY <1>1, <1>2

LEMMA NoneChanges ==
    ASSUME TypeOK, record' = record
    PROVE  AllAdvance
<1> SUFFICES ASSUME NEW a \in Areas, Exists(a) PROVE Advances(record[a], record'[a])
  BY DEF AllAdvance
<1>1. record[a].generation \in Nat
  BY RecordFields DEF Records
<1> QED
  BY <1>1 DEF Advances

\* A change of the other fields keeps the advance.
LEMMA StillAdvances ==
    ASSUME NEW r, NEW s \in Records, Advances(r, s)
    PROVE  /\ Advances(r, [s EXCEPT !.state = "promoted"])
           /\ \A l : Advances(r, [s EXCEPT !.lease = l])
<1>1. "promoted" \in States
  BY DEF States
<1> QED
  BY <1>1, FieldUpdates DEF Advances

LEMMA AreaStepAdvances ==
    ASSUME TypeOK, NEW a \in Areas, AreaStep(a)
    PROVE  AllAdvance
<1>1. CASE CreateStaging(a)
  <2>1. [state |-> "ready", generation |-> 1, headCommit |-> commits + 1, lease |-> NoLease]
          \in Records
    BY DEF TypeOK, Records, States
  <2> QED BY <1>1, <2>1, OneAdvances DEF CreateStaging
<1>2. CASE ResetStaging(a)
  <2>1. ~Exists(a)' /\ \A b \in Areas \ {a} : record'[b] = record[b]
    BY <1>2 DEF ResetStaging, Exists, TypeOK
  <2>2. \A b \in Areas : Exists(b) => record[b].generation \in Nat
    BY RecordFields DEF Records
  <2> QED BY <2>1, <2>2 DEF AllAdvance, Advances
<1>3. CASE RebaseStaging(a)
  BY <1>3, RebasedRecordType, RebaseOutcomes, OneAdvances DEF RebaseStaging
<1>4. CASE ReconcileStaging(a)
  BY <1>4, ReconciledType, ReconciledFields, OneAdvances DEF ReconcileStaging
<1>5. CASE PromoteStaging(a)
  <2>1. Exists(a) /\ record' = [record EXCEPT ![a] = [RebasedRecord(a) EXCEPT !.state = "promoted"]]
    BY <1>5 DEF PromoteStaging
  <2>2. RebasedRecord(a) \in Records /\ Advances(record[a], RebasedRecord(a))
    BY <2>1, RebasedRecordType, RebaseOutcomes
  <2>3. [RebasedRecord(a) EXCEPT !.state = "promoted"] \in Records
    BY <2>2, StateUpdate DEF States
  <2>4. Advances(record[a], [RebasedRecord(a) EXCEPT !.state = "promoted"])
    BY <2>2, StillAdvances
  <2> QED BY <2>1, <2>3, <2>4, OneAdvances
<1>6. CASE DiscardWorkspace(a)
  BY <1>6, ReleasedType, ReleasedAdvances, OneAdvances DEF DiscardWorkspace
<1> QED
  BY <1>1, <1>2, <1>3, <1>4, <1>5, <1>6 DEF AreaStep

LEMMA AcquireAdvances ==
    ASSUME TypeOK, NEW p \in Procs, NEW a \in Areas, AcquireLease(p, a)
    PROVE  AllAdvance
<1>1. Exists(a)
  BY DEF AcquireLease, MayAttach
<1>2. ASSUME NEW r \in Records, Advances(record[a], r),
             record' = [record EXCEPT ![a] = [r EXCEPT !.lease = NewLease(p)]]
      PROVE  AllAdvance
  <2>1. [r EXCEPT !.lease = NewLease(p)] \in Records
    BY NewLeaseType DEF Records
  <2>2. Advances(record[a], [r EXCEPT !.lease = NewLease(p)])
    BY <1>2, StillAdvances
  <2> QED BY <1>2, <2>1, <2>2, OneAdvances
<1>3. CASE ResumeLease(p, a)
  <2>1. record' = [record EXCEPT ![a] = [record[a] EXCEPT !.lease = NewLease(p)]]
    BY <1>3 DEF ResumeLease
  <2>2. record[a] \in Records /\ Advances(record[a], record[a])
    BY <1>1, RecordFields DEF Records, Advances
  <2> QED BY <1>2, <2>1, <2>2
<1>4. CASE TakeLease(p, a)
  <2>1. record' = [record EXCEPT ![a] = [RebasedRecord(a) EXCEPT !.lease = NewLease(p)]]
    BY <1>4 DEF TakeLease
  <2> QED BY <1>1, <1>2, <2>1, RebasedRecordType, RebaseOutcomes
<1> QED
  BY <1>3, <1>4 DEF AcquireLease

LEMMA ReleaseAdvances ==
    ASSUME TypeOK, NEW p \in Procs, NEW dirty \in BOOLEAN,
           \/ ReleaseLease(p, dirty)
           \/ AbandonLease(p) /\ ~dirty
    PROVE  AllAdvance
<1>1. PICK a \in Areas : a = attached[p]
  BY DEF TypeOK, ReleaseLease, AbandonLease
<1>2. Exists(a) /\ record' = [record EXCEPT ![a] = Released(a, p, dirty)]
  BY <1>1 DEF ReleaseLease, AbandonLease
<1> QED
  BY <1>2, ReleasedType, ReleasedAdvances, OneAdvances

LEMMA StepAdvances ==
    ASSUME TypeOK, [Next]_vars
    PROVE  AllAdvance
<1>1. ASSUME NEW a \in Areas, AreaStep(a) PROVE AllAdvance
  BY <1>1, AreaStepAdvances
<1>2. ASSUME NEW p \in Procs, ProcStep(p) PROVE AllAdvance
  <2>1. ASSUME NEW a \in Areas, AcquireLease(p, a) PROVE AllAdvance
    BY <2>1, AcquireAdvances
  <2>2. ASSUME NEW a \in Areas, AttachConflicted(p, a) PROVE AllAdvance
    BY <2>2, RebasedRecordType, RebaseOutcomes, OneAdvances DEF AttachConflicted, MayAttach
  <2>3. ASSUME NEW dirty \in BOOLEAN, ReleaseLease(p, dirty) PROVE AllAdvance
    BY <2>3, ReleaseAdvances
  <2>4. CASE AbandonLease(p)
    BY <2>4, ReleaseAdvances
  <2>5. CASE ServiceExport(p) \/ ServicePromote(p)
    <3>1. PICK a \in Areas : AreaStep(a)
      BY <2>5 DEF TypeOK, ServiceExport, ServicePromote, AreaStep
    <3> QED BY <3>1, AreaStepAdvances
  <2>6. CASE Exit(p) \/ OrphanExit(p)
    BY <2>6, NoneChanges DEF Exit, OrphanExit, areaVars
  <2> QED
    BY <1>2, <2>1, <2>2, <2>3, <2>4, <2>5, <2>6 DEF ProcStep
<1>3. ASSUME NEW path \in Paths, NEW value \in Contents \cup {Missing}, EditStep(path, value)
      PROVE  AllAdvance
  BY <1>3, NoneChanges DEF EditStep, EditSource, EditOverlay, ImageExport, areaVars
<1>4. CASE UNCHANGED vars
  BY <1>4, NoneChanges DEF vars, areaVars
<1> QED
  BY <1>1, <1>2, <1>3, <1>4 DEF Next

\* While an area lives its generation never goes back, and a record that comes
\* to name another HEAD has a higher one, whoever made the commit.
THEOREM GenerationsFollowHeads == Spec => GenerationFollowsHead
<1>1. TypeOK /\ [Next]_vars =>
        [\A a \in Areas :
            Exists(a) /\ Exists(a)' =>
                /\ record'[a].generation >= record[a].generation
                /\ record'[a].headCommit # record[a].headCommit
                       => record'[a].generation > record[a].generation]_vars
  BY StepAdvances DEF AllAdvance, Advances
<1> QED
  BY <1>1, TypeCorrect, PTL DEF Spec, GenerationFollowsHead
-----------------------------------------------------------------------------
(* Commits.  A HEAD moves only to a commit made in the same step, and a record
   names a HEAD the area had or the commit just made; so no record, image or
   lease names a commit before it is made.                                    *)

CommitsAreNew ==
    /\ commits' \in {commits, commits + 1}
    /\ \A a \in Areas :
           /\ head'[a] # head[a] =>
                  IF Exists(a)' THEN head'[a] = commits + 1 /\ commits' = commits + 1
                  ELSE head'[a] = 0
           /\ Exists(a)' =>
                  \/ Exists(a) /\ record'[a].headCommit = record[a].headCommit
                  \/ record'[a].headCommit = head[a]
                  \/ record'[a].headCommit = commits + 1 /\ commits' = commits + 1

\* Only its reset removes an area.
AreasStay == \A a \in Areas : Exists(a) => Exists(a)'

\* One area commits, or none does.
Commits(a) ==
    \/ UNCHANGED <<commits, head>>
    \/ commits' = commits + 1 /\ head' = [head EXCEPT ![a] = commits + 1]

\* What a record may name.
Known(a, r) ==
    \/ Exists(a) /\ r.headCommit = record[a].headCommit
    \/ r.headCommit = head[a]
    \/ r.headCommit = commits + 1 /\ commits' = commits + 1

LEMMA OneCommits ==
    ASSUME TypeOK, NEW a \in Areas, NEW r \in Records, Commits(a), Known(a, r),
           record' = [record EXCEPT ![a] = r]
    PROVE  CommitsAreNew /\ AreasStay
<1>1. record'[a] = r /\ \A b \in Areas \ {a} : record'[b] = record[b]
  BY DEF TypeOK
<1>2. /\ commits' \in {commits, commits + 1}
      /\ \A b \in Areas : head'[b] # head[b] =>
             b = a /\ head'[b] = commits + 1 /\ commits' = commits + 1
  BY DEF Commits, TypeOK
<1>3. Exists(a)'
  BY <1>1, RecordAssumption DEF Exists
<1>4. ASSUME NEW b \in Areas, b # a, Exists(b)'
      PROVE  Exists(b) /\ record'[b].headCommit = record[b].headCommit
  BY <1>1, <1>4 DEF Exists
<1>5. AreasStay
  BY <1>1, <1>3 DEF AreasStay, Exists
<1> QED
  BY <1>1, <1>2, <1>3, <1>4, <1>5 DEF CommitsAreNew, Known

LEMMA NoneCommits ==
    ASSUME TypeOK, UNCHANGED <<record, head, commits>>
    PROVE  CommitsAreNew /\ AreasStay
BY DEF CommitsAreNew, AreasStay, Exists

LEMMA LeaseIsNoCommit ==
    ASSUME NEW a, NEW r \in Records, Known(a, r)
    PROVE  /\ Known(a, [r EXCEPT !.state = "promoted"])
           /\ \A l : Known(a, [r EXCEPT !.lease = l])
<1>1. "promoted" \in States
  BY DEF States
<1> QED
  BY <1>1, FieldUpdates DEF Known

LEMMA RebaseCommits ==
    ASSUME TypeOK, NEW a \in Areas, Exists(a), CommitRebase(a)
    PROVE  /\ RebasedRecord(a) \in Records
           /\ Known(a, RebasedRecord(a))
           /\ Commits(a)
<1>1. Commits(a)
  BY DEF CommitRebase, Commits
<1>2. RebasedRecord(a).headCommit =
        IF Replaces(a) /\ RebasedOverlay(a) # headTree[a] THEN commits + 1 ELSE head[a]
  <2>1. Replaces(a) => RebasedRecord(a).headCommit =
                         IF RebasedOverlay(a) = headTree[a] THEN head[a] ELSE commits + 1
    BY RebaseOutcomes, Zenon
  <2>2. ~Replaces(a) => RebasedRecord(a).headCommit = head[a]
    BY RebaseOutcomes, Zenon
  <2> QED BY <2>1, <2>2, Zenon
<1>3. Known(a, RebasedRecord(a))
  <2>1. Replaces(a) /\ RebasedOverlay(a) # headTree[a] => commits' = commits + 1
    BY DEF CommitRebase
  <2> QED BY <1>2, <2>1, Zenon DEF Known
<1> QED
  BY <1>1, <1>3, RebasedRecordType

LEMMA ReleasedIsKnown ==
    ASSUME TypeOK, NEW a \in Areas, Exists(a), NEW id, NEW dirty \in BOOLEAN
    PROVE  Known(a, Released(a, id, dirty))
<1> DEFINE known == Reconciled(a)
           s == Released(a, id, dirty)
<1>1. known \in Records /\ known.headCommit = head[a]
  BY ReconciledType, ReconciledFields
<1>2. \/ s = known
      \/ s = [known EXCEPT !.lease.pid = NoPid, !.lease.reserved = TRUE]
      \/ s = [known EXCEPT !.lease = NoLease]
  BY DEF Released
<1> HIDE DEF known, s
<1>3. s.headCommit = head[a]
  BY <1>1, <1>2 DEF Records
<1> QED
  BY <1>3 DEF s, Known

LEMMA AreaStepCommits ==
    ASSUME TypeOK, NEW a \in Areas,
           \/ CreateStaging(a) \/ RebaseStaging(a) \/ ReconcileStaging(a)
           \/ PromoteStaging(a) \/ DiscardWorkspace(a)
    PROVE  CommitsAreNew /\ AreasStay
<1>1. CASE CreateStaging(a)
  <2>1. [state |-> "ready", generation |-> 1, headCommit |-> commits + 1, lease |-> NoLease]
          \in Records
    BY DEF TypeOK, Records, States
  <2>2. PICK r \in Records :
            r = [state |-> "ready", generation |-> 1, headCommit |-> commits + 1, lease |-> NoLease]
    BY <2>1
  <2>3. Known(a, r) /\ Commits(a) /\ record' = [record EXCEPT ![a] = r]
    BY <1>1, <2>2 DEF CreateStaging, Known, Commits
  <2> QED BY <2>3, OneCommits
<1>2. CASE RebaseStaging(a)
  BY <1>2, RebaseCommits, OneCommits DEF RebaseStaging, RebaseTrees
<1>3. CASE ReconcileStaging(a)
  <2>1. Known(a, Reconciled(a)) /\ Commits(a) /\ Reconciled(a) \in Records
    BY <1>3, ReconciledType, ReconciledFields DEF ReconcileStaging, Known, Commits
  <2> QED BY <1>3, <2>1, OneCommits DEF ReconcileStaging
<1>4. CASE PromoteStaging(a)
  <2>1. /\ Exists(a) /\ CommitRebase(a)
        /\ record' = [record EXCEPT ![a] = [RebasedRecord(a) EXCEPT !.state = "promoted"]]
    BY <1>4 DEF PromoteStaging
  <2>2. RebasedRecord(a) \in Records /\ Known(a, RebasedRecord(a)) /\ Commits(a)
    BY <2>1, RebaseCommits
  <2>3. [RebasedRecord(a) EXCEPT !.state = "promoted"] \in Records
    BY <2>2, StateUpdate DEF States
  <2>4. Known(a, [RebasedRecord(a) EXCEPT !.state = "promoted"])
    BY <2>2, LeaseIsNoCommit
  <2> QED BY <2>1, <2>2, <2>3, <2>4, OneCommits
<1>5. CASE DiscardWorkspace(a)
  BY <1>5, ReleasedType, ReleasedIsKnown, OneCommits DEF DiscardWorkspace, Commits
<1> QED
  BY <1>1, <1>2, <1>3, <1>4, <1>5

LEMMA ResetCommits ==
    ASSUME TypeOK, NEW a \in Areas, ResetStaging(a)
    PROVE  CommitsAreNew
<1>1. /\ ~Exists(a)' /\ head'[a] = 0 /\ commits' = commits
      /\ \A b \in Areas \ {a} : record'[b] = record[b] /\ head'[b] = head[b]
  BY DEF ResetStaging, Exists, TypeOK
<1> QED
  BY <1>1 DEF CommitsAreNew, Exists

LEMMA AcquireCommits ==
    ASSUME TypeOK, NEW p \in Procs, NEW a \in Areas, AcquireLease(p, a)
    PROVE  CommitsAreNew /\ AreasStay
<1>1. Exists(a)
  BY DEF AcquireLease, MayAttach
<1>2. ASSUME NEW r \in Records, Known(a, r), Commits(a),
             record' = [record EXCEPT ![a] = [r EXCEPT !.lease = NewLease(p)]]
      PROVE  CommitsAreNew /\ AreasStay
  <2>1. [r EXCEPT !.lease = NewLease(p)] \in Records
    BY NewLeaseType DEF Records
  <2>2. Known(a, [r EXCEPT !.lease = NewLease(p)])
    BY <1>2, LeaseIsNoCommit
  <2> QED BY <1>2, <2>1, <2>2, OneCommits
<1>3. CASE ResumeLease(p, a)
  <2>1. /\ record' = [record EXCEPT ![a] = [record[a] EXCEPT !.lease = NewLease(p)]]
        /\ Commits(a)
    BY <1>3 DEF ResumeLease, Commits
  <2>2. record[a] \in Records /\ Known(a, record[a])
    BY <1>1, RecordFields DEF Known
  <2> QED BY <1>2, <2>1, <2>2
<1>4. CASE TakeLease(p, a)
  <2>1. /\ record' = [record EXCEPT ![a] = [RebasedRecord(a) EXCEPT !.lease = NewLease(p)]]
        /\ CommitRebase(a)
    BY <1>4 DEF TakeLease, RebaseTrees
  <2> QED BY <1>1, <1>2, <2>1, RebaseCommits
<1> QED
  BY <1>3, <1>4 DEF AcquireLease

LEMMA ProcStepCommits ==
    ASSUME TypeOK, NEW p \in Procs, ProcStep(p)
    PROVE  CommitsAreNew /\ AreasStay
<1>1. ASSUME NEW a \in Areas, AcquireLease(p, a) PROVE CommitsAreNew /\ AreasStay
  BY <1>1, AcquireCommits
<1>2. ASSUME NEW a \in Areas, AttachConflicted(p, a) PROVE CommitsAreNew /\ AreasStay
  BY <1>2, RebaseCommits, OneCommits DEF AttachConflicted, MayAttach, RebaseTrees
<1>3. ASSUME NEW dirty \in BOOLEAN, ReleaseLease(p, dirty) \/ (AbandonLease(p) /\ ~dirty)
      PROVE  CommitsAreNew /\ AreasStay
  <2>1. PICK a \in Areas : a = attached[p]
    BY <1>3 DEF TypeOK, ReleaseLease, AbandonLease
  <2>2. Exists(a) /\ record' = [record EXCEPT ![a] = Released(a, p, dirty)] /\ Commits(a)
    BY <1>3, <2>1 DEF ReleaseLease, AbandonLease, Commits
  <2> QED BY <2>2, ReleasedType, ReleasedIsKnown, OneCommits
<1>4. CASE ServiceExport(p) \/ ServicePromote(p)
  <2>1. PICK a \in Areas : ReconcileStaging(a) \/ PromoteStaging(a)
    BY <1>4 DEF TypeOK, ServiceExport, ServicePromote
  <2> QED BY <2>1, AreaStepCommits
<1>5. CASE Exit(p) \/ OrphanExit(p)
  BY <1>5, NoneCommits DEF Exit, OrphanExit, areaVars
<1>6. AbandonLease(p) => CommitsAreNew /\ AreasStay
  BY <1>3
<1> QED
  BY <1>1, <1>2, <1>3, <1>4, <1>5, <1>6 DEF ProcStep

LEMMA EditStepCommits ==
    ASSUME TypeOK, NEW path \in Paths, NEW value \in Contents \cup {Missing}, EditStep(path, value)
    PROVE  CommitsAreNew /\ AreasStay
<1>1. ASSUME NEW p \in Procs, ImageExport(p, path, value) PROVE CommitsAreNew /\ AreasStay
  <2>1. PICK a \in Areas : a = attached[p]
    BY <1>1 DEF TypeOK, ImageExport
  <2>2. Exists(a) /\ record' = record /\ Commits(a)
    BY <1>1, <2>1 DEF ImageExport, Commits
  <2>3. record[a] \in Records /\ Known(a, record[a]) /\ record' = [record EXCEPT ![a] = record[a]]
    BY <2>2, RecordFields DEF Known, TypeOK
  <2> QED BY <2>2, <2>3, OneCommits
<1>2. CASE EditSource(path, value) \/ \E a \in Areas : EditOverlay(a, path, value)
  BY <1>2, NoneCommits DEF EditSource, EditOverlay, areaVars
<1> QED
  BY <1>1, <1>2 DEF EditStep

LEMMA StepCommits ==
    ASSUME TypeOK, [Next]_vars
    PROVE  CommitsAreNew
<1>1. CASE UNCHANGED vars
  BY <1>1, NoneCommits DEF vars, areaVars
<1> QED
  BY <1>1, AreaStepCommits, ResetCommits, ProcStepCommits, EditStepCommits DEF Next, AreaStep

\* No HEAD, and no record, names a commit that has not been made.
CommitsMade ==
    \A a \in Areas :
        /\ head[a] <= commits
        /\ Exists(a) => record[a].headCommit <= commits

CommitInv == TypeOK /\ CommitsMade

LEMMA CommitInit == Init => CommitInv
<1> SUFFICES ASSUME Init PROVE CommitInv
  OBVIOUS
<1>1. TypeOK
  BY TypeInit
<1> QED
  BY <1>1 DEF Init, CommitInv, CommitsMade, Exists

LEMMA CommitStep == CommitInv /\ [Next]_vars => CommitInv'
<1> SUFFICES ASSUME CommitInv, [Next]_vars PROVE CommitInv'
  OBVIOUS
<1>1. TypeOK /\ TypeOK' /\ CommitsAreNew
  BY TypeStep, StepCommits DEF CommitInv
<1>2. ASSUME NEW a \in Areas
      PROVE  head'[a] <= commits' /\ (Exists(a)' => record'[a].headCommit <= commits')
  <2>1. /\ commits \in Nat /\ head[a] \in Nat /\ head[a] <= commits
        /\ Exists(a) => record[a].headCommit \in Nat /\ record[a].headCommit <= commits
    BY <1>1, RecordFields DEF TypeOK, CommitInv, CommitsMade, Records
  <2> QED BY <1>1, <2>1 DEF CommitsAreNew
<1> QED
  BY <1>1, <1>2 DEF CommitInv, CommitsMade
-----------------------------------------------------------------------------
(* Attachment and promotion.                                                  *)

LEMMA TakeLeaseIsCurrent ==
    ASSUME TypeOK, NEW p \in Procs, NEW a \in Areas, Exists(a), TakeLease(p, a)
    PROVE  /\ base'[a] = src
           /\ record'[a].headCommit = head'[a]
           /\ \A path \in Paths :
                  overlay[a][path] = base[a][path] => overlay'[a][path] = src[path]
<1>1. RebaseTrees(a) /\ RebasedRecord(a).state # "conflicted"
  BY DEF TakeLease
<1>2. record' = [record EXCEPT ![a] = [RebasedRecord(a) EXCEPT !.lease = NewLease(p)]]
  BY DEF TakeLease
<1>3. record'[a].headCommit = RebasedRecord(a).headCommit
  BY <1>2, RebasedRecordType, FieldUpdates DEF TypeOK
<1>4. base'[a] = RebasedBase(a) /\ overlay'[a] = RebasedOverlay(a)
  BY <1>1 DEF RebaseTrees, TypeOK
<1>5. base[a] \in Trees /\ overlay[a] \in Trees /\ src \in Trees
  BY DEF TypeOK
<1>6. CASE base[a] = src
  <2>1. ~Replaces(a) /\ RebasedRecord(a).headCommit = head[a]
    BY <1>6, RebaseOutcomes
  <2>2. head' = head
    BY <1>1, <2>1 DEF RebaseTrees, CommitRebase
  <2> QED BY <1>3, <1>4, <1>6, <2>1, <2>2 DEF RebasedBase, RebasedOverlay
<1>7. CASE base[a] # src
  <2>1. Replaces(a)
    BY <1>1, <1>7, RebaseOutcomes
  <2>2. /\ Conflicts(base[a], overlay[a], src) = {}
        /\ RebasedOverlay(a) = Merge(base[a], overlay[a], src)
        /\ RebasedRecord(a).headCommit =
              IF RebasedOverlay(a) = headTree[a] THEN head[a] ELSE commits + 1
    BY <2>1, RebaseOutcomes
  <2>3. head'[a] = RebasedRecord(a).headCommit
    BY <1>1, <2>1, <2>2 DEF RebaseTrees, CommitRebase, TypeOK
  <2>4. \A path \in Paths :
            overlay[a][path] = base[a][path] => overlay'[a][path] = src[path]
    BY <1>4, <1>5, <2>2, MergeKeepsBothSides
  <2> QED BY <1>3, <1>4, <2>1, <2>3, <2>4 DEF RebasedBase
<1> QED
  BY <1>6, <1>7

\* An image that does not resume a reservation works on all of the current src/
\* and under a record that knows the overlay's HEAD.
THEOREM AttachmentsAreCurrent == Spec => AttachmentIsCurrent
<1>1. TypeOK /\ [Next]_vars =>
        [\A p \in Procs, a \in Areas :
            AcquireLease(p, a) /\ ~Resumes(p, a) =>
                /\ base'[a] = src
                /\ record'[a].headCommit = head'[a]
                /\ \A path \in Paths :
                       overlay[a][path] = base[a][path] => overlay'[a][path] = src[path]]_vars
  <2> SUFFICES ASSUME TypeOK, NEW p \in Procs, NEW a \in Areas,
                      AcquireLease(p, a), ~Resumes(p, a)
               PROVE  /\ base'[a] = src
                      /\ record'[a].headCommit = head'[a]
                      /\ \A path \in Paths :
                             overlay[a][path] = base[a][path] => overlay'[a][path] = src[path]
    OBVIOUS
  <2>1. Exists(a) /\ TakeLease(p, a)
    BY DEF AcquireLease, MayAttach, ResumeLease
  <2> QED BY <2>1, TakeLeaseIsCurrent
<1> QED
  BY <1>1, TypeCorrect, PTL DEF Spec, AttachmentIsCurrent

LEMMA PromotionStep ==
    ASSUME TypeOK, NEW a \in Areas, PromoteStaging(a), NEW path \in Differing(src, src')
    PROVE  /\ path \in OwnedPaths
           /\ base[a][path] = src[path]
           /\ overlay[a][path] = src'[path]
<1>1. /\ Exists(a) /\ src' = RebasedOverlay(a)
      /\ RebasedRecord(a).state # "conflicted"
      /\ Prohibited(RebasedBase(a), RebasedOverlay(a)) = {}
  BY DEF PromoteStaging, Promotable
<1>2. path \in Paths /\ src[path] # RebasedOverlay(a)[path]
  BY <1>1 DEF Differing
<1>3. base[a] = src \/ Replaces(a)
  BY <1>1, RebaseOutcomes
<1>4. RebasedBase(a) = src
  BY <1>3 DEF RebasedBase
<1>5. path \in OwnedPaths
  BY <1>1, <1>2, <1>4 DEF Prohibited, Differing
<1>6. CASE base[a] = src
  <2>1. RebasedOverlay(a) = overlay[a]
    BY <1>1, <1>6, RebaseOutcomes DEF RebasedOverlay
  <2> QED BY <1>1, <1>5, <1>6, <2>1
<1>7. CASE Replaces(a)
  <2>1. /\ Conflicts(base[a], overlay[a], src) = {}
        /\ RebasedOverlay(a) = Merge(base[a], overlay[a], src)
    BY <1>1, <1>7, RebaseOutcomes
  <2>2. base[a] \in Trees /\ overlay[a] \in Trees /\ src \in Trees
    BY DEF TypeOK
  <2>3. overlay[a][path] # base[a][path]
    BY <1>2, <2>1, <2>2, MergeKeepsBothSides
  <2>4. RebasedOverlay(a)[path] = overlay[a][path]
    BY <1>2, <2>1, <2>2, <2>3, MergeKeepsBothSides
  <2>5. base[a][path] = src[path]
    BY <1>2, <2>1, <2>3, <2>4 DEF Conflicts, Clashes
  <2> QED BY <1>1, <1>5, <2>4, <2>5
<1> QED
  BY <1>3, <1>6, <1>7

LEMMA SourceChanges ==
    ASSUME TypeOK, [Next]_vars, src' # src, edits' = edits
    PROVE  \E a \in Areas : PromoteStaging(a)
<1>1. ASSUME NEW a \in Areas, AreaStep(a) PROVE PromoteStaging(a)
  BY <1>1 DEF AreaStep, CreateStaging, ResetStaging, RebaseStaging, ReconcileStaging,
              DiscardWorkspace
<1>2. ASSUME NEW p \in Procs, ProcStep(p) PROVE \E a \in Areas : PromoteStaging(a)
  <2>1. ServicePromote(p)
    BY <1>2 DEF ProcStep, AcquireLease, AttachConflicted, ReleaseLease, AbandonLease,
                ServiceExport, ReconcileStaging, Exit, OrphanExit
  <2> QED BY <2>1 DEF ServicePromote, TypeOK
<1>3. ASSUME NEW path \in Paths, NEW value \in Contents \cup {Missing}
      PROVE  ~EditStep(path, value)
  <2>1. edits + 1 # edits
    BY DEF TypeOK
  <2>2. ~EditSource(path, value)
    BY <2>1 DEF EditSource
  <2>3. \A a \in Areas : ~EditOverlay(a, path, value)
    BY DEF EditOverlay
  <2>4. \A p \in Procs : ~ImageExport(p, path, value)
    BY DEF ImageExport
  <2> QED BY <2>2, <2>3, <2>4 DEF EditStep
<1>4. ~UNCHANGED vars
  BY DEF vars
<1> QED
  BY <1>1, <1>2, <1>3, <1>4 DEF Next

\* A promotion, from whatever src/, base and overlay it starts, replaces only
\* owned paths that src/ still has as the area's base records them, and only by
\* what is staged there.
THEOREM PromotionsOverwriteNothing == Spec => PromotionOverwritesNothing
<1>1. TypeOK /\ [Next]_vars =>
        [src' # src /\ edits' = edits =>
            \E a \in Areas :
                \A path \in Differing(src, src') :
                    /\ path \in OwnedPaths
                    /\ base[a][path] = src[path]
                    /\ overlay[a][path] = src'[path]]_vars
  <2> SUFFICES ASSUME TypeOK, [Next]_vars, src' # src, edits' = edits
               PROVE  \E a \in Areas :
                          \A path \in Differing(src, src') :
                              /\ path \in OwnedPaths
                              /\ base[a][path] = src[path]
                              /\ overlay[a][path] = src'[path]
    OBVIOUS
  <2>1. PICK a \in Areas : PromoteStaging(a)
    BY SourceChanges
  <2> QED BY <2>1, PromotionStep
<1> QED
  BY <1>1, TypeCorrect, PTL DEF Spec, PromotionOverwritesNothing
-----------------------------------------------------------------------------
(* Staged work.                                                               *)

\* An area that does not exist has empty trees: creating one, the only step that
\* fills them without a rebase, finds nothing staged.
AbsentIsEmpty ==
    \A a \in Areas : ~Exists(a) => base[a] = EmptyTree /\ overlay[a] = EmptyTree

WorkInv == TypeOK /\ AbsentIsEmpty

\* Steps that fill an area's trees leave it existing.
LEMMA TreesOfExisting ==
    ASSUME TypeOK, AbsentIsEmpty, NEW a \in Areas, Exists(a)',
           \A b \in Areas \ {a} :
               /\ Exists(b)' = Exists(b)
               /\ base'[b] = base[b] /\ overlay'[b] = overlay[b]
    PROVE  AbsentIsEmpty'
BY DEF AbsentIsEmpty

LEMMA RecordsExist ==
    ASSUME TypeOK, NEW a \in Areas, NEW r \in Records, record' = [record EXCEPT ![a] = r]
    PROVE  Exists(a)' /\ \A b \in Areas \ {a} : Exists(b)' = Exists(b)
BY RecordAssumption DEF Exists, TypeOK

LEMMA AreaStepKeepsEmpty ==
    ASSUME TypeOK, AbsentIsEmpty, NEW a \in Areas, AreaStep(a)
    PROVE  AbsentIsEmpty'
<1>1. ASSUME NEW r \in Records, record' = [record EXCEPT ![a] = r], ~ResetStaging(a)
      PROVE  AbsentIsEmpty'
  <2>1. \A b \in Areas \ {a} : base'[b] = base[b] /\ overlay'[b] = overlay[b]
    BY <1>1 DEF TypeOK, AreaStep, CreateStaging, RebaseStaging, RebaseTrees,
                ReconcileStaging, PromoteStaging, DiscardWorkspace
  <2> QED BY <1>1, <2>1, RecordsExist, TreesOfExisting
<1>2. CASE ResetStaging(a)
  BY <1>2 DEF ResetStaging, AbsentIsEmpty, Exists, TypeOK
<1>3. CASE CreateStaging(a)
  <2>1. [state |-> "ready", generation |-> 1, headCommit |-> commits + 1, lease |-> NoLease]
          \in Records
    BY DEF TypeOK, Records, States
  <2> QED BY <1>1, <1>2, <1>3, <2>1 DEF CreateStaging
<1>4. CASE RebaseStaging(a)
  BY <1>1, <1>2, <1>4, RebasedRecordType DEF RebaseStaging
<1>5. CASE ReconcileStaging(a)
  BY <1>1, <1>2, <1>5, ReconciledType DEF ReconcileStaging
<1>6. CASE PromoteStaging(a)
  <2>1. [RebasedRecord(a) EXCEPT !.state = "promoted"] \in Records
    BY <1>6, RebasedRecordType, StateUpdate DEF PromoteStaging, States
  <2> QED BY <1>1, <1>2, <1>6, <2>1 DEF PromoteStaging
<1>7. CASE DiscardWorkspace(a)
  BY <1>1, <1>2, <1>7, ReleasedType DEF DiscardWorkspace
<1> QED
  BY <1>2, <1>3, <1>4, <1>5, <1>6, <1>7 DEF AreaStep

LEMMA ProcStepKeepsEmpty ==
    ASSUME TypeOK, TypeOK', AbsentIsEmpty, NEW p \in Procs, ProcStep(p)
    PROVE  AbsentIsEmpty'
<1>1. ASSUME NEW a \in Areas, AcquireLease(p, a) \/ AttachConflicted(p, a)
      PROVE  AbsentIsEmpty'
  <2>1. Exists(a)' /\ \A b \in Areas \ {a} : Exists(b)' = Exists(b)
    <3>1. CASE AcquireLease(p, a)
      BY <3>1, AcquireEffect
    <3>2. CASE AttachConflicted(p, a)
      BY <3>2, RebasedRecordType, RecordsExist DEF AttachConflicted, MayAttach
    <3> QED BY <1>1, <3>1, <3>2
  <2>2. \A b \in Areas \ {a} : base'[b] = base[b] /\ overlay'[b] = overlay[b]
    BY <1>1 DEF TypeOK, AcquireLease, ResumeLease, TakeLease, AttachConflicted, RebaseTrees
  <2> QED BY <2>1, <2>2, TreesOfExisting
<1>2. ASSUME NEW dirty \in BOOLEAN, ReleaseLease(p, dirty) \/ (AbandonLease(p) /\ ~dirty)
      PROVE  AbsentIsEmpty'
  <2>1. PICK a \in Areas : a = attached[p]
    BY <1>2 DEF TypeOK, ReleaseLease, AbandonLease
  <2>2. Exists(a) /\ record' = [record EXCEPT ![a] = Released(a, p, dirty)]
        /\ UNCHANGED <<base, overlay>>
    BY <1>2, <2>1 DEF ReleaseLease, AbandonLease
  <2> QED BY <2>2, ReleasedType, RecordsExist, TreesOfExisting
<1>3. CASE ServiceExport(p) \/ ServicePromote(p)
  <2>1. PICK a \in Areas : AreaStep(a)
    BY <1>3 DEF TypeOK, ServiceExport, ServicePromote, AreaStep
  <2> QED BY <2>1, AreaStepKeepsEmpty
<1>4. CASE Exit(p) \/ OrphanExit(p)
  BY <1>4 DEF Exit, OrphanExit, areaVars, AbsentIsEmpty, Exists
<1> QED
  BY <1>1, <1>2, <1>3, <1>4 DEF ProcStep

LEMMA EditStepKeepsEmpty ==
    ASSUME TypeOK, AbsentIsEmpty, NEW path \in Paths, NEW value, EditStep(path, value)
    PROVE  AbsentIsEmpty'
<1>1. record' = record /\ base' = base
  BY DEF EditStep, EditSource, EditOverlay, ImageExport, areaVars
<1>2. ASSUME NEW a \in Areas, ~Exists(a) PROVE overlay'[a] = overlay[a]
  BY <1>2 DEF TypeOK, EditStep, EditSource, EditOverlay, ImageExport, areaVars
<1> QED
  BY <1>1, <1>2 DEF AbsentIsEmpty, Exists

LEMMA WorkInvariant == Spec => []WorkInv
<1>1. Init => WorkInv
  BY TypeInit DEF Init, WorkInv, AbsentIsEmpty
<1>2. WorkInv /\ [Next]_vars => WorkInv'
  <2> SUFFICES ASSUME WorkInv, [Next]_vars PROVE WorkInv'
    OBVIOUS
  <2>1. TypeOK /\ TypeOK' /\ AbsentIsEmpty
    BY TypeStep DEF WorkInv
  <2>2. CASE UNCHANGED vars
    BY <2>1, <2>2 DEF vars, areaVars, WorkInv, AbsentIsEmpty, Exists
  <2> QED
    BY <2>1, <2>2, AreaStepKeepsEmpty, ProcStepKeepsEmpty, EditStepKeepsEmpty DEF Next, WorkInv
<1> QED
  BY <1>1, <1>2, PTL DEF Spec

\* What a rebase leaves of an overlay has everything staged in it.
LEMMA RebaseKeepsStaged ==
    ASSUME TypeOK, NEW a \in Areas, Exists(a), NEW path \in Paths,
           overlay[a][path] # base[a][path]
    PROVE  RebasedOverlay(a)[path] = overlay[a][path]
<1>1. CASE Replaces(a)
  <2>1. base[a] \in Trees /\ overlay[a] \in Trees /\ src \in Trees
    BY DEF TypeOK
  <2> QED BY <1>1, <2>1, RebaseOutcomes, MergeKeepsBothSides
<1>2. CASE ~Replaces(a)
  BY <1>2 DEF RebasedOverlay
<1> QED
  BY <1>1, <1>2

LEMMA AreaStepKeepsStaged ==
    ASSUME WorkInv, NEW b \in Areas, AreaStep(b),
           NEW a \in Areas, NEW path \in Paths,
           overlay[a][path] # base[a][path],
           overlay'[a][path] # overlay[a][path]
    PROVE  ResetStaging(a)
<1>0. TypeOK /\ AbsentIsEmpty
  BY DEF WorkInv
<1>1. b = a
  BY <1>0 DEF TypeOK, AreaStep, CreateStaging, ResetStaging, RebaseStaging, RebaseTrees,
              ReconcileStaging, PromoteStaging, DiscardWorkspace
<1>2. Exists(a)
  BY <1>0 DEF AbsentIsEmpty
<1>3. overlay'[a] # RebasedOverlay(a)
  BY <1>0, <1>2, RebaseKeepsStaged
<1>4. ~RebaseStaging(a) /\ ~PromoteStaging(a)
  BY <1>0, <1>3 DEF TypeOK, RebaseStaging, RebaseTrees, PromoteStaging
<1> QED
  BY <1>1, <1>2, <1>4 DEF AreaStep, CreateStaging, ReconcileStaging, DiscardWorkspace

LEMMA ProcStepKeepsStaged ==
    ASSUME WorkInv, NEW p \in Procs, ProcStep(p),
           NEW a \in Areas, NEW path \in Paths,
           overlay[a][path] # base[a][path],
           overlay'[a][path] # overlay[a][path]
    PROVE  ResetStaging(a)
<1>0. TypeOK /\ AbsentIsEmpty
  BY DEF WorkInv
<1>1. ASSUME NEW b \in Areas, AcquireLease(p, b) \/ AttachConflicted(p, b) PROVE FALSE
  <2>1. Exists(b)
    BY <1>1 DEF AcquireLease, AttachConflicted, MayAttach
  <2>2. b = a /\ overlay'[b] = RebasedOverlay(b)
    BY <1>0, <1>1 DEF TypeOK, AcquireLease, ResumeLease, TakeLease, AttachConflicted, RebaseTrees
  <2> QED BY <1>0, <2>1, <2>2, RebaseKeepsStaged
<1>2. CASE ServiceExport(p) \/ ServicePromote(p)
  <2>1. PICK b \in Areas : AreaStep(b)
    BY <1>0, <1>2 DEF TypeOK, ServiceExport, ServicePromote, AreaStep
  <2> QED BY <2>1, AreaStepKeepsStaged
<1>3. ~AbandonLease(p) /\ ~Exit(p) /\ ~OrphanExit(p)
  BY DEF AbandonLease, Exit, OrphanExit, areaVars
<1>4. \A dirty \in BOOLEAN : ~ReleaseLease(p, dirty)
  BY DEF ReleaseLease
<1> QED
  BY <1>1, <1>2, <1>3, <1>4 DEF ProcStep

\* What is staged in an area is lost only by removing the area or by editing it:
\* no rebase, attachment, release or promotion drops it.
THEOREM StagedWorkSurvives == Spec => StagedWorkIsKept
<1>1. WorkInv /\ [Next]_vars =>
        [\A a \in Areas, path \in Paths :
            /\ overlay[a][path] # base[a][path]
            /\ overlay'[a][path] # overlay[a][path]
            => \/ ResetStaging(a)
               \/ \E value \in Contents \cup {Missing} : EditStep(path, value)]_vars
  <2> SUFFICES ASSUME WorkInv, [Next]_vars, NEW a \in Areas, NEW path \in Paths,
                      overlay[a][path] # base[a][path],
                      overlay'[a][path] # overlay[a][path]
               PROVE  \/ ResetStaging(a)
                      \/ \E value \in Contents \cup {Missing} : EditStep(path, value)
    OBVIOUS
  <2>1. ASSUME NEW other \in Paths, NEW value \in Contents \cup {Missing}, EditStep(other, value)
        PROVE  EditStep(path, value)
    <3>1. PICK b \in Areas : overlay' = [overlay EXCEPT ![b] = [overlay[b] EXCEPT ![other] = value]]
      <4>1. CASE EditSource(other, value)
        BY <4>1 DEF EditSource, areaVars
      <4>2. CASE \E b \in Areas : EditOverlay(b, other, value)
        BY <4>2 DEF EditOverlay
      <4>3. CASE \E p \in Procs : ImageExport(p, other, value)
        BY <4>3 DEF ImageExport, WorkInv, TypeOK
      <4> QED BY <2>1, <4>1, <4>2, <4>3 DEF EditStep
    <3>2. overlay \in [Areas -> Trees]
      BY DEF WorkInv, TypeOK
    <3>3. other = path
      BY <3>1, <3>2 DEF Trees
    <3> QED BY <2>1, <3>3
  <2>2. ~UNCHANGED vars
    BY DEF vars, areaVars
  <2> QED
    BY <2>1, <2>2, AreaStepKeepsStaged, ProcStepKeepsStaged DEF Next
<1> QED
  BY <1>1, WorkInvariant, PTL DEF Spec, StagedWorkIsKept
=============================================================================
