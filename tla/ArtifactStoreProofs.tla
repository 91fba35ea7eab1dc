------------------------ MODULE ArtifactStoreProofs ------------------------
(* Proofs about the artifact store, for any builders, recipes and files,    *)
(* any number of edits, kills, collections and prunes: the types, who holds *)
(* which key, and that what is executed follows what was resolved.          *)
EXTENDS ArtifactStore, SequenceTheorems, WellFoundedInduction, TLAPS

----------------------------------------------------------------------------
(* Recipes and keys.                                                       *)

LEMMA RecipesAreSteps ==
    ASSUME NEW r \in Offered
    PROVE  /\ r \in Seq(Steps) /\ Len(r) \in Nat /\ DOMAIN r = 1 .. Len(r)
           /\ Len(r) >= 1 /\ r[Len(r)].checkpoint
           /\ \A i \in 1 .. Len(r) : r[i] \in Steps /\ r[i].reads \in Files
<1>1. r \in Seq(Steps) /\ r # <<>> /\ r[Len(r)].checkpoint
  BY OfferedAreValid DEF Valid
<1>2. Len(r) \in Nat /\ DOMAIN r = 1 .. Len(r) /\ Len(r) # 0
  BY <1>1, LenProperties, EmptySeq
<1>3. \A i \in 1 .. Len(r) : r[i] \in Steps
  BY <1>1, <1>2, ElementOfSeq
<1>4. \A i \in 1 .. Len(r) : r[i].reads \in Files
  BY <1>3 DEF Steps
<1> QED BY <1>1, <1>2, <1>3, <1>4

LEMMA OneStepIsPinned ==
    ASSUME NEW r \in Offered, NEW i \in 1 .. Len(r), NEW j \in 1 .. Len(r),
           r[i].pinned, r[j].pinned
    PROVE  i = j
<1>1. i \in DOMAIN r /\ j \in DOMAIN r
  BY RecipesAreSteps
<1>2. r[i].role = r[j].role
  BY <1>1, OneRoleIsPinned
<1> QED BY <1>1, <1>2, OfferedAreValid DEF Valid, DistinctRoles

LEMMA PinnedByRole ==
    ASSUME NEW r \in Offered, NEW i \in 1 .. Len(r), Pinned(r[i].role)
    PROVE  r[i].pinned
<1>1. i \in DOMAIN r
  BY RecipesAreSteps
<1>2. PICK s \in Offered : \E j \in DOMAIN s : s[j].role = r[i].role /\ s[j].pinned
  BY DEF Pinned
<1>3. PICK j \in DOMAIN s : s[j].role = r[i].role /\ s[j].pinned
  BY <1>2
<1> QED BY <1>1, <1>3, OneRoleIsPinned

Contents == 0 .. MaxEdits

LEMMA MaterialsOfSteps ==
    ASSUME NEW r \in Offered, NEW i \in 1 .. Len(r), NEW c \in Contents
    PROVE  Material(r[i], c) \in Materials
<1>1. i \in DOMAIN r
  BY RecipesAreSteps
<1>2. Material(r[i], c) \in {Material(r[j], d) : j \in DOMAIN r, d \in 0 .. MaxEdits}
  BY <1>1 DEF Contents
<1> QED BY <1>2 DEF Materials

\* A key is the sequence of the materials of its prefix.
LEMMA KeysAreMaterials ==
    ASSUME NEW r \in Offered, NEW contents \in Seq(Contents),
           NEW n \in 0 .. Len(r), n <= Len(contents)
    PROVE  /\ Key(r, n, contents) \in Seq(Materials)
           /\ Len(Key(r, n, contents)) = n
           /\ DOMAIN Key(r, n, contents) = 1 .. n
           /\ \A j \in 1 .. n : Key(r, n, contents)[j] = Material(r[j], contents[j])
<1>1. n \in Nat /\ Len(r) \in Nat /\ Len(contents) \in Nat
  BY RecipesAreSteps, LenProperties
<1>2. \A j \in 1 .. n : j \in 1 .. Len(r) /\ j \in 1 .. Len(contents)
  BY <1>1
<1>3. \A j \in 1 .. n : contents[j] \in Contents
  BY <1>2, ElementOfSeq
<1>4. \A j \in 1 .. n : Material(r[j], contents[j]) \in Materials
  BY <1>2, <1>3, MaterialsOfSteps
<1>5. Key(r, n, contents) = [j \in 1 .. n |-> Material(r[j], contents[j])]
  BY DEF Key
<1> HIDE DEF Key, Materials
<1>6. Key(r, n, contents) \in Seq(Materials) /\ Len(Key(r, n, contents)) = n
  BY <1>1, <1>4, <1>5, IsASeq
<1> QED BY <1>5, <1>6

LEMMA ChainsAreKeys ==
    ASSUME NEW r \in Offered, NEW contents \in Seq(Contents), Len(contents) = Len(r)
    PROVE  Boundaries(r, Len(r), contents) \subseteq Seq(Materials)
<1>1. \A j \in 1 .. Len(r) : Key(r, j, contents) \in Seq(Materials)
  BY KeysAreMaterials, RecipesAreSteps
<1> QED BY <1>1 DEF Boundaries

LEMMA LeastNumber ==
    ASSUME NEW T, T \subseteq Nat, T # {}
    PROVE  \E m \in T : \A k \in T : m <= k
<1> DEFINE R == OpToRel(<, Nat)
<1>1. \A x, y \in Nat : x < y => <<x, y>> \in R
  BY DEF OpToRel
<1>2. PICK m \in T : \A k \in T : ~ (<<k, m>> \in R)
  <2>1. IsWellFoundedOn(R, Nat)
    BY NatLessThanWellFounded, Zenon
  <2> HIDE DEF R
  <2> QED BY <2>1, WFMin, Zenon
<1> HIDE DEF R
<1>3. \A k \in T : ~(k < m)
  BY <1>1, <1>2
<1> QED BY <1>3

LEMMA BoundaryIsLater ==
    ASSUME NEW b \in Builders, plan[b].recipe \in Offered, Later(b) # {}
    PROVE  Boundary(b) \in Later(b) /\ Boundary(b) \in 1 .. Len(plan[b].recipe)
<1>1. Later(b) \subseteq 1 .. Len(plan[b].recipe)
  BY RecipesAreSteps DEF Later
<1>2. \E i \in Later(b) : \A j \in Later(b) : i <= j
  BY <1>1, LeastNumber
<1> QED BY <1>1, <1>2 DEF Boundary

----------------------------------------------------------------------------
(* The invariant.                                                          *)

Plans == [recipe : Offered \cup {<<>>}, contents : Seq(Contents),
          commit : [Files -> Contents], attempts : 0 .. Attempts]
Works == [previous : Seq(Materials), payload : Seq(Materials),
          space : {"none", "there", "torn", "gone"}, era : Nat]
Artifacts == [payload : Seq(Materials), torn : BOOLEAN, whole : BOOLEAN,
              chain : SUBSET Seq(Materials)]

Types ==
    /\ tree \in [Files -> Contents] /\ edits \in Contents
    /\ \A f \in Files : tree[f] <= edits
    /\ phase \in [Builders -> Phases]
    /\ plan \in [Builders -> Plans]
    /\ work \in [Builders -> Works]
    /\ era \in Nat /\ faults \in 0 .. MaxFaults /\ era <= faults
    /\ \A k \in DOMAIN store : k \in Seq(Materials) /\ store[k] \in Artifacts
    /\ \A n \in DOMAIN refs : refs[n] \in Seq(Materials)

Reading == {"resolving", "reading", "captured"}
Building == {"waiting", "copying", "running"}
Owning == {"copying", "running"}

Complete(b) == Len(plan[b].contents) = Len(plan[b].recipe)

\* The first n contents, as far as they are pinned, are those of the commit.
Agrees(b, n) ==
    \A i \in 1 .. n : plan[b].recipe[i].pinned =>
        plan[b].contents[i] = plan[b].commit[plan[b].recipe[i].reads]

\* What a builder knows of its recipe, phase by phase.  A tree only gains
\* newer contents, so one that is the same at both ends was never another.
Resolves(b) ==
    LET n == Len(plan[b].contents)
        r == plan[b].recipe
    IN  /\ phase[b] \in Reading \cup Building => r \in Offered /\ n <= Len(r)
        /\ phase[b] \in {"resolving"} \cup Building => Agrees(b, n)
        /\ phase[b] = "reading" =>
              /\ n + 1 <= Len(r) /\ r[n + 1].pinned
              /\ Agrees(b, n)
              /\ \A f \in Files : plan[b].commit[f] <= tree[f]
        /\ phase[b] = "captured" =>
              /\ n >= 1 /\ r[n].pinned
              /\ Agrees(b, n - 1)
              /\ plan[b].commit[r[n].reads] <= plan[b].contents[n]
              /\ plan[b].contents[n] <= tree[r[n].reads]
        /\ phase[b] \in Building => Complete(b) /\ Later(b) # {}

\* A payload has executed a prefix of the recipe.
Executes(b, payload) ==
    \A i \in 1 .. Len(payload) :
        /\ payload[i].role = plan[b].recipe[i].role
        /\ payload[i].version = plan[b].recipe[i].version
        /\ plan[b].recipe[i].pinned => payload[i].content = plan[b].contents[i]

\* What a builder has made so far.
Makes(b) ==
    /\ phase[b] = "idle" =>
          plan[b].contents = <<>> /\ work[b].previous = <<>> /\ work[b].payload = <<>>
    /\ phase[b] \in {"idle"} \cup Reading \cup {"waiting"} => work[b].space = "none"
    /\ phase[b] \in {"reading", "captured"} => work[b].previous = <<>>
    /\ phase[b] \in {"resolving"} \cup Building =>
          \/ work[b].previous = <<>>
          \/ /\ Complete(b)
             /\ \E i \in 1 .. Len(plan[b].recipe) :
                   work[b].previous = Key(plan[b].recipe, i, plan[b].contents)
    /\ phase[b] \in Reading \cup {"waiting", "copying"} => work[b].payload = <<>>
    /\ phase[b] = "running" =>
          Len(work[b].payload) <= Boundary(b) /\ Executes(b, work[b].payload)

\* Whoever works on a key has locked the file of its era.
Holds(b) == phase[b] \in Owning => <<Target(b), work[b].era, b>> \in locks

Builds(b) == Resolves(b) /\ Makes(b) /\ Holds(b) /\ work[b].era <= era

Inv == Types /\ PayloadFollowsKey /\ \A b \in Builders : Builds(b)

LEMMA InvInit == Init => Inv
<1> SUFFICES ASSUME Init PROVE Inv
  OBVIOUS
<1>1. <<>> \in Seq(Materials) /\ <<>> \in Seq(Contents) /\ 0 \in Contents
  BY EmptySeq, BoundsAreNumbers DEF Contents
<1>2. NoPlan \in Plans /\ NoWork \in Works
  BY <1>1 DEF NoPlan, NoWork, Plans, Works, Attempts
<1>3. DOMAIN store = {} /\ DOMAIN refs = {}
  BY EmptySeq DEF Init
<1>4. Types
  BY <1>1, <1>2, <1>3, BoundsAreNumbers DEF Init, Types, Phases, Contents
<1>5. PayloadFollowsKey
  BY <1>3 DEF PayloadFollowsKey
<1>6. ASSUME NEW b \in Builders PROVE Builds(b)
  BY <1>1, BoundsAreNumbers DEF Init, Builds, Resolves, Makes, Holds, Reading, Building, Owning,
     NoPlan, NoWork
<1> QED BY <1>4, <1>5, <1>6 DEF Inv

\* A builder that does nothing, beside others that change no tree.
LEMMA OthersKeep ==
    ASSUME NEW b \in Builders, Builds(b), tree' = tree, era <= era', era \in Nat, era' \in Nat,
           work[b].era \in Nat,
           phase'[b] = phase[b], plan'[b] = plan[b], work'[b] = work[b],
           \A key, e : <<key, e, b>> \in locks => <<key, e, b>> \in locks'
    PROVE  Builds(b)'
<1>1. Resolves(b)'
  BY DEF Builds, Resolves, Complete, Agrees, Later
<1>2. Makes(b)'
  BY DEF Builds, Makes, Complete, Boundary, Later, Executes
<1>3. Holds(b)'
  BY DEF Builds, Holds, Target, Boundary, Later
<1> QED BY <1>1, <1>2, <1>3 DEF Builds

\* The steps of one builder leave the others alone.
LEMMA StepOfOne ==
    ASSUME Types, NEW b \in Builders,
           Start(b) \/ Resolve(b) \/ Build(b) \/ Session(b) \/ Crash(b),
           NEW c \in Builders, c # b
    PROVE  /\ tree' = tree /\ era' = era
           /\ phase'[c] = phase[c] /\ plan'[c] = plan[c] /\ work'[c] = work[c]
           /\ \A key, e : <<key, e, c>> \in locks => <<key, e, c>> \in locks'
<1> USE DEF Types, Go, resolving, state
<1>1. CASE Start(b)
  BY <1>1 DEF Start
<1>2. CASE Resolve(b)
  BY <1>2 DEF Resolve, DigestPaths, Digested, ReadRevision, CaptureContent, ConfirmRevision
<1>3. CASE OpenLock(b) \/ LockKey(b) \/ Reuse(b)
  BY <1>3 DEF OpenLock, LockKey, Reuse
<1>4. CASE CopyPrevious(b) \/ RunStep(b) \/ WriteReference(b)
  BY <1>4 DEF CopyPrevious, RunStep, WriteReference
<1>5. CASE Publish(b)
  BY <1>5 DEF Publish, Release
<1>6. CASE BuildFails(b)
  BY <1>6 DEF BuildFails, Stop, Release
<1>7. CASE Session(b)
  BY <1>7 DEF Session, OpenSession, StartSession, SessionFails, EndSession, Stop, Release, Sessions
<1>8. CASE Crash(b)
  BY <1>8 DEF Crash, Stop, Release
<1> QED BY <1>1, <1>2, <1>3, <1>4, <1>5, <1>6, <1>7, <1>8 DEF Build

LEMMA OthersStay ==
    ASSUME Inv, NEW b \in Builders,
           Start(b) \/ Resolve(b) \/ Build(b) \/ Session(b) \/ Crash(b),
           NEW c \in Builders, c # b
    PROVE  Builds(c)'
<1>1. Types /\ Builds(c) /\ era \in Nat /\ work[c].era \in Nat
  BY DEF Inv, Types, Works
<1>2. /\ tree' = tree /\ era' = era
      /\ phase'[c] = phase[c] /\ plan'[c] = plan[c] /\ work'[c] = work[c]
      /\ \A key, e : <<key, e, c>> \in locks => <<key, e, c>> \in locks'
  BY <1>1, StepOfOne
<1>3. era <= era'
  BY <1>1, <1>2
<1> QED BY <1>1, <1>2, <1>3, OthersKeep

\* The fields of one builder.
LEMMA Fields ==
    ASSUME Types, NEW b \in Builders
    PROVE  /\ phase[b] \in Phases
           /\ plan[b].recipe \in Offered \cup {<<>>} /\ plan[b].contents \in Seq(Contents)
           /\ plan[b].commit \in [Files -> Contents] /\ plan[b].attempts \in 0 .. Attempts
           /\ Len(plan[b].contents) \in Nat
           /\ work[b].previous \in Seq(Materials) /\ work[b].payload \in Seq(Materials)
           /\ work[b].era \in Nat
<1>1. plan[b] \in Plans /\ work[b] \in Works /\ phase[b] \in Phases
  BY DEF Types
<1> QED BY <1>1, LenProperties DEF Plans, Works

----------------------------------------------------------------------------
(* Resolution.                                                             *)

LEMMA StartStep ==
    ASSUME Inv, NEW b \in Builders, Start(b)
    PROVE  Types' /\ Builds(b)'
<1>0. Types /\ Builds(b)
  BY DEF Inv
<1>1. PICK r \in Offered : plan' = [plan EXCEPT ![b].recipe = r]
  BY DEF Start
<1>2. /\ plan' \in [Builders -> Plans] /\ plan'[b].recipe = r
      /\ plan'[b].contents = plan[b].contents
  BY <1>0, <1>1 DEF Types, Plans
<1>3. phase' \in [Builders -> Phases] /\ phase'[b] = "resolving" /\ phase[b] = "idle"
  BY <1>0 DEF Start, Types, Go, Phases
<1>4. UNCHANGED <<tree, edits, work, era, faults, store, refs>>
  BY DEF Start, state
<1>5. Types'
  BY <1>0, <1>2, <1>3, <1>4 DEF Types
<1>6. plan'[b].contents = <<>> /\ work'[b] = work[b] /\ Len(plan'[b].contents) = 0
      /\ Len(r) \in Nat /\ work[b].previous = <<>> /\ work[b].payload = <<>>
  BY <1>0, <1>2, <1>3, <1>4, RecipesAreSteps, EmptySeq DEF Builds, Makes
<1>7. Resolves(b)'
  BY <1>2, <1>3, <1>6 DEF Resolves, Agrees, Building
<1>8. Makes(b)'
  BY <1>0, <1>3, <1>4, <1>6 DEF Builds, Makes, Reading, Building
<1>9. Holds(b)' /\ (work[b].era <= era)'
  BY <1>0, <1>3, <1>4 DEF Holds, Builds, Owning
<1> QED BY <1>5, <1>7, <1>8, <1>9 DEF Builds

\* What the steps of the resolution have in common.
LEMMA ResolutionTypes ==
    ASSUME Types, NEW b \in Builders, plan' \in [Builders -> Plans],
           NEW p \in Phases, phase' = [phase EXCEPT ![b] = p],
           UNCHANGED <<tree, edits, state, work, faults>>
    PROVE  Types'
BY DEF Types, state

LEMMA ResolutionMakes ==
    ASSUME Types, NEW b \in Builders, Makes(b), phase[b] \in Reading, phase'[b] \in Reading,
           work[b].previous = <<>>, UNCHANGED work
    PROVE  Makes(b)' /\ Holds(b)'
BY DEF Makes, Reading, Building, Holds, Owning

LEMMA PlanOfOne ==
    ASSUME Types, NEW b \in Builders, NEW s \in Seq(Contents), NEW a \in 0 .. Attempts,
           plan' = [plan EXCEPT ![b].contents = s, ![b].attempts = a]
    PROVE  /\ plan' \in [Builders -> Plans] /\ plan'[b].contents = s
           /\ plan'[b].recipe = plan[b].recipe /\ plan'[b].commit = plan[b].commit
<1>1. PICK q : q = [plan[b] EXCEPT !.contents = s, !.attempts = a]
  OBVIOUS
<1>2. plan[b] \in Plans
  BY DEF Types
<1>3. /\ q \in Plans /\ q.contents = s /\ q.recipe = plan[b].recipe
      /\ q.commit = plan[b].commit
  BY <1>1, <1>2 DEF Plans
<1>4. plan' = [plan EXCEPT ![b] = q]
  BY <1>1
<1> QED BY <1>3, <1>4 DEF Types

LEMMA DigestPathsStep ==
    ASSUME Inv, NEW b \in Builders, DigestPaths(b)
    PROVE  Types' /\ Builds(b)'
<1>0. Types /\ Builds(b)
  BY DEF Inv
<1>1. /\ phase[b] = "resolving" /\ Len(plan[b].contents) < Len(plan[b].recipe)
      /\ ~StepAt(b).pinned
  BY DEF DigestPaths, Resolving
<1>2. plan[b].recipe \in Offered /\ Len(plan[b].recipe) \in Nat
  BY <1>0, <1>1, RecipesAreSteps DEF Builds, Resolves, Reading
<1> DEFINE n == Len(plan[b].contents)
<1>3. n \in Nat /\ n + 1 \in 1 .. Len(plan[b].recipe)
  BY <1>0, <1>1, <1>2, Fields
<1>4. PICK c : c = tree[StepAt(b).reads]
  OBVIOUS
<1>5. c \in Contents
  BY <1>0, <1>2, <1>3, <1>4, RecipesAreSteps DEF Types, StepAt
<1>6. PICK s : s = Append(plan[b].contents, c)
  OBVIOUS
<1>7. /\ s \in Seq(Contents) /\ Len(s) = n + 1
      /\ \A i \in 1 .. n : s[i] = plan[b].contents[i]
  BY <1>0, <1>5, <1>6, Fields, AppendProperties
<1>8. plan' = [plan EXCEPT ![b].contents = s, ![b].attempts = 0]
  BY <1>4, <1>6 DEF DigestPaths, Digested
<1>9. /\ plan' \in [Builders -> Plans] /\ plan'[b].contents = s
      /\ plan'[b].recipe = plan[b].recipe /\ plan'[b].commit = plan[b].commit
  <2>1. 0 \in 0 .. Attempts
    BY DEF Attempts
  <2> QED BY <2>1, <1>0, <1>7, <1>8, PlanOfOne
<1>10. UNCHANGED <<tree, edits, state, phase, work, faults>>
  BY DEF DigestPaths
<1>11. Types'
  BY <1>0, <1>9, <1>10 DEF Types, state
<1>12. Resolves(b)'
  <2>1. Agrees(b, n)
    BY <1>0, <1>1 DEF Builds, Resolves
  <2>2. ASSUME NEW i \in 1 .. n + 1, plan[b].recipe[i].pinned
        PROVE  s[i] = plan[b].commit[plan[b].recipe[i].reads]
    <3>1. i # n + 1
      BY <1>1, <2>2 DEF StepAt
    <3>2. i \in 1 .. n
      BY <3>1, <1>3
    <3> QED BY <3>2, <2>1, <2>2, <1>7 DEF Agrees
  <2>3. Agrees(b, Len(plan[b].contents))'
    BY <2>2, <1>7, <1>9 DEF Agrees
  <2> QED BY <2>3, <1>1, <1>2, <1>3, <1>7, <1>9, <1>10 DEF Resolves, Building
<1>13. work[b].previous = <<>>
  BY <1>0, <1>1, <1>3 DEF Builds, Makes, Complete
<1>14. Makes(b)' /\ Holds(b)'
  BY <1>0, <1>1, <1>10, <1>13, ResolutionMakes DEF Builds, Reading
<1> QED BY <1>0, <1>10, <1>11, <1>12, <1>14 DEF Builds, state

LEMMA ReadRevisionStep ==
    ASSUME Inv, NEW b \in Builders, ReadRevision(b)
    PROVE  Types' /\ Builds(b)'
<1>0. Types /\ Builds(b)
  BY DEF Inv
<1>1. /\ phase[b] = "resolving" /\ Len(plan[b].contents) < Len(plan[b].recipe)
      /\ StepAt(b).pinned /\ plan[b].attempts < Attempts
  BY DEF ReadRevision, Resolving
<1>2. plan[b].recipe \in Offered /\ Len(plan[b].recipe) \in Nat
  BY <1>0, <1>1, RecipesAreSteps DEF Builds, Resolves, Reading
<1> DEFINE n == Len(plan[b].contents)
           r == plan[b].recipe
<1>3. n \in Nat /\ n + 1 \in 1 .. Len(r) /\ n + 1 <= Len(r) /\ r[n + 1].pinned
  BY <1>0, <1>1, <1>2, Fields DEF StepAt
<1>4. PICK a : a = plan[b].attempts + 1
  OBVIOUS
<1>5. a \in 0 .. Attempts
  BY <1>0, <1>1, <1>4, Fields DEF Attempts
<1>6. plan' = [plan EXCEPT ![b].commit = tree, ![b].attempts = a]
  BY <1>4 DEF ReadRevision
<1>7. /\ plan' \in [Builders -> Plans] /\ plan'[b].commit = tree
      /\ plan'[b].recipe = plan[b].recipe /\ plan'[b].contents = plan[b].contents
  <2>1. PICK q : q = [plan[b] EXCEPT !.commit = tree, !.attempts = a]
    OBVIOUS
  <2>2. plan[b] \in Plans /\ tree \in [Files -> Contents]
    BY <1>0 DEF Types
  <2>3. /\ q \in Plans /\ q.commit = tree /\ q.recipe = plan[b].recipe
        /\ q.contents = plan[b].contents
    BY <1>5, <2>1, <2>2 DEF Plans
  <2>4. plan' = [plan EXCEPT ![b] = q]
    BY <1>6, <2>1
  <2> QED BY <1>0, <2>3, <2>4 DEF Types
<1>8. phase' \in [Builders -> Phases] /\ phase'[b] = "reading"
  BY <1>0 DEF ReadRevision, Go, Types, Phases
<1>9. UNCHANGED <<tree, edits, state, work, faults>>
  BY DEF ReadRevision
<1>10. Types'
  BY <1>0, <1>7, <1>8, <1>9 DEF Types, state
<1>11. Agrees(b, Len(plan[b].contents))'
  <2>1. ASSUME NEW i \in 1 .. n, r[i].pinned PROVE FALSE
    <3>1. i \in 1 .. Len(r) /\ i # n + 1
      BY <1>2, <1>3
    <3> QED BY <3>1, <2>1, <1>2, <1>3, OneStepIsPinned
  <2> QED BY <2>1, <1>7 DEF Agrees
<1>12. \A f \in Files : (plan[b].commit[f] <= tree[f])'
  BY <1>0, <1>7, <1>9 DEF Types, Contents
<1>13. Resolves(b)'
  BY <1>0, <1>1, <1>2, <1>3, <1>7, <1>8, <1>9, <1>11, <1>12 DEF Builds, Resolves, Building, Reading
<1>14. work[b].previous = <<>>
  BY <1>0, <1>1, <1>3 DEF Builds, Makes, Complete
<1>15. Makes(b)' /\ Holds(b)'
  BY <1>0, <1>1, <1>8, <1>9, <1>14, ResolutionMakes DEF Builds, Reading
<1> QED BY <1>0, <1>9, <1>10, <1>13, <1>15 DEF Builds, state

LEMMA CaptureContentStep ==
    ASSUME Inv, NEW b \in Builders, CaptureContent(b)
    PROVE  Types' /\ Builds(b)'
<1>0. Types /\ Builds(b)
  BY DEF Inv
<1>1. phase[b] = "reading"
  BY DEF CaptureContent
<1> DEFINE n == Len(plan[b].contents)
           r == plan[b].recipe
<1>2. /\ r \in Offered /\ Len(r) \in Nat /\ n \in Nat
      /\ n + 1 \in 1 .. Len(r) /\ n + 1 <= Len(r) /\ r[n + 1].pinned
      /\ Agrees(b, n) /\ \A f \in Files : plan[b].commit[f] <= tree[f]
  BY <1>0, <1>1, Fields, RecipesAreSteps DEF Builds, Resolves, Reading
<1>3. PICK c : c = tree[StepAt(b).reads]
  OBVIOUS
<1>4. /\ c \in Contents /\ r[n + 1].reads \in Files /\ c = tree[r[n + 1].reads]
      /\ plan[b].commit[r[n + 1].reads] <= c /\ c <= tree[r[n + 1].reads]
  BY <1>0, <1>2, <1>3, RecipesAreSteps DEF Types, StepAt, Contents
<1>5. PICK s : s = Append(plan[b].contents, c)
  OBVIOUS
<1>6. /\ s \in Seq(Contents) /\ Len(s) = n + 1 /\ s[n + 1] = c
      /\ \A i \in 1 .. n : s[i] = plan[b].contents[i]
  <2>1. plan[b].contents \in Seq(Contents) /\ c \in Contents
    BY <1>0, <1>4, Fields
  <2> QED BY <2>1, <1>5, AppendProperties
<1>7. PICK a : a = plan[b].attempts
  OBVIOUS
<1>8. plan' = [plan EXCEPT ![b].contents = s]
  BY <1>3, <1>5 DEF CaptureContent
<1>9. plan' = [plan EXCEPT ![b].contents = s, ![b].attempts = a]
  BY <1>0, <1>7, <1>8 DEF Types, Plans
<1>10. /\ plan' \in [Builders -> Plans] /\ plan'[b].contents = s
       /\ plan'[b].recipe = plan[b].recipe /\ plan'[b].commit = plan[b].commit
  BY <1>0, <1>6, <1>7, <1>9, Fields, PlanOfOne
<1>11. phase' \in [Builders -> Phases] /\ phase'[b] = "captured"
  BY <1>0 DEF CaptureContent, Go, Types, Phases
<1>12. UNCHANGED <<tree, edits, state, work, faults>>
  BY DEF CaptureContent
<1>13. Types'
  BY <1>0, <1>10, <1>11, <1>12 DEF Types, state
<1>14. (Agrees(b, Len(plan[b].contents) - 1))'
  <2>1. Len(s) - 1 = n
    BY <1>2, <1>6
  <2> QED BY <2>1, <1>2, <1>6, <1>10 DEF Agrees
<1>15. Resolves(b)'
  BY <1>2, <1>4, <1>6, <1>10, <1>11, <1>12, <1>14 DEF Resolves, Building, Reading
<1>16. work[b].previous = <<>>
  BY <1>0, <1>1 DEF Builds, Makes
<1>17. Makes(b)' /\ Holds(b)'
  BY <1>0, <1>1, <1>11, <1>12, <1>16, ResolutionMakes DEF Builds, Reading
<1> QED BY <1>0, <1>12, <1>13, <1>15, <1>17 DEF Builds, state

LEMMA ConfirmRevisionStep ==
    ASSUME Inv, NEW b \in Builders, ConfirmRevision(b)
    PROVE  Types' /\ Builds(b)'
<1>0. Types /\ Builds(b)
  BY DEF Inv
<1>1. phase[b] = "captured"
  BY DEF ConfirmRevision
<1> DEFINE n == Len(plan[b].contents)
           r == plan[b].recipe
<1>2. /\ r \in Offered /\ Len(r) \in Nat /\ n \in Nat /\ n \in 1 .. Len(r) /\ r[n].pinned
      /\ Agrees(b, n - 1)
      /\ plan[b].commit[r[n].reads] <= plan[b].contents[n]
      /\ plan[b].contents[n] <= tree[r[n].reads]
  BY <1>0, <1>1, Fields, RecipesAreSteps DEF Builds, Resolves, Reading
<1>3. phase' \in [Builders -> Phases] /\ phase'[b] = "resolving"
  BY <1>0 DEF ConfirmRevision, Go, Types, Phases
<1>4. UNCHANGED <<tree, edits, state, work, faults>>
  BY DEF ConfirmRevision
<1>5. work[b].previous = <<>>
  BY <1>0, <1>1 DEF Builds, Makes
<1>6. Makes(b)' /\ Holds(b)'
  BY <1>0, <1>1, <1>3, <1>4, <1>5, ResolutionMakes DEF Builds, Reading
<1>7. ASSUME NEW s \in Seq(Contents), NEW a \in 0 .. Attempts,
             plan' = [plan EXCEPT ![b].contents = s, ![b].attempts = a],
             Len(s) <= Len(r),
             \A i \in 1 .. Len(s) : r[i].pinned => s[i] = plan[b].commit[r[i].reads]
      PROVE  Types' /\ Builds(b)'
  <2>1. /\ plan' \in [Builders -> Plans] /\ plan'[b].contents = s
        /\ plan'[b].recipe = plan[b].recipe /\ plan'[b].commit = plan[b].commit
    BY <1>0, <1>7, PlanOfOne
  <2>2. Types'
    BY <1>0, <1>3, <1>4, <2>1 DEF Types, state
  <2>3. Agrees(b, Len(plan[b].contents))'
    BY <1>7, <2>1 DEF Agrees
  <2>4. Resolves(b)'
    BY <1>2, <1>3, <1>7, <2>1, <2>3 DEF Resolves, Building
  <2> QED BY <1>0, <1>4, <1>6, <2>2, <2>4 DEF Builds, state
<1>8. CASE tree = plan[b].commit
  <2>1. PICK s : s = plan[b].contents
    OBVIOUS
  <2>2. s \in Seq(Contents) /\ 0 \in 0 .. Attempts /\ Len(s) <= Len(r) /\ Len(s) = n
    BY <1>0, <1>2, <2>1, Fields DEF Attempts
  <2>3. plan' = [plan EXCEPT ![b].attempts = 0]
    BY <1>8 DEF ConfirmRevision
  <2>4. plan' = [plan EXCEPT ![b].contents = s, ![b].attempts = 0]
    BY <1>0, <2>1, <2>3 DEF Types, Plans
  <2>5. s[n] = plan[b].commit[r[n].reads]
    <3>1. r[n].reads \in Files /\ s[n] \in Contents
      BY <1>2, <2>1, <2>2, RecipesAreSteps, ElementOfSeq
    <3>2. plan[b].commit[r[n].reads] \in Contents
      BY <1>0, <3>1, Fields
    <3> QED BY <1>2, <1>8, <2>1, <3>1, <3>2 DEF Contents
  <2>6. ASSUME NEW i \in 1 .. Len(s), r[i].pinned PROVE s[i] = plan[b].commit[r[i].reads]
    <3>1. CASE i = n
      BY <3>1, <2>5
    <3>2. CASE i # n
      <4>1. i \in 1 .. n - 1
        BY <3>2, <2>2, <1>2
      <4> QED BY <4>1, <1>2, <2>1, <2>6 DEF Agrees
    <3> QED BY <3>1, <3>2
  <2> QED BY <2>2, <2>4, <2>6, <1>7
<1>9. CASE tree # plan[b].commit
  <2>1. PICK s : s = SubSeq(plan[b].contents, 1, n - 1)
    OBVIOUS
  <2>2. /\ s \in Seq(Contents) /\ Len(s) = n - 1
        /\ \A i \in 1 .. n - 1 : s[i] = plan[b].contents[i]
    <3>1. plan[b].contents \in Seq(Contents) /\ 1 \in 1 .. n + 1 /\ n - 1 \in 1 - 1 .. n
      BY <1>0, <1>2, Fields
    <3> QED BY <3>1, <1>2, <2>1, SubSeqProperties
  <2>3. PICK a : a = plan[b].attempts
    OBVIOUS
  <2>4. plan' = [plan EXCEPT ![b].contents = s]
    BY <1>9, <2>1 DEF ConfirmRevision
  <2>5. plan' = [plan EXCEPT ![b].contents = s, ![b].attempts = a] /\ a \in 0 .. Attempts
    BY <1>0, <2>3, <2>4, Fields DEF Types, Plans
  <2>6. \A i \in 1 .. Len(s) : r[i].pinned => s[i] = plan[b].commit[r[i].reads]
    BY <1>2, <2>2 DEF Agrees
  <2>7. Len(s) <= Len(r)
    BY <1>2, <2>2
  <2> QED BY <2>2, <2>5, <2>6, <2>7, <1>7
<1> QED BY <1>8, <1>9

LEMMA ResolveStep ==
    ASSUME Inv, NEW b \in Builders, Start(b) \/ Resolve(b)
    PROVE  Inv'
<1>1. Types' /\ Builds(b)'
  BY StartStep, DigestPathsStep, ReadRevisionStep, CaptureContentStep, ConfirmRevisionStep DEF Resolve
<1>2. UNCHANGED store
  BY DEF Start, Resolve, DigestPaths, ReadRevision, CaptureContent, ConfirmRevision, state
<1>3. PayloadFollowsKey'
  BY <1>2 DEF Inv, PayloadFollowsKey
<1>4. \A c \in Builders : c # b => Builds(c)'
  BY OthersStay
<1> QED BY <1>1, <1>3, <1>4 DEF Inv

----------------------------------------------------------------------------
(* Building.                                                               *)

\* What a builder in the loop works with.
LEMMA BuilderFacts ==
    ASSUME Types, NEW b \in Builders, Resolves(b),
           phase[b] \in Building \/ Seeking(b)
    PROVE  /\ plan[b].recipe \in Offered /\ Complete(b)
           /\ plan[b].contents \in Seq(Contents) /\ Len(plan[b].recipe) \in Nat
           /\ Agrees(b, Len(plan[b].recipe))
           /\ \A i \in 0 .. Len(plan[b].recipe) :
                 LET key == Key(plan[b].recipe, i, plan[b].contents)
                 IN  /\ key \in Seq(Materials) /\ Len(key) = i /\ DOMAIN key = 1 .. i
                     /\ \A j \in 1 .. i :
                           key[j] = Material(plan[b].recipe[j], plan[b].contents[j])
<1>1. /\ plan[b].recipe \in Offered /\ Complete(b)
      /\ Agrees(b, Len(plan[b].contents))
  BY DEF Resolves, Seeking, Complete, Reading, Building
<1>2. plan[b].contents \in Seq(Contents) /\ Len(plan[b].recipe) \in Nat
  BY <1>1, Fields, RecipesAreSteps
<1>3. \A i \in 0 .. Len(plan[b].recipe) : i <= Len(plan[b].contents)
  BY <1>1, <1>2 DEF Complete
<1> HIDE DEF Key
<1> QED BY <1>1, <1>2, <1>3, KeysAreMaterials DEF Complete

LEMMA SameTarget ==
    ASSUME NEW b \in Builders, plan'[b] = plan[b], work'[b].previous = work[b].previous
    PROVE  /\ Later(b)' = Later(b) /\ Boundary(b)' = Boundary(b) /\ Target(b)' = Target(b)
<1>1. Later(b)' = Later(b)
  BY DEF Later
<1>2. Boundary(b)' = Boundary(b)
  BY <1>1 DEF Boundary
<1> QED BY <1>1, <1>2 DEF Target

\* Only the plan is asked what was resolved.
LEMMA SamePlan ==
    ASSUME NEW b \in Builders, Resolves(b), plan'[b] = plan[b], tree' = tree,
           phase[b] \in Building \/ Seeking(b), phase'[b] \in {"resolving"} \cup Building,
           phase'[b] \in Building => (Later(b) # {})'
    PROVE  Resolves(b)'
BY DEF Resolves, Complete, Agrees, Seeking, Reading, Building

LEMMA BuildTypes ==
    ASSUME Types, NEW b \in Builders, NEW w \in Works, NEW p \in Phases,
           work' = [work EXCEPT ![b] = w], phase' = [phase EXCEPT ![b] = p],
           UNCHANGED <<tree, edits, plan, store, refs, era, faults>>
    PROVE  Types' /\ work'[b] = w /\ phase'[b] = p /\ plan'[b] = plan[b]
BY DEF Types

LEMMA OpenLockStep ==
    ASSUME Inv, NEW b \in Builders, OpenLock(b)
    PROVE  Types' /\ Builds(b)'
<1>0. Types /\ Builds(b)
  BY DEF Inv
<1>1. PICK w : w = [work[b] EXCEPT !.era = era]
  OBVIOUS
<1>2. /\ w \in Works /\ w.era = era /\ w.previous = work[b].previous
      /\ w.payload = work[b].payload /\ w.space = work[b].space
  BY <1>0, <1>1 DEF Types, Works
<1>3. work' = [work EXCEPT ![b] = w]
  BY <1>1 DEF OpenLock
<1>4. Seeking(b) /\ Later(b) # {} /\ phase' = [phase EXCEPT ![b] = "waiting"]
  BY DEF OpenLock, Go
<1>5. UNCHANGED <<tree, edits, plan, store, refs, locks, era, faults>>
  BY DEF OpenLock, resolving, state
<1>6. Types' /\ work'[b] = w /\ phase'[b] = "waiting" /\ plan'[b] = plan[b]
  BY <1>0, <1>2, <1>3, <1>4, <1>5, BuildTypes DEF Phases
<1>7. Later(b)' # {}
  BY <1>2, <1>4, <1>6, SameTarget
<1>8. Resolves(b)'
  BY <1>0, <1>4, <1>5, <1>6, <1>7, SamePlan DEF Builds, Building
<1>9. Makes(b)'
  BY <1>0, <1>2, <1>4, <1>6 DEF Builds, Makes, Seeking, Reading, Building, Complete
<1>10. Holds(b)' /\ (work[b].era <= era)'
  BY <1>0, <1>2, <1>5, <1>6 DEF Holds, Owning, Types
<1> QED BY <1>6, <1>8, <1>9, <1>10 DEF Builds

LEMMA LockKeyStep ==
    ASSUME Inv, NEW b \in Builders, LockKey(b)
    PROVE  Types' /\ Builds(b)'
<1>0. Types /\ Builds(b)
  BY DEF Inv
<1>1. PICK w : w = [work[b] EXCEPT !.space = "there"]
  OBVIOUS
<1>2. /\ w \in Works /\ w.era = work[b].era /\ w.previous = work[b].previous
      /\ w.payload = work[b].payload
  BY <1>0, <1>1 DEF Types, Works
<1>3. work' = [work EXCEPT ![b] = w]
  BY <1>1 DEF LockKey
<1>4. /\ phase[b] = "waiting" /\ phase' = [phase EXCEPT ![b] = "copying"]
      /\ locks' = locks \cup {<<Target(b), work[b].era, b>>}
  BY DEF LockKey, Go
<1>5. UNCHANGED <<tree, edits, plan, store, refs, era, faults>>
  BY DEF LockKey, resolving
<1>6. Types' /\ work'[b] = w /\ phase'[b] = "copying" /\ plan'[b] = plan[b]
  BY <1>0, <1>2, <1>3, <1>4, <1>5, BuildTypes DEF Phases
<1>7. Later(b)' = Later(b) /\ Target(b)' = Target(b)
  BY <1>2, <1>6, SameTarget
<1>8. Resolves(b)'
  <2>1. Later(b) # {}
    BY <1>0, <1>4 DEF Builds, Resolves, Building
  <2> QED BY <1>0, <1>4, <1>5, <1>6, <1>7, <2>1, SamePlan DEF Builds, Building
<1>9. Makes(b)'
  BY <1>0, <1>2, <1>4, <1>6 DEF Builds, Makes, Reading, Building, Complete
<1>10. Holds(b)' /\ (work[b].era <= era)'
  BY <1>0, <1>2, <1>4, <1>5, <1>6, <1>7 DEF Holds, Builds
<1> QED BY <1>6, <1>8, <1>9, <1>10 DEF Builds

\* After a reuse and after a publication: past the boundary.
LEMMA AdoptedStep ==
    ASSUME Inv, NEW b \in Builders, phase[b] \in Building,
           work' = [work EXCEPT ![b] = Adopted(b)], phase' = [phase EXCEPT ![b] = "resolving"],
           UNCHANGED <<tree, edits, plan, refs, era, faults>>
    PROVE  /\ work' \in [Builders -> Works] /\ phase' \in [Builders -> Phases]
           /\ Builds(b)'
<1>0. Types /\ Builds(b)
  BY DEF Inv
<1>1. Later(b) # {} /\ Resolves(b) /\ Makes(b)
  BY <1>0 DEF Builds, Resolves
<1>2. PICK k : k = Target(b)
  OBVIOUS
<1>3. PICK i \in 1 .. Len(plan[b].recipe) : k = Key(plan[b].recipe, i, plan[b].contents)
  BY <1>0, <1>1, <1>2, BuilderFacts, BoundaryIsLater DEF Target
<1>4. k \in Seq(Materials) /\ Complete(b)
  BY <1>0, <1>1, <1>3, BuilderFacts
<1>5. PICK w : w = [work[b] EXCEPT !.previous = k, !.payload = <<>>, !.space = "none", !.era = 0]
  OBVIOUS
<1>6. /\ w \in Works /\ w.previous = k /\ w.payload = <<>> /\ w.space = "none" /\ w.era = 0
  BY <1>0, <1>4, <1>5, EmptySeq DEF Types, Works
<1>7. work' = [work EXCEPT ![b] = w]
  BY <1>2, <1>5 DEF Adopted
<1>8. work' \in [Builders -> Works] /\ phase' \in [Builders -> Phases]
  BY <1>0, <1>6, <1>7 DEF Types, Phases
<1>9. work'[b] = w /\ phase'[b] = "resolving" /\ plan'[b] = plan[b]
  BY <1>0, <1>6, <1>7 DEF Types
<1>10. Resolves(b)'
  BY <1>1, <1>9, SamePlan DEF Building
<1>11. Makes(b)'
  <2>1. plan[b].recipe = plan'[b].recipe /\ plan[b].contents = plan'[b].contents /\ Complete(b)'
    BY <1>4, <1>9 DEF Complete
  <2>2. \E j \in 1 .. Len(plan'[b].recipe) :
            work'[b].previous = Key(plan'[b].recipe, j, plan'[b].contents)
    BY <1>3, <1>6, <1>9, <2>1
  <2> QED BY <1>6, <1>9, <2>1, <2>2 DEF Makes, Reading, Building
<1>12. Holds(b)' /\ (work[b].era <= era)'
  BY <1>0, <1>6, <1>9 DEF Holds, Owning, Types
<1> QED BY <1>8, <1>10, <1>11, <1>12 DEF Builds

LEMMA ReuseStep ==
    ASSUME Inv, NEW b \in Builders, Reuse(b)
    PROVE  Types' /\ Builds(b)'
<1>1. /\ work' = [work EXCEPT ![b] = Adopted(b)] /\ phase' = [phase EXCEPT ![b] = "resolving"]
      /\ phase[b] \in Building
      /\ UNCHANGED <<tree, edits, plan, store, refs, era, faults>>
  BY DEF Reuse, Go, resolving, state, Building
<1>2. work' \in [Builders -> Works] /\ phase' \in [Builders -> Phases] /\ Builds(b)'
  BY <1>1, AdoptedStep
<1> QED BY <1>1, <1>2 DEF Inv, Types

\* Every step that leaves a builder running.
LEMMA RunningMakes ==
    ASSUME NEW b \in Builders, Makes(b), phase[b] \in Building,
           plan'[b] = plan[b], work'[b].previous = work[b].previous, phase'[b] = "running",
           NEW p, work'[b].payload = p, Len(p) <= Boundary(b), Executes(b, p)
    PROVE  Makes(b)'
<1>1. Boundary(b)' = Boundary(b)
  BY SameTarget
<1>2. Executes(b, work[b].payload)'
  BY DEF Executes
<1>3. work'[b].previous = <<>> \/
         /\ Complete(b)'
         /\ \E i \in 1 .. Len(plan'[b].recipe) :
               work'[b].previous = Key(plan'[b].recipe, i, plan'[b].contents)
  BY DEF Makes, Complete, Building
<1> QED BY <1>1, <1>2, <1>3 DEF Makes, Reading, Building

LEMMA CopyPreviousStep ==
    ASSUME Inv, NEW b \in Builders, CopyPrevious(b)
    PROVE  Types' /\ Builds(b)'
<1>0. Types /\ Builds(b) /\ PayloadFollowsKey
  BY DEF Inv
<1>1. /\ phase[b] = "copying" /\ phase' = [phase EXCEPT ![b] = "running"]
      /\ UNCHANGED <<tree, edits, plan, store, refs, locks, era, faults>>
  BY DEF CopyPrevious, Go, resolving, state
<1>2. /\ Later(b) # {} /\ Resolves(b) /\ Makes(b) /\ Holds(b)
      /\ plan[b].recipe \in Offered /\ work[b].payload = <<>>
  BY <1>0, <1>1 DEF Builds, Resolves, Makes, Building, Reading
<1>3. /\ Boundary(b) \in 1 .. Len(plan[b].recipe) /\ Boundary(b) > Len(work[b].previous)
      /\ Len(plan[b].recipe) \in Nat
  BY <1>2, BoundaryIsLater, RecipesAreSteps DEF Later
\* The payload that is there afterwards.
<1>4. \E p \in Seq(Materials), s \in {"none", "there", "torn", "gone"} :
         /\ work' = [work EXCEPT ![b].payload = p, ![b].space = s]
         /\ Len(p) <= Boundary(b) /\ Executes(b, p)
  <2>1. CASE work[b].previous = <<>>
    <3>1. PICK p, s : p = work[b].payload /\ s = work[b].space
      OBVIOUS
    <3>2. work' = work
      BY <1>1, <2>1 DEF CopyPrevious
    <3>3. work[b] \in Works
      BY <1>0 DEF Types
    <3>4. work' = [work EXCEPT ![b].payload = p, ![b].space = s]
      BY <1>0, <3>1, <3>2 DEF Types, Works
    <3>5. p \in Seq(Materials) /\ s \in {"none", "there", "torn", "gone"} /\ Len(p) = 0
      BY <1>2, <3>1, <3>3, EmptySeq DEF Works
    <3>6. Len(p) <= Boundary(b)
      BY <1>3, <3>5
    <3>7. Executes(b, p)
      BY <3>5 DEF Executes
    <3> QED BY <3>4, <3>5, <3>6, <3>7
  <2>2. CASE work[b].previous # <<>>
    <3>1. PICK k : k = work[b].previous
      OBVIOUS
    <3>2. PICK p, s : /\ p = store[k].payload
                      /\ s = IF Whole(k) /\ ~store[k].torn THEN "there" ELSE "torn"
      OBVIOUS
    <3>3. k \in DOMAIN store /\ work' = [work EXCEPT ![b].payload = p, ![b].space = s]
      BY <2>2, <3>1, <3>2 DEF CopyPrevious
    <3>4. p \in Seq(Materials)
      BY <1>0, <3>2, <3>3 DEF Types, Artifacts
    <3>5. PICK i \in 1 .. Len(plan[b].recipe) :
              k = Key(plan[b].recipe, i, plan[b].contents)
      BY <1>1, <1>2, <2>2, <3>1 DEF Makes, Building
    <3>6. /\ Len(k) = i /\ DOMAIN k = 1 .. i /\ plan[b].contents \in Seq(Contents)
          /\ \A j \in 1 .. i : k[j] = Material(plan[b].recipe[j], plan[b].contents[j])
      BY <1>0, <1>1, <1>2, <1>3, <3>5, BuilderFacts DEF Building
    <3>7. /\ Len(p) = i
          /\ \A j \in 1 .. i : /\ p[j].role = k[j].role /\ p[j].version = k[j].version
                              /\ Pinned(k[j].role) => p[j].content = k[j].content
      BY <1>0, <3>2, <3>3, <3>6 DEF PayloadFollowsKey
    <3>8. \A j \in 1 .. i : /\ k[j].role = plan[b].recipe[j].role
                          /\ k[j].version = plan[b].recipe[j].version
                          /\ k[j].content = plan[b].contents[j]
      BY <3>6 DEF Material
    <3>9. \A j \in 1 .. i : plan[b].recipe[j].pinned => Pinned(plan[b].recipe[j].role)
      BY <1>2, <1>3, RecipesAreSteps DEF Pinned
    <3>10. ASSUME NEW j \in 1 .. Len(p)
           PROVE  /\ p[j].role = plan[b].recipe[j].role
                  /\ p[j].version = plan[b].recipe[j].version
                  /\ plan[b].recipe[j].pinned => p[j].content = plan[b].contents[j]
      <4>1. j \in 1 .. i
        BY <3>7
      <4>2. plan[b].recipe[j].pinned => Pinned(k[j].role)
        BY <4>1, <3>8, <3>9
      <4>3. /\ p[j].role = k[j].role /\ p[j].version = k[j].version
            /\ Pinned(k[j].role) => p[j].content = k[j].content
        BY <1>0, <3>2, <3>3, <3>6, <4>1 DEF PayloadFollowsKey
      <4>4. /\ k[j].role = plan[b].recipe[j].role
            /\ k[j].version = plan[b].recipe[j].version
            /\ k[j].content = plan[b].contents[j]
        BY <4>1, <3>8
      <4> HIDE DEF Pinned
      <4> QED BY <4>2, <4>3, <4>4
    <3>12. Executes(b, p)
      BY <3>10 DEF Executes
    <3>11. Len(p) <= Boundary(b)
      BY <1>3, <3>1, <3>6, <3>7
    <3> QED BY <3>2, <3>3, <3>4, <3>11, <3>12
  <2> QED BY <2>1, <2>2
<1>5. PICK p \in Seq(Materials), s \in {"none", "there", "torn", "gone"} :
         /\ work' = [work EXCEPT ![b].payload = p, ![b].space = s]
         /\ Len(p) <= Boundary(b) /\ Executes(b, p)
  BY <1>4
<1>6. PICK w : w = [work[b] EXCEPT !.payload = p, !.space = s]
  OBVIOUS
<1>7. /\ w \in Works /\ w.payload = p /\ w.previous = work[b].previous /\ w.era = work[b].era
  BY <1>0, <1>6 DEF Types, Works
<1>8. work' = [work EXCEPT ![b] = w]
  BY <1>5, <1>6
<1>9. Types' /\ work'[b] = w /\ phase'[b] = "running" /\ plan'[b] = plan[b]
  BY <1>0, <1>1, <1>7, <1>8, BuildTypes DEF Phases
<1>10. Later(b)' = Later(b) /\ Target(b)' = Target(b) /\ Boundary(b)' = Boundary(b)
  BY <1>7, <1>9, SameTarget
<1>11. Resolves(b)'
  BY <1>1, <1>2, <1>9, <1>10, SamePlan DEF Building
<1>12. Makes(b)'
  BY <1>1, <1>2, <1>5, <1>7, <1>9, <1>10, RunningMakes DEF Building
<1>13. Holds(b)' /\ (work[b].era <= era)'
  BY <1>0, <1>1, <1>2, <1>7, <1>9, <1>10 DEF Holds, Builds, Owning
<1> QED BY <1>9, <1>11, <1>12, <1>13 DEF Builds

LEMMA RunStepStep ==
    ASSUME Inv, NEW b \in Builders, RunStep(b)
    PROVE  Types' /\ Builds(b)'
<1>0. Types /\ Builds(b)
  BY DEF Inv
<1>1. /\ phase[b] = "running" /\ Len(work[b].payload) < Boundary(b)
      /\ work' = [work EXCEPT ![b].payload = Append(work[b].payload, Executed(b))]
      /\ UNCHANGED <<tree, edits, plan, store, refs, locks, era, phase, faults>>
  BY DEF RunStep, resolving, state
<1>2. /\ Later(b) # {} /\ Resolves(b) /\ Makes(b) /\ Holds(b)
      /\ Executes(b, work[b].payload)
  BY <1>0, <1>1 DEF Builds, Resolves, Makes, Building
<1> DEFINE r == plan[b].recipe
           n == Len(work[b].payload)
<1>3. /\ r \in Offered /\ Complete(b) /\ plan[b].contents \in Seq(Contents)
      /\ Len(r) \in Nat /\ Agrees(b, Len(r)) /\ work[b].payload \in Seq(Materials)
  BY <1>0, <1>1, <1>2, BuilderFacts, Fields DEF Building
<1>4. Boundary(b) \in 1 .. Len(r)
  BY <1>2, <1>3, BoundaryIsLater
<1>5. n \in Nat /\ n + 1 \in 1 .. Len(r) /\ n + 1 <= Boundary(b)
  BY <1>1, <1>3, <1>4, LenProperties
<1>6. PICK c : c = IF NextStep(b).pinned THEN plan[b].commit[NextStep(b).reads]
                                         ELSE tree[NextStep(b).reads]
  OBVIOUS
<1>7. NextStep(b) = r[n + 1] /\ r[n + 1].reads \in Files
  BY <1>3, <1>5, RecipesAreSteps DEF NextStep
<1>8. c \in Contents /\ (r[n + 1].pinned => c = plan[b].contents[n + 1])
  BY <1>0, <1>3, <1>5, <1>6, <1>7, Fields DEF Types, Agrees
<1>9. PICK m : m = Material(r[n + 1], c)
  OBVIOUS
<1>10. /\ m \in Materials /\ m = Executed(b)
       /\ m.role = r[n + 1].role /\ m.version = r[n + 1].version /\ m.content = c
  <2>1. Material(r[n + 1], c) \in Materials
    BY <1>3, <1>5, <1>8, MaterialsOfSteps
  <2>2. m = Executed(b)
    BY <1>6, <1>7, <1>9 DEF Executed
  <2> QED BY <1>9, <2>1, <2>2 DEF Material
<1>11. PICK p : p = Append(work[b].payload, m)
  OBVIOUS
<1>12. /\ p \in Seq(Materials) /\ Len(p) = n + 1 /\ p[n + 1] = m
       /\ \A i \in 1 .. n : p[i] = work[b].payload[i]
  BY <1>3, <1>10, <1>11, AppendProperties
<1>13. ASSUME NEW j \in 1 .. Len(p)
       PROVE  /\ p[j].role = r[j].role /\ p[j].version = r[j].version
              /\ r[j].pinned => p[j].content = plan[b].contents[j]
  <2>1. CASE j = n + 1
    BY <2>1, <1>8, <1>10, <1>12
  <2>2. CASE j # n + 1
    <3>1. j \in 1 .. n
      BY <2>2, <1>5, <1>12
    <3> QED BY <3>1, <1>2, <1>12 DEF Executes
  <2> QED BY <2>1, <2>2
<1>14. Executes(b, p) /\ Len(p) <= Boundary(b)
  BY <1>5, <1>12, <1>13 DEF Executes
<1>15. PICK w : w = [work[b] EXCEPT !.payload = p]
  OBVIOUS
<1>16. /\ w \in Works /\ w.payload = p /\ w.previous = work[b].previous /\ w.era = work[b].era
  BY <1>0, <1>12, <1>15 DEF Types, Works
<1>17. work' = [work EXCEPT ![b] = w]
  BY <1>1, <1>10, <1>11, <1>15
<1>18. phase' = [phase EXCEPT ![b] = "running"]
  BY <1>0, <1>1 DEF Types
<1>19. Types' /\ work'[b] = w /\ phase'[b] = "running" /\ plan'[b] = plan[b]
  BY <1>0, <1>1, <1>16, <1>17, <1>18, BuildTypes DEF Phases
<1>20. Later(b)' = Later(b) /\ Target(b)' = Target(b)
  BY <1>16, <1>19, SameTarget
<1>21. Resolves(b)'
  BY <1>1, <1>2, <1>19, <1>20, SamePlan DEF Building
<1>22. Makes(b)'
  BY <1>1, <1>2, <1>14, <1>16, <1>19, RunningMakes DEF Building
<1>23. Holds(b)' /\ (work[b].era <= era)'
  BY <1>0, <1>1, <1>2, <1>16, <1>19, <1>20 DEF Holds, Builds, Owning
<1> QED BY <1>19, <1>21, <1>22, <1>23 DEF Builds

LEMMA PublishStep ==
    ASSUME Inv, NEW b \in Builders, Publish(b)
    PROVE  Types' /\ PayloadFollowsKey' /\ Builds(b)'
<1>0. Types /\ Builds(b) /\ PayloadFollowsKey
  BY DEF Inv
<1>1. /\ phase[b] = "running" /\ Len(work[b].payload) = Boundary(b)
      /\ work' = [work EXCEPT ![b] = Adopted(b)] /\ phase' = [phase EXCEPT ![b] = "resolving"]
      /\ UNCHANGED <<tree, edits, plan, refs, era, faults>>
  BY DEF Publish, Go, resolving
<1>2. work' \in [Builders -> Works] /\ phase' \in [Builders -> Phases] /\ Builds(b)'
  BY <1>1, AdoptedStep DEF Building
<1>3. CASE UNCHANGED store
  BY <1>0, <1>1, <1>2, <1>3 DEF Types, PayloadFollowsKey
<1>4. CASE ~ UNCHANGED store
  <2>1. store' = With(store, Target(b), Artifact(b))
    BY <1>4 DEF Publish
  <2>2. /\ Later(b) # {} /\ Resolves(b) /\ Executes(b, work[b].payload)
    BY <1>0, <1>1 DEF Builds, Resolves, Makes, Building
  <2> DEFINE r == plan[b].recipe
             i == Boundary(b)
  <2>3. /\ r \in Offered /\ Complete(b) /\ plan[b].contents \in Seq(Contents)
        /\ Len(r) \in Nat /\ work[b] \in Works /\ i \in 1 .. Len(r)
    BY <1>0, <1>1, <2>2, BuilderFacts, BoundaryIsLater DEF Building, Types
  <2>4. PICK k : k = Target(b)
    OBVIOUS
  <2>5. /\ k \in Seq(Materials) /\ Len(k) = i /\ DOMAIN k = 1 .. i
        /\ \A j \in 1 .. i : k[j] = Material(r[j], plan[b].contents[j])
    BY <1>0, <1>1, <2>2, <2>3, <2>4, BuilderFacts DEF Building, Target
  <2>6. PICK a : a = Artifact(b)
    OBVIOUS
  <2>7. a \in Artifacts /\ a.payload = work[b].payload
    <3>1. Boundaries(r, Len(r), plan[b].contents) \in SUBSET Seq(Materials)
      BY <2>3, ChainsAreKeys DEF Complete
    <3>2. work[b].payload \in Seq(Materials) /\ (work[b].space # "there") \in BOOLEAN
      BY <2>3 DEF Works
    <3> HIDE DEF Boundaries, Materials
    <3> QED BY <2>6, <3>1, <3>2 DEF Artifact, Artifacts
  <2>8. /\ DOMAIN store' = DOMAIN store \cup {k} /\ store'[k] = a
        /\ \A l \in DOMAIN store : l # k => store'[l] = store[l]
    BY <2>1, <2>4, <2>6 DEF With
  <2>9. Types'
    BY <1>0, <1>1, <1>2, <2>5, <2>7, <2>8 DEF Types
  <2>10. ASSUME NEW j \in 1 .. i
         PROVE  /\ a.payload[j].role = k[j].role /\ a.payload[j].version = k[j].version
                /\ Pinned(k[j].role) => a.payload[j].content = k[j].content
    <3>1. /\ k[j].role = r[j].role /\ k[j].version = r[j].version
          /\ k[j].content = plan[b].contents[j]
      BY <2>5 DEF Material
    <3>2. j \in 1 .. Len(r) /\ (Pinned(r[j].role) => r[j].pinned)
      BY <2>3, PinnedByRole
    <3> QED BY <1>1, <2>2, <2>7, <3>1, <3>2 DEF Executes
  <2>11. Len(a.payload) = Len(k)
    BY <1>1, <2>5, <2>7
  <2>12. PayloadFollowsKey'
    BY <1>0, <2>5, <2>8, <2>10, <2>11 DEF PayloadFollowsKey, Pinned
  <2> QED BY <1>2, <2>9, <2>12
<1> QED BY <1>3, <1>4

LEMMA WriteReferenceStep ==
    ASSUME Inv, NEW b \in Builders, WriteReference(b)
    PROVE  Types' /\ Builds(b)'
<1>0. Types /\ Builds(b)
  BY DEF Inv
<1>1. /\ Seeking(b) /\ Whole(OutputKey(b))
      /\ refs' = With(refs, plan[b].recipe[Len(plan[b].recipe)].role, OutputKey(b))
      /\ work' = [work EXCEPT ![b] = NoWork] /\ phase' = [phase EXCEPT ![b] = "built"]
      /\ UNCHANGED <<tree, edits, plan, store, locks, era, faults>>
  BY DEF WriteReference, Go, resolving
<1>2. NoWork \in Works /\ NoWork.era = 0
  BY EmptySeq DEF NoWork, Works
<1>3. PICK k : k = OutputKey(b)
  OBVIOUS
<1>4. k \in Seq(Materials)
  BY <1>0, <1>1, <1>3 DEF Whole, Types
<1>5. PICK name : name = plan[b].recipe[Len(plan[b].recipe)].role
  OBVIOUS
<1>6. \A n \in DOMAIN refs' : refs'[n] \in Seq(Materials)
  BY <1>0, <1>1, <1>3, <1>4, <1>5 DEF With, Types
<1>7. Types'
  BY <1>0, <1>1, <1>2, <1>6 DEF Types, Phases
<1>8. phase'[b] = "built" /\ work'[b] = NoWork
  BY <1>0, <1>1 DEF Types
<1>9. Builds(b)'
  BY <1>0, <1>1, <1>2, <1>8 DEF Builds, Resolves, Makes, Holds, Reading, Building, Owning, Types
<1> QED BY <1>7, <1>9

\* A builder that is over.
LEMMA StopStep ==
    ASSUME Inv, NEW b \in Builders, NEW p \in {"failed", "killed", "ended"}, Stop(b, p),
           UNCHANGED <<tree, edits, store, refs, era>>, faults' \in 0 .. MaxFaults,
           faults <= faults'
    PROVE  Types' /\ Builds(b)'
<1>0. Types
  BY DEF Inv
<1>1. /\ phase' = [phase EXCEPT ![b] = p] /\ plan' = [plan EXCEPT ![b] = NoPlan]
      /\ work' = [work EXCEPT ![b] = NoWork]
  BY DEF Stop, Go
<1>2. NoWork \in Works /\ NoWork.era = 0
  BY EmptySeq DEF NoWork, Works
<1>3. NoPlan \in Plans
  <2>1. <<>> \in Seq(Contents) /\ 0 \in Contents /\ 0 \in 0 .. Attempts
    BY EmptySeq, BoundsAreNumbers DEF Contents, Attempts
  <2> QED BY <2>1 DEF NoPlan, Plans
<1>4. era <= faults'
  BY <1>0, BoundsAreNumbers DEF Types
<1>5. Types'
  BY <1>0, <1>1, <1>2, <1>3, <1>4 DEF Types, Phases
<1>6. phase'[b] = p /\ work'[b] = NoWork
  BY <1>0, <1>1 DEF Types
<1>7. Builds(b)'
  BY <1>0, <1>2, <1>6 DEF Builds, Resolves, Makes, Holds, Reading, Building, Owning, Types
<1> QED BY <1>5, <1>7

\* The steps of a session, which works on nothing.
LEMMA SessionStep ==
    ASSUME Inv, NEW b \in Builders, OpenSession(b) \/ StartSession(b)
    PROVE  Types' /\ Builds(b)'
<1>0. Types /\ Builds(b)
  BY DEF Inv
<1>1. PICK p \in {"opening", "live"} : phase' = [phase EXCEPT ![b] = p]
  BY DEF OpenSession, StartSession, Go
<1>2. UNCHANGED <<tree, edits, plan, work, store, refs, era, faults>>
  BY DEF OpenSession, StartSession, resolving
<1>3. Types'
  BY <1>0, <1>1, <1>2 DEF Types, Phases
<1>4. phase'[b] = p /\ work'[b] = work[b]
  BY <1>0, <1>1, <1>2 DEF Types
<1>5. Builds(b)'
  BY <1>0, <1>2, <1>4 DEF Builds, Resolves, Makes, Holds, Reading, Building, Owning
<1> QED BY <1>3, <1>5

LEMMA BuilderStep ==
    ASSUME Inv, NEW b \in Builders, Build(b) \/ Session(b) \/ Crash(b)
    PROVE  Inv'
<1>0. Types /\ faults \in 0 .. MaxFaults
  BY DEF Inv, Types
<1>1. CASE Publish(b)
  <2>1. Types' /\ PayloadFollowsKey' /\ Builds(b)'
    BY <1>1, PublishStep
  <2>2. \A c \in Builders : c # b => Builds(c)'
    BY OthersStay
  <2> QED BY <2>1, <2>2 DEF Inv
<1>2. CASE ~ Publish(b)
  <2>1. CASE OpenLock(b) \/ LockKey(b) \/ Reuse(b) \/ CopyPrevious(b) \/ RunStep(b)
    <3>1. Types' /\ Builds(b)'
      BY <2>1, OpenLockStep, LockKeyStep, ReuseStep, CopyPreviousStep, RunStepStep
    <3>2. UNCHANGED store
      BY <2>1 DEF OpenLock, LockKey, Reuse, CopyPrevious, RunStep, state
    <3> QED BY <3>1, <3>2, OthersStay DEF Inv, PayloadFollowsKey
  <2>2. CASE WriteReference(b)
    <3>1. Types' /\ Builds(b)'
      BY <2>2, WriteReferenceStep
    <3>2. UNCHANGED store
      BY <2>2 DEF WriteReference
    <3> QED BY <3>1, <3>2, OthersStay DEF Inv, PayloadFollowsKey
  <2>3. CASE BuildFails(b) \/ SessionFails(b) \/ EndSession(b) \/ Crash(b)
    <3>1. PICK p \in {"failed", "killed", "ended"} : Stop(b, p)
      BY <2>3 DEF BuildFails, SessionFails, EndSession, Crash
    <3>2. UNCHANGED <<tree, edits, store, refs, era>>
      BY <2>3 DEF BuildFails, SessionFails, EndSession, Crash
    <3>3. faults' = faults \/ (faults < MaxFaults /\ faults' = faults + 1)
      BY <2>3 DEF BuildFails, SessionFails, EndSession, Crash, Fault
    <3>4. faults' \in 0 .. MaxFaults /\ faults <= faults'
      BY <1>0, <3>3, BoundsAreNumbers
    <3>5. Types' /\ Builds(b)'
      BY <3>1, <3>2, <3>4, StopStep
    <3> QED BY <3>2, <3>5, OthersStay DEF Inv, PayloadFollowsKey
  <2>4. CASE OpenSession(b) \/ StartSession(b)
    <3>1. Types' /\ Builds(b)'
      BY <2>4, SessionStep
    <3>2. UNCHANGED store
      BY <2>4 DEF OpenSession, StartSession
    <3> QED BY <3>1, <3>2, <2>4, OthersStay DEF Inv, PayloadFollowsKey, Session
  <2> QED BY <1>2, <2>1, <2>2, <2>3, <2>4 DEF Build, Session
<1> QED BY <1>1, <1>2

----------------------------------------------------------------------------
(* Edits, collection and prune.                                            *)

LEMMA EditStep ==
    ASSUME Inv, NEW f \in Edited, Edit(f)
    PROVE  Inv'
<1>0. Types
  BY DEF Inv
<1>1. /\ edits < MaxEdits /\ edits' = edits + 1
      /\ tree' = [tree EXCEPT ![f] = edits + 1]
      /\ UNCHANGED <<plan, store, refs, locks, era, phase, work, faults>>
  BY DEF Edit, state
<1>2. PICK e : e = edits + 1
  OBVIOUS
<1>3. /\ e \in Contents /\ edits' = e /\ tree' = [tree EXCEPT ![f] = e]
      /\ edits <= e /\ \A g \in Files : tree[g] <= e
  BY <1>0, <1>1, <1>2, BoundsAreNumbers DEF Types, Contents
<1>4. /\ tree' \in [Files -> Contents]
      /\ \A g \in Files : tree[g] <= tree'[g] /\ tree'[g] <= edits'
  <2>1. tree' \in [Files -> Contents]
    BY <1>0, <1>3 DEF Types
  <2>2. ASSUME NEW g \in Files PROVE tree[g] <= tree'[g] /\ tree'[g] <= edits'
    <3>1. tree[g] \in Contents /\ tree[g] <= e /\ tree'[g] \in {e, tree[g]}
      BY <1>0, <1>3 DEF Types
    <3> QED BY <3>1, <1>3 DEF Contents
  <2> QED BY <2>1, <2>2
<1>5. Types'
  BY <1>0, <1>1, <1>3, <1>4 DEF Types
<1>6. ASSUME NEW b \in Builders PROVE Builds(b)'
  <2>1. Builds(b)
    BY DEF Inv
  <2>2. Resolves(b)'
    <3>1. Resolves(b) /\ UNCHANGED <<plan, phase, work>>
      BY <1>1, <2>1 DEF Builds
    <3>2. CASE phase[b] = "reading"
      <4>1. \A g \in Files : (plan[b].commit[g] <= tree[g])'
        <5>1. ASSUME NEW g \in Files PROVE plan[b].commit[g] <= tree'[g]
          <6>1. /\ plan[b].commit[g] \in Contents /\ tree[g] \in Contents
                /\ tree'[g] \in Contents /\ plan[b].commit[g] <= tree[g]
            BY <1>0, <1>4, <3>1, <3>2, Fields DEF Resolves, Types
          <6> QED BY <6>1, <1>4 DEF Contents
        <5> QED BY <5>1, <3>1
      <4> QED BY <3>1, <3>2, <4>1 DEF Resolves, Agrees, Reading, Building
    <3>3. CASE phase[b] = "captured"
      <4> DEFINE n == Len(plan[b].contents)
                 r == plan[b].recipe
      <4>1. /\ r \in Offered /\ n \in 1 .. Len(r) /\ plan[b].contents \in Seq(Contents)
            /\ plan[b].contents[n] <= tree[r[n].reads]
        BY <1>0, <3>1, <3>3, Fields, RecipesAreSteps DEF Resolves, Reading
      <4>2. /\ r[n].reads \in Files /\ plan[b].contents[n] \in Contents
            /\ tree[r[n].reads] \in Contents /\ tree'[r[n].reads] \in Contents
        BY <1>0, <1>4, <4>1, RecipesAreSteps, ElementOfSeq DEF Types
      <4>3. plan[b].contents[n] <= tree'[r[n].reads]
        BY <1>4, <4>1, <4>2 DEF Contents
      <4> QED BY <3>1, <3>3, <4>3 DEF Resolves, Agrees, Reading, Building
    <3>4. CASE phase[b] \notin {"reading", "captured"}
      BY <3>1, <3>4 DEF Resolves, Agrees, Reading, Building, Complete, Later
    <3> QED BY <3>2, <3>3, <3>4
  <2>3. Makes(b)'
    BY <1>1, <2>1 DEF Builds, Makes, Complete, Boundary, Later, Executes
  <2>4. Holds(b)' /\ (work[b].era <= era)'
    BY <1>1, <2>1 DEF Builds, Holds, Target, Boundary, Later
  <2> QED BY <2>2, <2>3, <2>4 DEF Builds
<1>7. PayloadFollowsKey'
  BY <1>1 DEF Inv, PayloadFollowsKey
<1> QED BY <1>5, <1>6, <1>7 DEF Inv

\* Removal of artifacts.
LEMMA RemovedStep ==
    ASSUME Types, PayloadFollowsKey, UNCHANGED <<tree, edits, phase, plan, work, refs, era>>,
           \A k \in DOMAIN store' : /\ k \in DOMAIN store /\ store'[k] \in Artifacts
                                    /\ store'[k].payload = store[k].payload,
           faults' = faults
    PROVE  Types' /\ PayloadFollowsKey'
<1>1. Types'
  BY DEF Types
<1>2. PayloadFollowsKey'
  BY DEF PayloadFollowsKey, Pinned
<1> QED BY <1>1, <1>2

\* A workspace that a collection or a prune removes.
LEMMA GoneStep ==
    ASSUME Inv, NEW b \in Builders, UNCHANGED <<tree, phase, plan, locks>>,
           era \in Nat, era' \in Nat, era <= era',
           work'[b] = work[b] \/
              (phase[b] \in Owning /\ work'[b] = [work[b] EXCEPT !.space = "gone"])
    PROVE  Builds(b)' /\ work'[b] \in Works
<1>0. Types /\ Builds(b) /\ work[b] \in Works
  BY DEF Inv, Types
<1>1. CASE work'[b] = work[b]
  BY <1>0, <1>1, OthersKeep DEF Works
<1>2. CASE phase[b] \in Owning /\ work'[b] = [work[b] EXCEPT !.space = "gone"]
  <2>1. PICK w : w = work'[b]
    OBVIOUS
  <2>2. /\ w \in Works /\ w.previous = work[b].previous /\ w.payload = work[b].payload
        /\ w.era = work[b].era
    BY <1>0, <1>2, <2>1 DEF Works
  <2>3. Later(b)' = Later(b) /\ Target(b)' = Target(b) /\ Boundary(b)' = Boundary(b)
    BY <2>1, <2>2, SameTarget
  <2>4. phase[b] \in {"copying", "running"} /\ phase'[b] = phase[b] /\ plan'[b] = plan[b]
    BY <1>2 DEF Owning
  <2>5. Resolves(b)'
    BY <1>0, <2>3, <2>4 DEF Builds, Resolves, Reading, Building, Complete, Agrees
  <2>6. Makes(b)'
    BY <1>0, <2>1, <2>2, <2>3, <2>4 DEF Builds, Makes, Reading, Building, Complete, Executes
  <2>7. Holds(b)' /\ (work[b].era <= era)'
    BY <1>0, <2>1, <2>2, <2>3, <2>4 DEF Builds, Holds, Owning, Works
  <2> QED BY <2>1, <2>2, <2>5, <2>6, <2>7 DEF Builds
<1> QED BY <1>1, <1>2

LEMMA CollectStep ==
    ASSUME Inv, Collect
    PROVE  Inv'
<1>0. Types /\ PayloadFollowsKey
  BY DEF Inv
\* Steps that touch neither an artifact nor a workspace.
<1>1. ASSUME UNCHANGED <<tree, edits, phase, plan, work, store, refs, locks, era>>,
             faults' \in 0 .. MaxFaults, faults <= faults'
      PROVE  Inv'
  <2>1. era <= faults'
    BY <1>0, <1>1, BoundsAreNumbers DEF Types
  <2>2. Types'
    BY <1>0, <1>1, <2>1 DEF Types
  <2>3. PayloadFollowsKey'
    BY <1>0, <1>1 DEF PayloadFollowsKey
  <2>4. ASSUME NEW b \in Builders PROVE Builds(b)'
    BY <1>0, <1>1, OthersKeep DEF Inv, Types, Works
  <2> QED BY <2>2, <2>3, <2>4 DEF Inv
<1>2. faults \in 0 .. MaxFaults /\ MaxFaults \in Nat
  BY <1>0, BoundsAreNumbers DEF Types
<1>3. CASE RootKeys
  <2>1. faults' \in 0 .. MaxFaults /\ faults <= faults'
    BY <1>2, <1>3 DEF RootKeys, Fault
  <2>2. UNCHANGED <<tree, edits, phase, plan, work, store, refs, locks, era>>
    BY <1>3 DEF RootKeys, resolving, state
  <2> QED BY <1>1, <2>1, <2>2
<1>4. CASE PlanRemoval \/ StopCollector \/ \E b \in Builders : RemoveSession(b)
  <2>1. UNCHANGED <<tree, edits, phase, plan, work, store, refs, locks, era, faults>>
    BY <1>4 DEF PlanRemoval, StopCollector, RemoveSession, resolving, state
  <2> QED BY <1>1, <1>2, <2>1
<1>5. CASE \E k \in gc.keys : BeginErase(k) \/ FinishErase(k)
  <2>1. PICK k \in gc.keys : BeginErase(k) \/ FinishErase(k)
    BY <1>5
  <2>2. UNCHANGED <<tree, edits, phase, plan, work, refs, locks, era, faults>>
    BY <2>1 DEF BeginErase, FinishErase, resolving
  <2>3. \A l \in DOMAIN store' : /\ l \in DOMAIN store /\ store'[l] \in Artifacts
                                 /\ store'[l].payload = store[l].payload
    <3>1. CASE BeginErase(k)
      <4>1. k \in DOMAIN store /\ store' = [store EXCEPT ![k].whole = FALSE]
        BY <3>1 DEF BeginErase, Whole
      <4>2. PICK a : a = [store[k] EXCEPT !.whole = FALSE]
        OBVIOUS
      <4>3. a \in Artifacts /\ a.payload = store[k].payload
        BY <1>0, <4>1, <4>2 DEF Types, Artifacts
      <4>4. store' = [store EXCEPT ![k] = a]
        BY <4>1, <4>2
      <4> QED BY <1>0, <4>1, <4>3, <4>4 DEF Types
    <3>2. CASE FinishErase(k)
      BY <1>0, <3>2 DEF FinishErase, Without, Types
    <3> QED BY <2>1, <3>1, <3>2
  <2>4. Types' /\ PayloadFollowsKey'
    BY <1>0, <2>2, <2>3, RemovedStep
  <2>5. ASSUME NEW b \in Builders PROVE Builds(b)'
    BY <1>0, <2>2, OthersKeep DEF Inv, Types, Works
  <2> QED BY <2>4, <2>5 DEF Inv
<1>6. CASE RemoveWorkspaces
  <2>1. UNCHANGED <<tree, edits, phase, plan, store, refs, locks, era, faults>>
    BY <1>6 DEF RemoveWorkspaces, resolving, state
  <2>2. ASSUME NEW b \in Builders PROVE Builds(b)' /\ work'[b] \in Works
    <3>1. work'[b] = work[b] \/
             (phase[b] \in Owning /\ work'[b] = [work[b] EXCEPT !.space = "gone"])
      BY <1>6 DEF RemoveWorkspaces, Owning
    <3>2. era \in Nat /\ era' \in Nat /\ era <= era'
      BY <1>0, <2>1 DEF Types
    <3> QED BY <2>1, <3>1, <3>2, GoneStep
  <2>3. work' \in [Builders -> Works]
    BY <1>6, <2>2 DEF RemoveWorkspaces
  <2>4. Types' /\ PayloadFollowsKey'
    BY <1>0, <2>1, <2>3 DEF Types, PayloadFollowsKey
  <2> QED BY <2>2, <2>4 DEF Inv
<1> QED BY <1>3, <1>4, <1>5, <1>6 DEF Collect

LEMMA PruneStep ==
    ASSUME Inv, Prune
    PROVE  Inv'
<1>0. Types
  BY DEF Inv
<1>1. /\ faults < MaxFaults /\ faults' = faults + 1 /\ era' = era + 1
      /\ store' = <<>> /\ refs' = <<>>
      /\ UNCHANGED <<tree, edits, plan, locks, phase>>
  BY DEF Prune, Fault, resolving
<1>2. era \in Nat /\ era' \in Nat /\ era <= era' /\ faults' \in 0 .. MaxFaults /\ era' <= faults'
  BY <1>0, <1>1, BoundsAreNumbers DEF Types
<1>3. ASSUME NEW b \in Builders PROVE Builds(b)' /\ work'[b] \in Works
  <2>1. work'[b] = work[b] \/
           (phase[b] \in Owning /\ work'[b] = [work[b] EXCEPT !.space = "gone"])
    BY DEF Prune, Owning
  <2> QED BY <1>1, <1>2, <2>1, GoneStep
<1>4. work' \in [Builders -> Works]
  BY <1>3 DEF Prune
<1>5. DOMAIN store' = {} /\ DOMAIN refs' = {}
  BY <1>1, EmptySeq
<1>6. Types' /\ PayloadFollowsKey'
  BY <1>0, <1>1, <1>2, <1>4, <1>5 DEF Types, PayloadFollowsKey
<1> QED BY <1>3, <1>6 DEF Inv

LEMMA InvStep == Inv /\ [Next]_vars => Inv'
<1> SUFFICES ASSUME Inv, [Next]_vars PROVE Inv'
  OBVIOUS
<1>1. ASSUME NEW f \in Edited, Edit(f) PROVE Inv'
  BY <1>1, EditStep
<1>2. ASSUME NEW b \in Builders, Start(b) \/ Resolve(b) \/ Build(b) \/ Session(b) \/ Crash(b)
      PROVE  Inv'
  BY <1>2, ResolveStep, BuilderStep
<1>3. CASE Collect
  BY <1>3, CollectStep
<1>4. CASE Prune
  BY <1>4, PruneStep
<1>5. CASE UNCHANGED vars
  <2>1. UNCHANGED <<tree, edits, plan, store, refs, locks, era, phase, work, faults>>
    BY <1>5 DEF vars, resolving, state
  <2>2. Types' /\ PayloadFollowsKey'
    BY <2>1 DEF Inv, Types, PayloadFollowsKey
  <2>3. ASSUME NEW b \in Builders PROVE Builds(b)'
    BY <2>1, OthersKeep DEF Inv, Types, Works
  <2> QED BY <2>2, <2>3 DEF Inv
<1> QED BY <1>1, <1>2, <1>3, <1>4, <1>5 DEF Next

LEMMA InvHolds == StoreSpec => []Inv
<1> QED BY InvInit, InvStep, PTL DEF StoreSpec

----------------------------------------------------------------------------
(* Who works on a key.                                                     *)

\* A new owner finds the lock file of its era free, and every owner holds one.
LEMMA OwnersStep == Inv /\ Inv' /\ OneBuilderPerKey /\ [Next]_vars => OneBuilderPerKey'
<1> SUFFICES ASSUME Inv, Inv', OneBuilderPerKey, [Next]_vars,
                    NEW b \in Builders, NEW c \in Builders, b # c,
                    phase'[b] \in Owning, phase'[c] \in Owning,
                    Target(b)' = Target(c)', work'[b].era = work'[c].era
             PROVE  FALSE
  BY DEF OneBuilderPerKey, Owning
<1>0. Types
  BY DEF Inv
<1> DEFINE Stays(d) == /\ phase[d] \in Owning
                       /\ Target(d)' = Target(d) /\ work'[d].era = work[d].era
           Locks(d) == /\ LockKey(d)
                       /\ Target(d)' = Target(d) /\ work'[d].era = work[d].era
\* Whoever owns a key afterwards owned it before, or has just locked it.
<1>1. ASSUME NEW d \in Builders, phase'[d] \in Owning
      PROVE  Stays(d) \/ Locks(d)
  <2>1. ASSUME phase[d] \in Owning, plan'[d] = plan[d], work'[d].previous = work[d].previous,
               work'[d].era = work[d].era
        PROVE  Stays(d)
    BY <2>1, SameTarget
  <2>2. CASE UNCHANGED <<phase, plan, work>>
    BY <1>1, <2>1, <2>2
  <2>3. ASSUME NEW e \in Builders, Start(e) \/ Resolve(e) \/ Build(e) \/ Session(e) \/ Crash(e)
        PROVE  Stays(d) \/ Locks(d)
    <3>1. CASE d # e
      <4>1. phase'[d] = phase[d] /\ plan'[d] = plan[d] /\ work'[d] = work[d]
        BY <1>0, <2>3, <3>1, StepOfOne
      <4> QED BY <1>1, <2>1, <4>1
    <3>2. CASE d = e
      <4>1. CASE LockKey(d)
        <5>1. plan'[d] = plan[d] /\ work' = [work EXCEPT ![d].space = "there"]
          BY <4>1 DEF LockKey, resolving
        <5>2. work'[d].previous = work[d].previous /\ work'[d].era = work[d].era
          BY <1>0, <5>1 DEF Types, Works
        <5> QED BY <4>1, <5>1, <5>2, SameTarget
      <4>2. CASE CopyPrevious(d)
        <5>1. plan'[d] = plan[d] /\ phase[d] \in Owning /\ work[d] \in Works
          BY <1>0, <4>2 DEF CopyPrevious, resolving, Owning, Types
        <5>2. CASE work[d].previous = <<>>
          BY <2>1, <4>2, <5>1, <5>2 DEF CopyPrevious
        <5>3. CASE work[d].previous # <<>>
          <6> DEFINE k == work[d].previous
          <6>0. PICK p, s : /\ p = store[k].payload
                            /\ s = IF Whole(k) /\ ~store[k].torn THEN "there" ELSE "torn"
            OBVIOUS
          <6>1. work' = [work EXCEPT ![d].payload = p, ![d].space = s]
            BY <4>2, <5>3, <6>0 DEF CopyPrevious
          <6>2. work'[d] = [work[d] EXCEPT !.payload = p, !.space = s]
            BY <1>0, <6>1 DEF Types
          <6>3. work'[d].previous = work[d].previous /\ work'[d].era = work[d].era
            BY <5>1, <6>2 DEF Works
          <6> QED BY <2>1, <5>1, <6>3
        <5> QED BY <5>2, <5>3
      <4>3. CASE RunStep(d)
        <5>1. /\ plan'[d] = plan[d] /\ phase[d] \in Owning
              /\ \E p : work' = [work EXCEPT ![d].payload = p]
          BY <4>3 DEF RunStep, resolving, Owning
        <5>2. work'[d].previous = work[d].previous /\ work'[d].era = work[d].era
          BY <1>0, <5>1 DEF Types, Works
        <5> QED BY <2>1, <5>1, <5>2
      <4>4. CASE Start(d) \/ Resolve(d)
        <5>1. phase'[d] \notin Owning
          BY <1>0, <4>4 DEF Start, Resolve, DigestPaths, ReadRevision, CaptureContent,
             ConfirmRevision, Go, Types, Owning, Resolving
        <5> QED BY <1>1, <5>1
      <4>5. CASE OpenLock(d) \/ Reuse(d) \/ Publish(d) \/ WriteReference(d) \/ BuildFails(d)
        <5>1. phase'[d] \notin Owning
          BY <1>0, <4>5 DEF OpenLock, Reuse, Publish, WriteReference, BuildFails, Stop, Go,
             Types, Owning
        <5> QED BY <1>1, <5>1
      <4>6. CASE Session(d) \/ Crash(d)
        <5>1. phase'[d] \notin Owning
          BY <1>0, <4>6 DEF Session, OpenSession, StartSession, SessionFails, EndSession, Crash,
             Stop, Go, Types, Owning
        <5> QED BY <1>1, <5>1
      <4> QED BY <2>3, <3>2, <4>1, <4>2, <4>3, <4>4, <4>5, <4>6 DEF Build
    <3> QED BY <3>1, <3>2
  <2>4. CASE RemoveWorkspaces \/ Prune
    <3>1. /\ UNCHANGED <<phase, plan>>
          /\ work'[d] = work[d] \/ work'[d] = [work[d] EXCEPT !.space = "gone"]
      BY <2>4 DEF RemoveWorkspaces, Prune, resolving
    <3>2. work'[d].previous = work[d].previous /\ work'[d].era = work[d].era
      BY <1>0, <3>1 DEF Types, Works
    <3> QED BY <1>1, <2>1, <3>1, <3>2
  <2>5. CASE Collect /\ ~ RemoveWorkspaces
    <3>1. UNCHANGED <<phase, plan, work>>
      BY <2>5 DEF Collect, RootKeys, PlanRemoval, StopCollector, RemoveSession, BeginErase,
         FinishErase, resolving
    <3> QED BY <2>2, <3>1
  <2>6. CASE \E f \in Edited : Edit(f)
    <3>1. UNCHANGED <<phase, plan, work>>
      BY <2>6 DEF Edit
    <3> QED BY <2>2, <3>1
  <2>7. CASE UNCHANGED vars
    <3>1. UNCHANGED <<phase, plan, work>>
      BY <2>7 DEF vars, resolving
    <3> QED BY <2>2, <3>1
  <2> QED BY <2>3, <2>4, <2>5, <2>6, <2>7 DEF Next
<1>2. CASE Stays(b) /\ Stays(c)
  BY <1>2 DEF OneBuilderPerKey, Owning
<1>3. ASSUME NEW d \in Builders, NEW e \in Builders, d # e, Locks(d), Stays(e),
             Target(d)' = Target(e)', work'[d].era = work'[e].era
      PROVE  FALSE
  <2>1. <<Target(e), work[e].era, e>> \in locks
    BY <1>3 DEF Inv, Builds, Holds
  <2>2. Free(d)
    BY <1>3 DEF LockKey
  <2> QED BY <1>3, <2>1, <2>2 DEF Free
<1>4. CASE Locks(b) /\ Locks(c)
  <2>1. phase[c] = "waiting" /\ phase' = [phase EXCEPT ![b] = "copying"]
    BY <1>4 DEF LockKey, Go
  <2> QED BY <1>0, <2>1 DEF Types, Owning
<1> QED BY <1>1, <1>2, <1>3, <1>4

----------------------------------------------------------------------------
(* Theorems.                                                               *)

\* Types.  Whatever is built, killed, collected and pruned, artifacts,
\* references and the builders' state keep their shape, and a waiting builder
\* owns no workspace.
THEOREM StoreTypes == StoreSpec => []TypeOK
<1>1. Inv => TypeOK
  <2> SUFFICES ASSUME Inv PROVE TypeOK
    OBVIOUS
  <2>0. Types
    BY DEF Inv
  <2>1. \A k \in DOMAIN store : IsKey(k) /\ store[k].payload \in Seq(Materials)
    BY <2>0 DEF Types, IsKey, Artifacts
  <2>2. \A n \in DOMAIN refs : IsKey(refs[n])
    BY <2>0 DEF Types, IsKey
  <2>3. ASSUME NEW b \in Builders
        PROVE  /\ plan[b].recipe \in Offered \cup {<<>>}
               /\ plan[b].contents \in Seq(0 .. MaxEdits)
               /\ plan[b].commit \in [Files -> 0 .. MaxEdits]
               /\ plan[b].attempts \in 0 .. Attempts
               /\ work[b].era \in 0 .. era
               /\ phase[b] \in {"resolving", "waiting"} => work[b].space = "none"
    <3>1. Builds(b) /\ era \in Nat /\ work[b].era \in Nat
      BY <2>0, Fields DEF Inv, Types
    <3> QED BY <2>0, <3>1, Fields DEF Builds, Makes, Contents, Reading
  <2> QED BY <2>0, <2>1, <2>2, <2>3, BoundsAreNumbers DEF TypeOK, Types, Contents
<1> QED BY <1>1, InvHolds, PTL

\* What was executed into an artifact is what its key says, for any recipes,
\* edits, kills, collections and prunes (build_resolved, jj_tree_identity).
THEOREM PayloadsFollowKeys == StoreSpec => []PayloadFollowsKey
<1>1. Inv => PayloadFollowsKey
  BY DEF Inv
<1> QED BY <1>1, InvHolds, PTL

\* Two builders work on one key only after a prune (key_lock).
THEOREM OneBuilderHoldsAKey == StoreSpec => []OneBuilderPerKey
<1>1. Init => OneBuilderPerKey
  BY DEF Init, OneBuilderPerKey
<1> QED BY <1>1, OwnersStep, InvHolds, PTL DEF StoreSpec

\* The loop of a build ends at the key that its recipe and its digests name,
\* never at an earlier boundary (build_resolved, Recipe.__post_init__).
THEOREM BuildsCoverRecipes == StoreSpec => []BuildCoversRecipe
<1>1. Inv => BuildCoversRecipe
  <2> SUFFICES ASSUME Inv, NEW b \in Builders, Seeking(b), Later(b) = {}
               PROVE  work[b].previous = OutputKey(b)
    BY DEF BuildCoversRecipe
  <2>1. Types /\ Resolves(b) /\ Makes(b) /\ phase[b] = "resolving"
    BY DEF Inv, Builds, Seeking
  <2> DEFINE r == plan[b].recipe
  <2>2. r \in Offered /\ Len(r) \in Nat /\ Len(r) >= 1 /\ r[Len(r)].checkpoint
        /\ Len(r) \in DOMAIN r
    BY <2>1, BuilderFacts, RecipesAreSteps
  <2>3. ~ (Len(r) > Len(work[b].previous))
    BY <2>2 DEF Later
  <2>4. work[b].previous # <<>>
    BY <2>2, <2>3, EmptySeq
  <2>5. PICK i \in 1 .. Len(r) : work[b].previous = Key(r, i, plan[b].contents)
    BY <2>1, <2>4 DEF Makes
  <2>6. Len(work[b].previous) = i
    BY <2>1, <2>2, <2>5, BuilderFacts
  <2>7. i = Len(r)
    BY <2>2, <2>3, <2>6
  <2> QED BY <2>5, <2>7 DEF OutputKey
<1> QED BY <1>1, InvHolds, PTL

\* Only these change which artifacts there are.
LEMMA StoreSteps ==
    ASSUME [Next]_vars
    PROVE  \/ UNCHANGED store
           \/ \E b \in Builders : Publish(b)
           \/ \E k \in gc.keys : BeginErase(k) \/ FinishErase(k)
           \/ Prune
<1>1. CASE \E b \in Builders : Start(b) \/ Resolve(b) \/ Session(b) \/ Crash(b)
  BY <1>1 DEF Start, Resolve, DigestPaths, ReadRevision, CaptureContent, ConfirmRevision,
     Session, OpenSession, StartSession, SessionFails, EndSession, Crash, state
<1>2. CASE \E b \in Builders : Build(b) /\ ~ Publish(b)
  BY <1>2 DEF Build, OpenLock, LockKey, Reuse, CopyPrevious, RunStep, WriteReference,
     BuildFails, state
<1>3. CASE \E f \in Edited : Edit(f)
  BY <1>3 DEF Edit, state
<1>4. CASE RootKeys \/ PlanRemoval \/ RemoveWorkspaces \/ StopCollector
           \/ \E b \in Builders : RemoveSession(b)
  BY <1>4 DEF RootKeys, PlanRemoval, RemoveWorkspaces, StopCollector, RemoveSession, state
<1>5. CASE UNCHANGED vars
  BY <1>5 DEF vars, state
<1> QED BY <1>1, <1>2, <1>3, <1>4, <1>5 DEF Next, Collect

\* A published artifact is never replaced (publish_locked).
THEOREM ArtifactsArePublishedOnce == StoreSpec => PublishedOnce
<1> DEFINE Once == \A k \in DOMAIN store \cap DOMAIN store' :
                      /\ store'[k].payload = store[k].payload
                      /\ store'[k].torn = store[k].torn
<1>1. Inv /\ [Next]_vars => [Once]_vars
  <2> SUFFICES ASSUME Inv, [Next]_vars PROVE Once
    OBVIOUS
  <2>1. CASE UNCHANGED store
    BY <2>1
  <2>2. CASE \E b \in Builders : Publish(b)
    BY <2>1, <2>2 DEF Publish, With
  <2>3. CASE \E k \in gc.keys : BeginErase(k)
    <3>1. PICK k \in DOMAIN store : store' = [store EXCEPT ![k].whole = FALSE]
      BY <2>3 DEF BeginErase, Whole
    <3>2. store[k] \in Artifacts
      BY DEF Inv, Types
    <3>3. PICK a : a = [store[k] EXCEPT !.whole = FALSE]
      OBVIOUS
    <3>4. a.payload = store[k].payload /\ a.torn = store[k].torn
      BY <3>2, <3>3 DEF Artifacts
    <3>5. store' = [store EXCEPT ![k] = a]
      BY <3>1, <3>3
    <3> QED BY <3>4, <3>5
  <2>4. CASE \E k \in gc.keys : FinishErase(k)
    BY <2>4 DEF FinishErase, Without
  <2>5. CASE Prune
    BY <2>5, EmptySeq DEF Prune
  <2> QED BY <2>1, <2>2, <2>3, <2>4, <2>5, StoreSteps
<1>2. StoreSpec => [][Once]_vars
  BY <1>1, InvHolds, PTL DEF StoreSpec
<1> QED BY <1>2 DEF PublishedOnce

----------------------------------------------------------------------------
(* Collection.  A key says by itself which checkpoints its artifact needs,  *)
(* so what a collection spares stays spared when an artifact is erased and  *)
(* published again, by whichever target, while the collection removes.      *)

IsBoundary(role) == \E r \in Offered : \E i \in DOMAIN r : r[i].role = role /\ r[i].checkpoint

Prefix(k, n) == [i \in 1 .. n |-> k[i]]

\* The prefixes of a key that end at a publication boundary.
Stops(k) == {Prefix(k, n) : n \in {m \in 1 .. Len(k) : IsBoundary(k[m].role)}}

\* A published artifact names all boundaries of its target's recipe, and is one of them.
Chained(k) ==
    \E r \in Offered, contents \in Seq(Contents) :
        /\ Len(contents) = Len(r)
        /\ store[k].chain = Boundaries(r, Len(r), contents)
        /\ k \in Boundaries(r, Len(r), contents)

Chains == \A k \in DOMAIN store : Chained(k)

Spares == /\ DOMAIN gc = DOMAIN Resting
          /\ gc.phase = "removing" => \A k \in gc.kept : Stops(k) \cap gc.keys = {}

LEMMA BoundaryByRole ==
    ASSUME NEW r \in Offered, NEW i \in 1 .. Len(r)
    PROVE  IsBoundary(r[i].role) <=> r[i].checkpoint
<1>1. i \in DOMAIN r /\ r[i] \in Steps
  BY RecipesAreSteps
<1>2. r[i].checkpoint \in BOOLEAN
  BY <1>1 DEF Steps
<1>3. ASSUME r[i].checkpoint PROVE IsBoundary(r[i].role)
  BY <1>1, <1>3 DEF IsBoundary
<1>4. ASSUME IsBoundary(r[i].role) PROVE r[i].checkpoint
  <2>1. PICK s \in Offered : \E j \in DOMAIN s : s[j].role = r[i].role /\ s[j].checkpoint
    BY <1>4 DEF IsBoundary
  <2>2. PICK j \in DOMAIN s : s[j].role = r[i].role /\ s[j].checkpoint
    BY <2>1
  <2>3. s[j].checkpoint = r[i].checkpoint
    BY <1>1, <2>2, OneRoleIsABoundary
  <2> QED BY <2>2, <2>3
<1> QED BY <1>2, <1>3, <1>4

\* The boundaries up to a key are the stops of that key.
LEMMA StopsAreBoundaries ==
    ASSUME NEW r \in Offered, NEW contents \in Seq(Contents), Len(contents) = Len(r),
           NEW k \in Boundaries(r, Len(r), contents)
    PROVE  Stops(k) = {j \in Boundaries(r, Len(r), contents) : Len(j) <= Len(k)}
<1>0. Len(r) \in Nat /\ \A n \in 1 .. Len(r) : n \in 0 .. Len(r) /\ n <= Len(contents)
  BY RecipesAreSteps
<1>1. PICK n \in 1 .. Len(r) : k = Key(r, n, contents)
  BY DEF Boundaries
<1>2. \A m \in 1 .. Len(r) : Len(Key(r, m, contents)) = m
  BY <1>0, KeysAreMaterials
<1>3. Len(k) = n
  BY <1>1, <1>2
<1>4. ASSUME NEW m \in 1 .. n
      PROVE  /\ Prefix(k, m) = Key(r, m, contents)
             /\ IsBoundary(k[m].role) <=> r[m].checkpoint
  <2>1. \A i \in 1 .. n : k[i] = Material(r[i], contents[i])
    BY <1>1 DEF Key
  <2>2. \A i \in 1 .. m : i \in 1 .. n
    BY <1>0, <1>1
  <2>3. Prefix(k, m) = Key(r, m, contents)
    BY <2>1, <2>2 DEF Prefix, Key
  <2>4. k[m] = Material(r[m], contents[m]) /\ m \in 1 .. Len(r)
    BY <1>0, <2>1
  <2>5. k[m].role = r[m].role
    BY <2>4 DEF Material
  <2> QED BY <2>3, <2>4, <2>5, BoundaryByRole
<1>5. Stops(k) = {Key(r, m, contents) : m \in {l \in 1 .. n : r[l].checkpoint}}
  <2> HIDE DEF Key, IsBoundary, Prefix
  <2>1. Stops(k) = {Prefix(k, m) : m \in {l \in 1 .. n : IsBoundary(k[l].role)}}
    BY <1>3 DEF Stops
  <2>2. {l \in 1 .. n : IsBoundary(k[l].role)} = {l \in 1 .. n : r[l].checkpoint}
    BY <1>4
  <2> QED BY <1>4, <2>1, <2>2
<1>6. {j \in Boundaries(r, Len(r), contents) : Len(j) <= Len(k)}
         = {Key(r, m, contents) : m \in {l \in 1 .. n : r[l].checkpoint}}
  <2> HIDE DEF Key
  <2>1. Boundaries(r, Len(r), contents)
           = {Key(r, m, contents) : m \in {l \in 1 .. Len(r) : r[l].checkpoint}}
    BY DEF Boundaries
  <2>2. \A m \in 1 .. Len(r) : m \in 1 .. n <=> Len(Key(r, m, contents)) <= Len(k)
    BY <1>0, <1>2, <1>3
  <2> QED BY <1>0, <1>1, <2>1, <2>2
<1> QED BY <1>5, <1>6

LEMMA NeedsAreStops ==
    ASSUME Chains, NEW k \in DOMAIN store
    PROVE  Needs(k) = Stops(k)
<1>1. PICK r \in Offered, contents \in Seq(Contents) :
         /\ Len(contents) = Len(r)
         /\ store[k].chain = Boundaries(r, Len(r), contents)
         /\ k \in Boundaries(r, Len(r), contents)
  BY DEF Chains, Chained
<1> QED BY <1>1, StopsAreBoundaries DEF Needs

\* What is spared is spared with all that it needs.
LEMMA SparedWithStops ==
    ASSUME Chains, NEW roots, NEW k \in DOMAIN store, k \in Spared(roots)
    PROVE  Stops(k) \subseteq Spared(roots)
<1>1. CASE k \in roots
  BY <1>1, NeedsAreStops DEF Spared, Needs
<1>2. CASE k \notin roots
  <2>1. PICK l \in roots \cap DOMAIN store : k \in store[l].chain
    BY <1>2 DEF Spared
  <2>2. PICK r \in Offered, contents \in Seq(Contents) :
           Len(contents) = Len(r) /\ store[l].chain = Boundaries(r, Len(r), contents)
    BY DEF Chains, Chained
  <2>3. Stops(k) \subseteq store[l].chain
    BY <2>1, <2>2, StopsAreBoundaries
  <2> QED BY <2>1, <2>3 DEF Spared
<1> QED BY <1>1, <1>2

LEMMA PublishedIsChained ==
    ASSUME Inv, NEW b \in Builders, phase[b] = "running"
    PROVE  \E r \in Offered, contents \in Seq(Contents) :
               /\ Len(contents) = Len(r)
               /\ Artifact(b).chain = Boundaries(r, Len(r), contents)
               /\ Target(b) \in Boundaries(r, Len(r), contents)
<1>1. /\ plan[b].recipe \in Offered /\ plan[b].contents \in Seq(Contents)
      /\ Complete(b) /\ Later(b) # {}
  BY BuilderFacts DEF Inv, Builds, Resolves, Building
<1>2. Boundary(b) \in Later(b) /\ Boundary(b) \in 1 .. Len(plan[b].recipe)
  BY <1>1, BoundaryIsLater
<1>3. plan[b].recipe[Boundary(b)].checkpoint
  BY <1>2 DEF Later
<1>4. Target(b) \in Boundaries(plan[b].recipe, Len(plan[b].recipe), plan[b].contents)
  BY <1>2, <1>3 DEF Target, Boundaries
<1>5. Artifact(b).chain = Boundaries(plan[b].recipe, Len(plan[b].recipe), plan[b].contents)
  <2> HIDE DEF Boundaries
  <2> QED BY DEF Artifact
<1> QED BY <1>1, <1>4, <1>5 DEF Complete

LEMMA ChainsStep == Inv /\ Chains /\ [Next]_vars => Chains'
<1> SUFFICES ASSUME Inv, Chains, [Next]_vars PROVE Chains'
  OBVIOUS
<1>1. CASE UNCHANGED store
  BY <1>1 DEF Chains, Chained
<1>2. CASE \E b \in Builders : Publish(b)
  <2>1. PICK b \in Builders : Publish(b)
    BY <1>2
  <2>2. PICK a : a = Artifact(b)
    OBVIOUS
  <2>3. PICK k : k = Target(b)
    OBVIOUS
  <2>4. CASE ~ UNCHANGED store
    <3>1. store' = With(store, k, a) /\ phase[b] = "running"
      BY <2>1, <2>2, <2>3, <2>4 DEF Publish
    <3>2. /\ DOMAIN store' = DOMAIN store \cup {k} /\ store'[k] = a
          /\ \A l \in DOMAIN store : l # k => store'[l] = store[l]
      BY <3>1 DEF With
    <3>3. Chained(k)'
      BY <2>2, <2>3, <3>1, <3>2, PublishedIsChained DEF Chained
    <3>4. ASSUME NEW l \in DOMAIN store, l # k PROVE Chained(l)'
      BY <3>2, <3>4 DEF Chains, Chained
    <3> QED BY <3>2, <3>3, <3>4 DEF Chains
  <2> QED BY <1>1, <2>4
<1>3. CASE \E k \in gc.keys : BeginErase(k)
  <2>1. PICK k \in DOMAIN store : store' = [store EXCEPT ![k].whole = FALSE]
    BY <1>3 DEF BeginErase, Whole
  <2>2. store[k] \in Artifacts
    BY DEF Inv, Types
  <2>3. PICK a : a = [store[k] EXCEPT !.whole = FALSE]
    OBVIOUS
  <2>4. a.chain = store[k].chain
    BY <2>2, <2>3 DEF Artifacts
  <2>5. store' = [store EXCEPT ![k] = a]
    BY <2>1, <2>3
  <2>6. DOMAIN store' = DOMAIN store /\ \A l \in DOMAIN store : store'[l].chain = store[l].chain
    BY <2>4, <2>5
  <2> QED BY <2>6 DEF Chains, Chained
<1>4. CASE \E k \in gc.keys : FinishErase(k)
  BY <1>4 DEF FinishErase, Without, Chains, Chained
<1>5. CASE Prune
  BY <1>5, EmptySeq DEF Prune, Chains
<1> QED BY <1>1, <1>2, <1>3, <1>4, <1>5, StoreSteps

\* Only the collector plans, and it never changes what it keeps.
LEMMA CollectorSteps ==
    ASSUME [Next]_vars
    PROVE  \/ UNCHANGED gc
           \/ PlanRemoval
           \/ gc' = Resting
           \/ RootKeys
           \/ \E b \in Builders : RemoveSession(b)
           \/ \E k \in gc.keys : FinishErase(k)
<1>1. CASE \E b \in Builders : Start(b) \/ Resolve(b) \/ Session(b) \/ Crash(b)
  BY <1>1 DEF Start, Resolve, DigestPaths, ReadRevision, CaptureContent, ConfirmRevision,
     Session, OpenSession, StartSession, SessionFails, EndSession, Crash
<1>2. CASE \E b \in Builders : Build(b)
  BY <1>2 DEF Build, OpenLock, LockKey, Reuse, CopyPrevious, RunStep, WriteReference,
     BuildFails, Publish
<1>3. CASE Prune \/ \E f \in Edited : Edit(f)
  BY <1>3 DEF Edit, Prune
<1>4. CASE RemoveWorkspaces \/ StopCollector \/ \E k \in gc.keys : BeginErase(k)
  BY <1>4 DEF RemoveWorkspaces, StopCollector, BeginErase
<1>5. CASE UNCHANGED vars
  BY <1>5 DEF vars
<1> QED BY <1>1, <1>2, <1>3, <1>4, <1>5 DEF Next, Collect

LEMMA SparesStep == Chains /\ Spares /\ [Next]_vars => Spares'
<1> SUFFICES ASSUME Chains, Spares, [Next]_vars PROVE Spares'
  OBVIOUS
<1>0. DOMAIN Resting = {"phase", "roots", "keys", "kept", "sessions", "spaces"}
  BY DEF Resting
<1>1. CASE UNCHANGED gc \/ gc' = Resting
  BY <1>1 DEF Spares, Resting
<1>2. CASE PlanRemoval /\ gc' # Resting
  <2>1. PICK spared : spared = Spared(gc.roots)
    OBVIOUS
  <2>2. gc' = [gc EXCEPT !.phase = "removing", !.roots = {}, !.keys = DOMAIN store \ spared,
                 !.kept = DOMAIN store \cap spared,
                 !.sessions = {b \in Builders : sessions[b].dir = "manifest"},
                 !.spaces = {<<b, Target(b)>> : b \in {c \in Builders :
                                phase[c] \in {"copying", "running"}}}]
    BY <1>2, <2>1 DEF PlanRemoval
  <2>3. /\ gc'.kept = DOMAIN store \cap spared /\ gc'.keys = DOMAIN store \ spared
        /\ DOMAIN gc' = DOMAIN gc
    BY <1>0, <2>2 DEF Spares
  <2>4. \A k \in gc'.kept : Stops(k) \subseteq spared
    BY <2>1, <2>3, SparedWithStops
  <2> QED BY <2>3, <2>4 DEF Spares
<1>3. CASE RootKeys
  <2>1. gc'.phase = "rooted" /\ DOMAIN gc' = DOMAIN gc
    BY <1>0, <1>3 DEF RootKeys, Spares
  <2> QED BY <2>1 DEF Spares
<1>4. CASE \E b \in Builders : RemoveSession(b)
  <2>1. /\ DOMAIN gc' = DOMAIN gc /\ gc'.kept = gc.kept /\ gc'.keys = gc.keys
        /\ gc.phase = "removing"
    BY <1>0, <1>4 DEF RemoveSession, Spares
  <2> QED BY <2>1 DEF Spares
<1>5. CASE \E k \in gc.keys : FinishErase(k)
  <2>1. /\ DOMAIN gc' = DOMAIN gc /\ gc'.kept = gc.kept /\ gc'.keys \subseteq gc.keys
        /\ gc.phase = "removing"
    BY <1>0, <1>5 DEF FinishErase, Spares
  <2> QED BY <2>1 DEF Spares
<1> QED BY <1>1, <1>2, <1>3, <1>4, <1>5, CollectorSteps

LEMMA CollectionInvariant == StoreSpec => [](Inv /\ Chains /\ Spares)
<1>1. Init => Chains /\ Spares
  BY EmptySeq DEF Init, Chains, Spares, Resting
<1>2. Inv /\ Chains /\ Spares /\ [Next]_vars => (Chains /\ Spares)'
  BY ChainsStep, SparesStep
<1> QED BY <1>1, <1>2, InvHolds, PTL DEF StoreSpec

\* A collection never takes a checkpoint out from under a reference whose
\* artifact it decided to keep, whatever is built, pruned, published again or
\* collected meanwhile (garbage_collect).
THEOREM CollectionsSpareReferences == StoreSpec => CollectionSparesReferences
<1> DEFINE Sparing == \A k \in DOMAIN store \ DOMAIN store', n \in DOMAIN refs :
              (era' = era /\ refs[n] \in gc.kept \cap DOMAIN store) => k \notin Needs(refs[n])
<1>1. Inv /\ Chains /\ Spares /\ [Next]_vars => [Sparing]_vars
  <2> SUFFICES ASSUME Inv, Chains, Spares, [Next]_vars,
                      NEW k \in DOMAIN store \ DOMAIN store', NEW n \in DOMAIN refs,
                      era' = era, refs[n] \in gc.kept \cap DOMAIN store
               PROVE  k \notin Needs(refs[n])
    OBVIOUS
  <2>1. CASE UNCHANGED store
    BY <2>1
  <2>2. CASE \E b \in Builders : Publish(b)
    BY <2>2 DEF Publish, With
  <2>3. CASE \E l \in gc.keys : BeginErase(l)
    BY <2>3 DEF BeginErase
  <2>4. CASE \E l \in gc.keys : FinishErase(l)
    <3>1. k \in gc.keys /\ gc.phase = "removing"
      BY <2>4 DEF FinishErase, Without
    <3>2. k \notin Stops(refs[n])
      BY <3>1 DEF Spares
    <3> QED BY <3>2, NeedsAreStops
  <2>5. CASE Prune
    <3>1. era \in Nat /\ era' = era + 1
      BY <2>5 DEF Prune, Inv, Types
    <3> QED BY <3>1
  <2> QED BY <2>1, <2>2, <2>3, <2>4, <2>5, StoreSteps
<1>2. StoreSpec => [][Sparing]_vars
  BY <1>1, CollectionInvariant, PTL DEF StoreSpec
<1> QED BY <1>2 DEF CollectionSparesReferences
=============================================================================
