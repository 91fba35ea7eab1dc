------------------------ MODULE StagingChangesProofs ------------------------
(* The change report, rebases, promotions and the Tonel fix, for any number of
   paths and contents.  The loop of staging_changes is a recursive function over
   the places of PathOrder: that it exists and what it keeps after each turn
   follow from the least place at which they would fail.                      *)
EXTENDS SourceFix, TreeMergeProofs, WellFoundedInduction

----------------------------------------------------------------------------
(* Places and first paths.                                                  *)

LEMMA LeastPlace ==
    ASSUME NEW T, T \subseteq Nat, T # {}
    PROVE  \E m \in T : \A k \in T : m <= k
<1> DEFINE R == OpToRel(<, Nat)
<1>1. \A x, y \in Nat : x < y => <<x, y>> \in R
  BY DEF OpToRel
<1>2. PICK m \in T : \A k \in T : ~ (<<k, m>> \in R)
  <2>1. IsWellFoundedOn(R, Nat)
    BY NatLessThanWellFounded, Zenon
  <2> HIDE DEF R
  <2> QED BY <2>1, WFMin, Zenon
<1> HIDE DEF R
<1>3. \A k \in T : ~(k < m)
  BY <1>1, <1>2
<1> QED BY <1>3

LEMMA PlacesAreNumbers ==
    /\ Len(PathOrder) \in Nat
    /\ \A i \in 1 .. Len(PathOrder) : PathOrder[i] \in Paths
BY PathOrderAssumption

LEMMA FirstIsOne ==
    ASSUME NEW S, S \subseteq Paths, S # {}
    PROVE  First(S) \in S
<1> DEFINE places == {i \in 1 .. Len(PathOrder) : PathOrder[i] \in S}
<1>1. places # {}
  BY PathOrderAssumption
<1>2. places \subseteq Nat
  BY PlacesAreNumbers
<1>3. \E i \in places : \A j \in places : i <= j
  BY <1>1, <1>2, LeastPlace
<1>4. (CHOOSE i \in places : \A j \in places : i <= j) \in places
  BY <1>3
<1> QED BY <1>4 DEF First

----------------------------------------------------------------------------
(* The loop over the removals.                                              *)

Start(from, to) ==
    [additions |-> Added(from, to), removals |-> Added(to, from), renames |-> {}]

Turn(from, to, report, n) ==
    IF PathOrder[n] \in Added(to, from)
    THEN PairRemoval(from, to, report, PathOrder[n])
    ELSE report

IsLoop(from, to, f, m) ==
    f = [n \in 0 .. m |-> IF n = 0 THEN Start(from, to) ELSE Turn(from, to, f[n - 1], n)]

LEMMA LoopExists ==
    ASSUME NEW from, NEW to, NEW m \in Nat
    PROVE  \E f : IsLoop(from, to, f, m)
<1> DEFINE Bad == {n \in Nat : ~ \E f : IsLoop(from, to, f, n)}
<1>1. ASSUME Bad # {} PROVE FALSE
  <2>1. PICK n \in Bad : \A k \in Bad : n <= k
    BY <1>1, LeastPlace
  <2>2. n # 0
    <3>1. IsLoop(from, to, [k \in 0 .. 0 |-> Start(from, to)], 0)
      BY DEF IsLoop
    <3> QED BY <3>1
  <2>3. n - 1 \in Nat /\ n \in Nat
    BY <2>2
  <2>4. PICK g : IsLoop(from, to, g, n - 1)
    BY <2>1, <2>3
  <2> DEFINE h == [k \in 0 .. n |-> IF k = n THEN Turn(from, to, g[n - 1], n) ELSE g[k]]
  <2>5. \A k \in 0 .. n - 1 :
            g[k] = IF k = 0 THEN Start(from, to) ELSE Turn(from, to, g[k - 1], k)
    BY <2>4 DEF IsLoop
  <2>6. ASSUME NEW k \in 0 .. n
        PROVE  h[k] = IF k = 0 THEN Start(from, to) ELSE Turn(from, to, h[k - 1], k)
    <3>1. CASE k = n
      <4>1. h[n - 1] = g[n - 1]
        BY <2>3
      <4> QED BY <3>1, <4>1, <2>2, <2>3
    <3>2. CASE k # n
      <4>1. k \in 0 .. n - 1
        BY <3>2, <2>3
      <4>2. h[k] = g[k]
        BY <3>2
      <4>3. k # 0 => h[k - 1] = g[k - 1]
        BY <4>1, <2>3
      <4> HIDE DEF h
      <4> QED BY <4>1, <4>2, <4>3, <2>5
    <3> QED BY <3>1, <3>2
  <2>7. IsLoop(from, to, h, n)
    <3>1. h = [k \in 0 .. n |-> h[k]]
      OBVIOUS
    <3> HIDE DEF h
    <3> QED BY <2>6, <3>1 DEF IsLoop
  <2> QED BY <2>1, <2>7
<1> QED BY <1>1

LEMMA PairingIsALoop ==
    ASSUME NEW from, NEW to
    PROVE  \E f : IsLoop(from, to, f, Len(PathOrder)) /\ Pairing(from, to) = f[Len(PathOrder)]
<1> DEFINE f == CHOOSE g : IsLoop(from, to, g, Len(PathOrder))
<1>1. IsLoop(from, to, f, Len(PathOrder))
  BY LoopExists, PlacesAreNumbers
<1>2. Pairing(from, to) = f[Len(PathOrder)]
  BY Zenon DEF Pairing, IsLoop, Start, Turn
<1> QED BY <1>1, <1>2

\* The report after n turns: what it mentions is what was added and removed,
\* a rename has left both lists, no addition is in two renames, and the removals
\* seen so far that remain match no addition that remains.
Paired(from, to, report, n) ==
    /\ report = [additions |-> report.additions, removals |-> report.removals,
                 renames |-> report.renames]
    /\ report.additions \subseteq Added(from, to)
    /\ report.removals \subseteq Added(to, from)
    /\ report.renames \subseteq Added(to, from) \X Added(from, to)
    /\ \A p \in Added(from, to) :
           p \in report.additions \/ \E pair \in report.renames : pair[2] = p
    /\ \A p \in Added(to, from) :
           p \in report.removals \/ \E pair \in report.renames : pair[1] = p
    /\ \A pair \in report.renames :
           /\ from[pair[1]] = to[pair[2]]
           /\ pair[1] \notin report.removals
           /\ pair[2] \notin report.additions
           /\ \E i \in 1 .. n : PathOrder[i] = pair[1]
    /\ \A one, other \in report.renames :
           one[1] = other[1] \/ one[2] = other[2] => one = other
    /\ \A i \in 1 .. n : \A new \in report.additions :
           PathOrder[i] \in report.removals => from[PathOrder[i]] # to[new]

\* Before the loop nothing is paired and nothing has been seen.
LEMMA StartIsPaired ==
    ASSUME NEW from, NEW to
    PROVE  Paired(from, to, Start(from, to), 0)
BY DEF Paired, Start

\* One turn pairs the removal at the next place or finds nothing to pair it with.
LEMMA TurnKeepsPaired ==
    ASSUME NEW from, NEW to, NEW report, NEW n \in Nat,
           n + 1 \in 1 .. Len(PathOrder), Paired(from, to, report, n)
    PROVE  Paired(from, to, Turn(from, to, report, n + 1), n + 1)
<1> DEFINE old     == PathOrder[n + 1]
           matches == {new \in report.additions : from[old] = to[new]}
<1>0. /\ \A i \in 1 .. n + 1 : i \in 1 .. n \/ i = n + 1
      /\ \A i \in 1 .. n : i \in 1 .. n + 1 /\ i # n + 1
      /\ n + 1 \in 1 .. n + 1
      /\ \A i \in 1 .. n : i \in 1 .. Len(PathOrder)
      /\ old \in Paths
  BY PlacesAreNumbers
<1>1. \A i \in 1 .. n : PathOrder[i] # old
  BY <1>0, PathOrderAssumption
<1>2. CASE old \notin Added(to, from)
  <2>1. Turn(from, to, report, n + 1) = report
    BY <1>2 DEF Turn
  <2>2. old \notin report.removals
    BY <1>2 DEF Paired
  <2> HIDE DEF old
  <2> QED BY <2>1, <2>2, <1>0 DEF Paired, old
<1>3. CASE old \in Added(to, from) /\ matches = {}
  <2>1. Turn(from, to, report, n + 1) = report
    BY <1>3 DEF Turn, PairRemoval
  <2>2. \A new \in report.additions : from[old] # to[new]
    BY <1>3
  <2> HIDE DEF old
  <2> QED BY <2>1, <2>2, <1>0 DEF Paired, old
<1>4. CASE old \in Added(to, from) /\ matches # {}
  <2> DEFINE new == First(matches)
             next == Turn(from, to, report, n + 1)
  <2>1. next = [additions |-> report.additions \ {new},
                removals  |-> report.removals \ {old},
                renames   |-> report.renames \cup {<<old, new>>}]
    BY <1>4 DEF Turn, PairRemoval
  <2>2. new \in matches
    <3>1. matches \subseteq Paths
      BY DEF Paired, Added
    <3> QED BY <1>4, <3>1, FirstIsOne
  <2>3. new \in report.additions /\ from[old] = to[new] /\ new \in Added(from, to)
    BY <2>2 DEF Paired
  <2>4. \A pair \in report.renames : pair[1] # old /\ pair[2] # new
    BY <2>3, <1>1 DEF Paired
  <2> HIDE DEF new, next, old, matches
  <2>5. /\ next.additions = report.additions \ {new}
        /\ next.removals = report.removals \ {old}
        /\ next.renames = report.renames \cup {<<old, new>>}
        /\ next = [additions |-> next.additions, removals |-> next.removals,
                   renames |-> next.renames]
    BY <2>1
  <2>6. \A pair \in next.renames : pair \in report.renames \/ pair = <<old, new>>
    BY <2>5
  <2>7. /\ next.additions \subseteq Added(from, to)
        /\ next.removals \subseteq Added(to, from)
        /\ next.renames \subseteq Added(to, from) \X Added(from, to)
    BY <2>3, <2>5, <1>4 DEF Paired
  <2>8. /\ \A p \in Added(from, to) :
               p \in next.additions \/ \E pair \in next.renames : pair[2] = p
        /\ \A p \in Added(to, from) :
               p \in next.removals \/ \E pair \in next.renames : pair[1] = p
    <3>1. <<old, new>>[1] = old /\ <<old, new>>[2] = new
      OBVIOUS
    <3>2. \A p \in Added(from, to) :
              p \in report.additions \/ \E pair \in report.renames : pair[2] = p
      BY DEF Paired
    <3>3. \A p \in Added(to, from) :
              p \in report.removals \/ \E pair \in report.renames : pair[1] = p
      BY DEF Paired
    <3> QED BY <2>5, <3>1, <3>2, <3>3
  <2>9. \A pair \in next.renames :
            /\ from[pair[1]] = to[pair[2]]
            /\ pair[1] \notin next.removals
            /\ pair[2] \notin next.additions
            /\ \E i \in 1 .. n + 1 : PathOrder[i] = pair[1]
    <3> TAKE pair \in next.renames
    <3>1. CASE pair \in report.renames
      BY <3>1, <2>5, <1>0 DEF Paired
    <3>2. CASE pair = <<old, new>>
      BY <3>2, <2>3, <2>5, <1>0 DEF old
    <3> QED BY <3>1, <3>2, <2>6
  <2>10. ASSUME NEW one \in next.renames, NEW other \in next.renames,
                one[1] = other[1] \/ one[2] = other[2]
         PROVE  one = other
    <3>1. one \in report.renames /\ other \in report.renames => one = other
      BY <2>10 DEF Paired
    <3> QED BY <3>1, <2>4, <2>6, <2>10
  <2>11. \A i \in 1 .. n + 1 : \A a \in next.additions :
             PathOrder[i] \in next.removals => from[PathOrder[i]] # to[a]
    <3> TAKE i \in 1 .. n + 1
    <3>1. CASE i \in 1 .. n
      BY <3>1, <2>5 DEF Paired
    <3>2. CASE i = n + 1
      BY <3>2, <2>5 DEF old
    <3> QED BY <3>1, <3>2, <1>0
  <2> QED BY <2>5, <2>7, <2>8, <2>9, <2>10, <2>11 DEF Paired, next
<1> QED BY <1>2, <1>3, <1>4

\* At the end of the loop every place has been seen.
LEMMA PairingIsPaired ==
    ASSUME NEW from, NEW to
    PROVE  Paired(from, to, Pairing(from, to), Len(PathOrder))
<1>1. PICK f : IsLoop(from, to, f, Len(PathOrder)) /\ Pairing(from, to) = f[Len(PathOrder)]
  BY PairingIsALoop
<1>2. Len(PathOrder) \in Nat
  BY PlacesAreNumbers
<1>3. \A n \in 0 .. Len(PathOrder) :
          f[n] = IF n = 0 THEN Start(from, to) ELSE Turn(from, to, f[n - 1], n)
  BY <1>1 DEF IsLoop
<1> DEFINE Bad == {n \in 0 .. Len(PathOrder) : ~ Paired(from, to, f[n], n)}
<1>4. ASSUME Bad # {} PROVE FALSE
  <2>1. Bad \subseteq Nat
    BY <1>2
  <2>2. PICK n \in Bad : \A k \in Bad : n <= k
    BY <1>4, <2>1, LeastPlace
  <2>3. n # 0
    BY <1>2, <1>3, StartIsPaired
  <2>4. n - 1 \in Nat /\ n - 1 \in 0 .. Len(PathOrder) /\ (n - 1) + 1 = n
        /\ n \in 1 .. Len(PathOrder)
    BY <1>2, <2>3
  <2>5. Paired(from, to, f[n - 1], n - 1)
    BY <2>2, <2>4
  <2>6. Paired(from, to, Turn(from, to, f[n - 1], n), n)
    BY <2>4, <2>5, TurnKeepsPaired
  <2>7. f[n] = Turn(from, to, f[n - 1], n)
    BY <1>3, <2>3
  <2> QED BY <2>2, <2>6, <2>7
<1> QED BY <1>1, <1>2, <1>4

----------------------------------------------------------------------------
(* The report.                                                              *)

\* What two trees differ in was added, removed or modified.
LEMMA DifferencesAreChanges ==
    ASSUME NEW from, NEW to, NEW p \in Paths
    PROVE  from[p] # to[p] <=> \/ p \in Added(from, to)
                               \/ p \in Added(to, from)
                               \/ p \in Changes(from, to).modifications
BY DEF Added, Changes

LEMMA ReportOfPairing ==
    ASSUME NEW from, NEW to
    PROVE  /\ Changes(from, to).additions = Pairing(from, to).additions
           /\ Changes(from, to).removals = Pairing(from, to).removals
           /\ Changes(from, to).renames = Pairing(from, to).renames
           /\ Changes(from, to).modifications \subseteq Paths
BY DEF Changes

\* The report of any two trees mentions exactly the paths in which they differ.
THEOREM ReportMentionsTheChanges ==
    ASSUME NEW from, NEW to
    PROVE  /\ ChangedPaths(Changes(from, to)) = Differing(from, to)
           /\ ReportedProhibited(Changes(from, to)) = Prohibited(from, to)
<1> DEFINE report == Changes(from, to)
           paired == Pairing(from, to)
           changed == ChangedPaths(report)
<1>1. Paired(from, to, paired, Len(PathOrder))
  BY PairingIsPaired
<1>2. Added(from, to) \subseteq Paths /\ Added(to, from) \subseteq Paths
  BY DEF Added
<1>3. /\ report.additions = paired.additions
      /\ report.removals = paired.removals
      /\ report.renames = paired.renames
      /\ report.modifications \subseteq Paths
  BY ReportOfPairing
<1>4. \A p \in Paths : from[p] # to[p] <=> \/ p \in Added(from, to)
                                           \/ p \in Added(to, from)
                                           \/ p \in report.modifications
  BY DifferencesAreChanges
<1> HIDE DEF report, paired
<1>5. changed \subseteq Paths
  BY <1>1, <1>2, <1>3 DEF ChangedPaths, Paired
<1>6. ASSUME NEW p \in changed PROVE from[p] # to[p]
  <2>1. \/ p \in report.additions \/ p \in report.removals \/ p \in report.modifications
        \/ \E pair \in report.renames : p = pair[1] \/ p = pair[2]
    BY <1>6 DEF ChangedPaths
  <2>2. CASE p \in report.additions \/ p \in report.removals \/ p \in report.modifications
    BY <2>2, <1>1, <1>3, <1>4, <1>5, <1>6 DEF Paired
  <2>3. CASE \E pair \in report.renames : p = pair[1] \/ p = pair[2]
    <3>1. PICK pair \in report.renames : p = pair[1] \/ p = pair[2]
      BY <2>3
    <3>2. pair[1] \in Added(to, from) /\ pair[2] \in Added(from, to)
      BY <1>1, <1>3 DEF Paired
    <3> QED BY <3>1, <3>2, <1>2, <1>4
  <2> QED BY <2>1, <2>2, <2>3
<1>7. ASSUME NEW p \in Paths, from[p] # to[p] PROVE p \in changed
  <2>1. CASE p \in Added(from, to)
    BY <2>1, <1>1, <1>3 DEF Paired, ChangedPaths
  <2>2. CASE p \in Added(to, from)
    BY <2>2, <1>1, <1>3 DEF Paired, ChangedPaths
  <2>3. CASE p \in report.modifications
    BY <2>3 DEF ChangedPaths
  <2> QED BY <2>1, <2>2, <2>3, <1>4, <1>7
<1>8. changed = Differing(from, to)
  BY <1>5, <1>6, <1>7 DEF Differing
<1> QED BY <1>8 DEF ReportedProhibited, Prohibited, report

\* The renames of a report pair each path once, with its contents, and leave no
\* pair behind.
THEOREM RenamesAreMaximal ==
    ASSUME NEW from, NEW to
    PROVE  LET report == Changes(from, to)
           IN  /\ \A pair \in report.renames :
                      /\ from[pair[1]] = to[pair[2]]
                      /\ pair[1] \notin report.removals /\ pair[2] \notin report.additions
               /\ \A one, other \in report.renames :
                      one[1] = other[1] \/ one[2] = other[2] => one = other
               /\ \A old \in report.removals, new \in report.additions :
                      from[old] # to[new]
<1> DEFINE report == Changes(from, to)
           paired == Pairing(from, to)
<1>1. Paired(from, to, paired, Len(PathOrder))
  BY PairingIsPaired
<1>2. /\ report.additions = paired.additions
      /\ report.removals = paired.removals
      /\ report.renames = paired.renames
  BY ReportOfPairing
<1> HIDE DEF paired
<1>3. ASSUME NEW old \in report.removals, NEW new \in report.additions
      PROVE  from[old] # to[new]
  <2> HIDE DEF report
  <2>1. old \in Paths
    BY <1>1, <1>2 DEF Paired, Added
  <2>2. PICK i \in 1 .. Len(PathOrder) : PathOrder[i] = old
    BY <2>1, PathOrderAssumption
  <2> QED BY <1>1, <1>2, <2>2 DEF Paired
<1> QED
  <2> HIDE DEF report
  <2>1. /\ \A pair \in report.renames :
               /\ from[pair[1]] = to[pair[2]]
               /\ pair[1] \notin report.removals /\ pair[2] \notin report.additions
        /\ \A one, other \in report.renames :
               one[1] = other[1] \/ one[2] = other[2] => one = other
    BY <1>1, <1>2 DEF Paired
  <2> QED BY <1>3, <2>1 DEF report

\* staging_changes reports exactly what differs and pairs what it can, whatever
\* the trees have become by rebases, promotions and fixes.
THEOREM ReportsAreExact == FixSpec => []ReportIsExact
<1>1. ReportIsExact
  BY ReportMentionsTheChanges, RenamesAreMaximal DEF ReportIsExact
<1> QED BY <1>1, PTL

----------------------------------------------------------------------------
(* Types.                                                                   *)

Fixes ==
    [at : {"none", "exported", "compared", "refused", "applying", "undoing", "failed",
           "abandoned", "fixed", "unverified"},
     copy : Trees, exported : Trees, drift : SUBSET Paths, originals : Trees,
     todo : SUBSET Paths, promoted : BOOLEAN]

FixTypes ==
    /\ base \in Trees /\ overlay \in Trees /\ current \in Trees
    /\ fix \in Fixes

LEMMA ExportsAreTrees ==
    ASSUME NEW tree \in Trees
    PROVE  Exports(tree) \subseteq Trees
<1> DEFINE rewritten == [p \in Paths |-> IF tree[p] = Missing THEN Missing ELSE Canonical]
<1>1. rewritten \in Trees
  BY CanonicalIsContent DEF Trees
<1>2. \A p, q \in Paths : [rewritten EXCEPT ![p] = Missing, ![q] = Canonical] \in Trees
  BY <1>1, CanonicalIsContent DEF Trees
<1> HIDE DEF rewritten
<1>3. ASSUME NEW e \in Exports(tree), e # rewritten
      PROVE  \E p, q \in Paths : e = [rewritten EXCEPT ![p] = Missing, ![q] = Canonical]
  BY <1>3 DEF Exports, rewritten
<1> QED BY <1>1, <1>2, <1>3

LEMMA InitTyped == FixInit => FixTypes
BY DEF FixInit, Init, FixTypes, Fixes

LEMMA TodoIsOne ==
    ASSUME FixTypes, fix.todo # {}
    PROVE  First(fix.todo) \in fix.todo /\ First(fix.todo) \in Paths
<1>1. fix.todo \subseteq Paths
  BY DEF FixTypes, Fixes
<1> QED BY <1>1, FirstIsOne

LEMMA StepTyped == FixTypes /\ [Fix \/ Staging]_fixVars => FixTypes'
<1> SUFFICES ASSUME FixTypes, [Fix \/ Staging]_fixVars PROVE FixTypes'
  OBVIOUS
<1> USE DEF FixTypes
<1>1. CASE Export
  <2>1. PICK e \in Exports(current) :
            fix' = [fix EXCEPT !.at = "exported", !.copy = current, !.exported = e]
    BY <1>1 DEF Export
  <2>2. e \in Trees
    BY ExportsAreTrees
  <2>3. fix' \in Fixes
    BY <2>1, <2>2 DEF Fixes
  <2> QED BY <1>1, <2>3 DEF Export, vars
<1>2. CASE Compare
  BY <1>2 DEF Compare, vars, Fixes
<1>3. CASE ReadDrift
  <2>1. Differing(current, fix.exported) \subseteq Paths
    BY DEF Differing
  <2>2. fix' \in Fixes
    BY <1>3, <2>1 DEF ReadDrift, Fixes
  <2> QED BY <1>3, <2>2 DEF ReadDrift, vars
<1>4. CASE ApplyFile
  <2>1. First(fix.todo) \in Paths
    BY <1>4, TodoIsOne DEF ApplyFile, Doing
  <2>2. current' \in Trees
    BY <1>4, <2>1 DEF ApplyFile, Trees, Fixes
  <2> QED BY <1>4, <2>2 DEF ApplyFile, Fixes
<1>5. CASE ApplyFails
  BY <1>5 DEF ApplyFails, vars, Fixes
<1>6. CASE UndoFile
  <2>1. First(fix.todo) \in Paths
    BY <1>6, TodoIsOne DEF UndoFile, Doing
  <2>2. current' \in Trees
    BY <1>6, <2>1 DEF UndoFile, Trees, Fixes
  <2> QED BY <1>6, <2>2 DEF UndoFile, Fixes
<1>7. CASE Undone
  BY <1>7 DEF Undone, vars, Fixes
<1>8. CASE Abandoned
  BY <1>8 DEF Abandoned, vars, Fixes
<1>9. CASE Verify
  BY <1>9 DEF Verify, vars, Fixes
<1>10. CASE Staging
  <2>1. CASE Rebase /\ UNCHANGED fix
    BY <2>1, MergeType DEF Rebase
  <2>2. CASE Promote /\ fix' = [fix EXCEPT !.promoted = fix.at \notin {"none", "exported"}]
    BY <2>2 DEF Promote, Fixes
  <2> QED BY <1>10, <2>1, <2>2 DEF Staging
<1>11. CASE UNCHANGED fixVars
  BY <1>11 DEF fixVars, vars
<1> QED
  BY <1>1, <1>2, <1>3, <1>4, <1>5, <1>6, <1>7, <1>8, <1>9, <1>10, <1>11 DEF Fix

LEMMA FixTypesHold == FixSpec => []FixTypes
BY InitTyped, StepTyped, PTL DEF FixSpec

----------------------------------------------------------------------------
(* Rebases and promotions.                                                  *)

\* A step of the fix leaves base and overlay alone.
LEMMA FixSparesTheArea == Fix => UNCHANGED <<base, overlay>>
BY DEF Fix, Export, Compare, ReadDrift, ApplyFile, ApplyFails, UndoFile, Undone, Abandoned,
       Verify, vars

\* _rebase_locked keeps what is staged and adopts what src/ has, in whatever
\* state a fix is.
THEOREM RebasesKeepBothSides == FixSpec => RebaseKeepsBothSides
<1> DEFINE Kept == base' = current /\ current' = current =>
                       \A p \in Paths :
                           /\ overlay[p] # base[p] => overlay'[p] = overlay[p]
                           /\ overlay'[p] # base'[p] => overlay[p] # base[p]
<1>1. FixTypes /\ [Fix \/ Staging]_fixVars => [Kept]_vars
  <2> SUFFICES ASSUME FixTypes, [Fix \/ Staging]_fixVars, base' = current, current' = current
               PROVE  \A p \in Paths : /\ overlay[p] # base[p] => overlay'[p] = overlay[p]
                                       /\ overlay'[p] # base'[p] => overlay[p] # base[p]
    OBVIOUS
  <2>1. CASE Fix
    BY <2>1, FixSparesTheArea
  <2>2. CASE Rebase
    BY <2>2, MergeKeepsBothSides DEF Rebase, FixTypes
  <2>3. CASE Promote
    BY <2>3 DEF Promote
  <2>4. CASE UNCHANGED fixVars
    BY <2>4 DEF fixVars, vars
  <2> QED BY <2>1, <2>2, <2>3, <2>4 DEF Staging
<1> QED BY <1>1, FixTypesHold, PTL DEF FixSpec, RebaseKeepsBothSides

\* A promotion writes and removes files of the owned packages only.
THEOREM PromotionsStayInOwnedPaths == FixSpec => PromotionStaysInOwnedPaths
<1>1. Promote => Differing(current, current') \subseteq OwnedPaths
  <2> SUFFICES ASSUME Promote PROVE Differing(base, overlay) \subseteq OwnedPaths
    BY DEF Promote
  <2>1. Prohibited(base, overlay) = {}
    BY ReportMentionsTheChanges DEF Promote
  <2> QED BY <2>1 DEF Prohibited
<1> QED BY <1>1, PTL DEF PromotionStaysInOwnedPaths

----------------------------------------------------------------------------
(* The fix.                                                                 *)

\* What the fix still has to do, unless a promotion came in between: from the
\* comparison on, src/ is the copy except for the paths of the differences it has
\* already replaced, and while it puts them back, for those still to be put back.
FixInv ==
    /\ FixTypes
    /\ ~fix.promoted =>
          /\ fix.at \in {"compared", "failed"} => current = fix.copy
          /\ fix.at = "fixed" => current = fix.exported
          /\ fix.at # "unverified"
          /\ fix.at \in {"applying", "undoing"} =>
                 /\ fix.originals = fix.copy
                 /\ fix.drift = Differing(fix.copy, fix.exported)
                 /\ fix.todo \subseteq fix.drift
          /\ fix.at = "applying" =>
                 \A p \in Paths : current[p] = IF p \in fix.todo THEN fix.copy[p]
                                                                 ELSE fix.exported[p]
          /\ fix.at = "undoing" =>
                 \A p \in Paths : p \notin fix.todo => current[p] = fix.copy[p]

LEMMA InitFix == FixInit => FixInv
BY InitTyped DEF FixInit, FixInv

\* Two trees with the same contents everywhere are the same.
LEMMA SameTree ==
    ASSUME NEW one \in Trees, NEW other \in Trees, \A p \in Paths : one[p] = other[p]
    PROVE  one = other
BY DEF Trees

LEMMA StepFix == FixInv /\ [Fix \/ Staging]_fixVars => FixInv'
<1> SUFFICES ASSUME FixInv, [Fix \/ Staging]_fixVars PROVE FixInv'
  OBVIOUS
<1>1. FixTypes /\ FixTypes'
  BY StepTyped DEF FixInv
<1>2. CASE Export
  <2>1. fix'.at = "exported"
    BY <1>1, <1>2 DEF Export, FixTypes, Fixes
  <2> QED BY <1>1, <2>1 DEF FixInv
<1>3. CASE Compare
  BY <1>1, <1>3 DEF Compare, vars, FixInv, FixTypes, Fixes
<1>4. CASE ReadDrift
  <2>1. fix'.at = "applying" /\ fix'.originals = current /\ fix'.copy = fix.copy
        /\ fix'.exported = fix.exported /\ fix'.promoted = fix.promoted
        /\ fix'.drift = Differing(current, fix.exported)
        /\ fix'.todo = Differing(current, fix.exported)
        /\ current' = current /\ fix.at = "compared"
    BY <1>1, <1>4 DEF ReadDrift, vars, FixTypes, Fixes
  <2>2. ~fix.promoted => current = fix.copy
    BY <2>1 DEF FixInv
  <2> QED BY <1>1, <2>1, <2>2 DEF FixInv, Differing
<1>5. CASE ApplyFile
  <2> DEFINE path == First(fix.todo)
  <2>1. path \in fix.todo /\ path \in Paths
    BY <1>1, <1>5, TodoIsOne DEF ApplyFile, Doing
  <2> HIDE DEF path
  <2>2. /\ fix.at = "applying" /\ fix'.at = "applying" /\ fix'.originals = fix.originals
        /\ fix'.copy = fix.copy /\ fix'.exported = fix.exported /\ fix'.drift = fix.drift
        /\ fix'.promoted = fix.promoted /\ fix'.todo = fix.todo \ {path}
    BY <1>1, <1>5 DEF ApplyFile, Doing, FixTypes, Fixes, path
  <2>3. \A p \in Paths : current'[p] = IF p = path THEN fix.exported[p] ELSE current[p]
    BY <1>1, <1>5 DEF ApplyFile, FixTypes, Trees, path
  <2> QED BY <1>1, <2>1, <2>2, <2>3 DEF FixInv
<1>6. CASE ApplyFails
  <2>1. /\ fix.at = "applying" /\ fix'.at = "undoing" /\ fix'.originals = fix.originals
        /\ fix'.copy = fix.copy /\ fix'.exported = fix.exported /\ fix'.drift = fix.drift
        /\ fix'.promoted = fix.promoted /\ fix'.todo = fix.drift /\ current' = current
    BY <1>1, <1>6 DEF ApplyFails, Doing, FixTypes, Fixes, vars
  <2>2. ASSUME ~fix.promoted, NEW p \in Paths, p \notin fix.drift
        PROVE  current[p] = fix.copy[p]
    BY <2>1, <2>2 DEF FixInv, Differing
  <2> QED BY <1>1, <2>1, <2>2 DEF FixInv
<1>7. CASE UndoFile
  <2> DEFINE path == First(fix.todo)
  <2>1. path \in fix.todo /\ path \in Paths
    BY <1>1, <1>7, TodoIsOne DEF UndoFile, Doing
  <2> HIDE DEF path
  <2>2. /\ fix.at = "undoing" /\ fix'.at = "undoing" /\ fix'.originals = fix.originals
        /\ fix'.copy = fix.copy /\ fix'.exported = fix.exported /\ fix'.drift = fix.drift
        /\ fix'.promoted = fix.promoted /\ fix'.todo = fix.todo \ {path}
    BY <1>1, <1>7 DEF UndoFile, Doing, FixTypes, Fixes, path
  <2>3. \A p \in Paths : current'[p] = IF p = path THEN fix.originals[p] ELSE current[p]
    BY <1>1, <1>7 DEF UndoFile, FixTypes, Trees, path
  <2> QED BY <1>1, <2>1, <2>2, <2>3 DEF FixInv
<1>8. CASE Undone
  <2>1. /\ fix.at = "undoing" /\ fix'.at = "failed" /\ fix'.copy = fix.copy
        /\ fix'.promoted = fix.promoted /\ fix.todo = {} /\ current' = current
    BY <1>1, <1>8 DEF Undone, FixTypes, Fixes, vars
  <2>2. ~fix.promoted => current = fix.copy
    BY <1>1, <2>1, SameTree DEF FixInv, FixTypes, Fixes
  <2> QED BY <1>1, <2>1, <2>2 DEF FixInv
<1>9. CASE Abandoned
  <2>1. fix'.at = "abandoned"
    BY <1>1, <1>9 DEF Abandoned, FixTypes, Fixes
  <2> QED BY <1>1, <2>1 DEF FixInv
<1>10. CASE Verify
  <2>1. /\ fix.at = "applying" /\ fix'.exported = fix.exported
        /\ fix'.at = IF Differing(current, fix.exported) = {} THEN "fixed" ELSE "unverified"
        /\ fix'.promoted = fix.promoted /\ fix.todo = {} /\ current' = current
    BY <1>1, <1>10 DEF Verify, FixTypes, Fixes, vars
  <2>2. ~fix.promoted => current = fix.exported
    BY <1>1, <2>1, SameTree DEF FixInv, FixTypes, Fixes
  <2>3. ~fix.promoted => Differing(current, fix.exported) = {}
    BY <2>2 DEF Differing
  <2> QED BY <1>1, <2>1, <2>2, <2>3 DEF FixInv
<1>11. CASE Rebase /\ UNCHANGED fix
  BY <1>1, <1>11 DEF Rebase, FixInv
<1>12. CASE Promote /\ fix' = [fix EXCEPT !.promoted = fix.at \notin {"none", "exported"}]
  <2>1. /\ fix'.at = fix.at
        /\ fix'.promoted <=> fix.at \notin {"none", "exported"}
    BY <1>1, <1>12 DEF FixTypes, Fixes
  <2> QED BY <1>1, <2>1 DEF FixInv
<1>13. CASE UNCHANGED fixVars
  BY <1>1, <1>13 DEF fixVars, vars, FixInv
<1> QED
  BY <1>2, <1>3, <1>4, <1>5, <1>6, <1>7, <1>8, <1>9, <1>10, <1>11, <1>12, <1>13
  DEF Fix, Staging

\* lint-source --fix leaves the exported tree or the tree it started from, unless
\* its roll-back was abandoned or a promotion came after its comparison.
THEOREM FixesAreAllOrNothing == FixSpec => []FixIsAllOrNothing
<1>1. FixInv => FixIsAllOrNothing
  BY DEF FixInv, FixIsAllOrNothing
<1> QED BY <1>1, InitFix, StepFix, PTL DEF FixSpec
=============================================================================
