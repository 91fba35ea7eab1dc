--------------------------- MODULE StagingChanges ---------------------------
(* staging_changes: the change report of a staging area, with its order
   dependent rename pairing, and the rebase that precedes every report.  The
   trees start as any three trees a base, a working overlay and src/ can be.  *)
EXTENDS TreeMerge, Naturals, Sequences

CONSTANT PathOrder    \* the paths in the order sorted() lists them

ASSUME PathOrderAssumption ==
    /\ PathOrder \in Seq(Paths)
    /\ \A p \in Paths : \E i \in 1 .. Len(PathOrder) : PathOrder[i] = p
    /\ \A i, j \in 1 .. Len(PathOrder) : PathOrder[i] = PathOrder[j] => i = j

VARIABLES base, overlay, current

vars == <<base, overlay, current>>

\* The first of the paths, as sorted() lists them.
First(paths) ==
    LET places == {i \in 1 .. Len(PathOrder) : PathOrder[i] \in paths}
    IN  PathOrder[CHOOSE i \in places : \A j \in places : i <= j]

\* Mutant of PairRemoval: a paired addition can be paired again.
PairRemovalAgain(from, to, report, old) ==
    LET matches == {new \in report.additions : from[old] = to[new]}
    IN  IF matches = {} THEN report
        ELSE [report EXCEPT !.removals = @ \ {old},
                            !.renames = @ \cup {<<old, First(matches)>>}]

\* One turn of the loop over removals: pair the removed path with the first
\* remaining addition that has its contents, if there is one.
PairRemoval(from, to, report, old) ==
    LET matches == {new \in report.additions : from[old] = to[new]}
    IN  IF matches = {} THEN report
        ELSE LET new == First(matches)
             IN  [additions |-> report.additions \ {new},
                  removals  |-> report.removals \ {old},
                  renames   |-> report.renames \cup {<<old, new>>}]

Added(from, to) == {p \in Paths : from[p] = Missing /\ to[p] # Missing}

\* The additions, removals and renames after the loop over removals.
Pairing(from, to) ==
    LET after[n \in 0 .. Len(PathOrder)] ==
            IF n = 0
            THEN [additions |-> Added(from, to), removals |-> Added(to, from), renames |-> {}]
            ELSE IF PathOrder[n] \in Added(to, from)
                 THEN PairRemoval(from, to, after[n - 1], PathOrder[n])
                 ELSE after[n - 1]
    IN  after[Len(PathOrder)]

Changes(from, to) ==
    LET paired == Pairing(from, to)
    IN  [additions     |-> paired.additions,
         removals      |-> paired.removals,
         renames       |-> paired.renames,
         modifications |-> {p \in Paths : /\ from[p] # Missing
                                          /\ to[p] # Missing
                                          /\ from[p] # to[p]}]

\* Mutant of ChangedPaths: a rename counts with its new path only.
ChangedPathsNewNames(report) ==
    report.additions \cup report.removals \cup report.modifications
        \cup {pair[2] : pair \in report.renames}

\* changed_paths: every path the report mentions, both ends of a rename.
ChangedPaths(report) ==
    report.additions \cup report.removals \cup report.modifications
        \cup {pair[1] : pair \in report.renames} \cup {pair[2] : pair \in report.renames}

\* Mutant of ReportedProhibited: removing a file is always allowed.
ProhibitedWrites(report) ==
    (ChangedPaths(report) \ report.removals) \ OwnedPaths

\* staging_changes' "prohibited" list, computed from the report.
ReportedProhibited(report) == ChangedPaths(report) \ OwnedPaths
-----------------------------------------------------------------------------
Init ==
    /\ base \in Trees
    /\ overlay \in Trees
    /\ current \in Trees

\* The tree part of _rebase_locked: a conflict leaves base and overlay alone.
Rebase ==
    /\ base # current
    /\ Conflicts(base, overlay, current) = {}
    /\ base' = current
    /\ overlay' = Merge(base, overlay, current)
    /\ UNCHANGED current

\* The tree part of promote_staging after its rebase.
Promote ==
    /\ base = current
    /\ base # overlay
    /\ ReportedProhibited(Changes(base, overlay)) = {}
    /\ current' = overlay
    /\ base' = overlay
    /\ UNCHANGED overlay

Next == Rebase \/ Promote

Spec == Init /\ [][Next]_vars
-----------------------------------------------------------------------------
\* The rename pairing only regroups: the report mentions exactly the paths in
\* which the trees differ, so promote_staging's prohibited list can neither
\* miss an unowned file that was renamed nor blame an untouched one; each
\* rename moves one removed file to one added file with its contents, and the
\* additions and removals that remain could not have been paired, so the counts
\* that launch and promotion log are those of a maximal pairing.
ReportIsExact ==
    LET report == Changes(base, overlay)
    IN  /\ ChangedPaths(report) = Differing(base, overlay)
        /\ ReportedProhibited(report) = Prohibited(base, overlay)
        /\ \A pair \in report.renames :
               /\ base[pair[1]] = overlay[pair[2]]
               /\ pair[1] \notin report.removals /\ pair[2] \notin report.additions
        /\ \A one, other \in report.renames :
               one[1] = other[1] \/ one[2] = other[2] => one = other
        /\ \A old \in report.removals, new \in report.additions :
               base[old] # overlay[new]

\* A rebase keeps every staged change and adopts every authoritative one: what
\* was staged against the old base is still staged, with the contents it had,
\* unless src/ already holds it, and nothing else is.
RebaseKeepsBothSides ==
    [][base' = current /\ current' = current =>
        \A p \in Paths :
            /\ overlay[p] # base[p] => overlay'[p] = overlay[p]
            /\ overlay'[p] # base'[p] => overlay[p] # base[p]]_vars

\* A promotion changes src/ in owned paths only.
PromotionStaysInOwnedPaths ==
    [][Promote => Differing(current, current') \subseteq OwnedPaths]_vars
=============================================================================
