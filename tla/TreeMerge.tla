------------------------------ MODULE TreeMerge ------------------------------
(* Source trees and the file-level three-way merge a staging area is rebased
   with (python/klibgen_build/staging.py).  A tree is what _contents reads: a
   map from relative path to file contents, here a total function whose value
   is Missing where there is no file.  Only equality of contents matters.     *)

CONSTANTS
    Paths,        \* relative paths below src/
    Contents,     \* file contents, compared but never inspected
    Missing,      \* "no such file"
    OwnedPaths    \* the paths _owned accepts: inside a KlibGenGt-* package

ASSUME MissingAssumption == Missing \notin Contents
ASSUME OwnedAssumption   == OwnedPaths \subseteq Paths

Trees == [Paths -> Contents \cup {Missing}]

\* What _contents answers for a directory that does not exist.
EmptyTree == [p \in Paths |-> Missing]

\* Both sides changed the path since base, and to different contents.
Clashes(old, staged, authoritative) ==
    /\ staged # old
    /\ authoritative # old
    /\ staged # authoritative

\* The paths _merge_contents reports as conflicts.
Conflicts(base, overlay, current) ==
    {p \in Paths : Clashes(base[p], overlay[p], current[p])}

\* Mutant of Select: a file deleted in the overlay counts as "not staged".
SelectIgnoringDeletion(old, staged, authoritative) ==
    IF staged = old \/ staged = Missing THEN authoritative ELSE staged

\* The contents _merge_contents selects for a path that does not clash.
Select(old, staged, authoritative) ==
    IF staged = old THEN authoritative ELSE staged

\* The merged tree; a conflicting path is left out of it.
Merge(base, overlay, current) ==
    [p \in Paths |->
        IF Clashes(base[p], overlay[p], current[p])
        THEN Missing
        ELSE Select(base[p], overlay[p], current[p])]

\* The paths in which two trees differ.
Differing(one, other) == {p \in Paths : one[p] # other[p]}

\* staging_changes' "prohibited": changed paths outside the owned packages.
\* (StagingChanges checks that the rename pairing never alters this set.)
Prohibited(base, overlay) == Differing(base, overlay) \ OwnedPaths
=============================================================================
