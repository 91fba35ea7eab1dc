\* Two builders with and without an ALWAYS_RUN task, edits and faults.
SPECIFICATION BuildSpec
CONSTANTS
    b1 = b1
    b2 = b2
    old = old
    new = new
    Nobody = Nobody
    Missing = Missing
    Builders <- MCBuilders
    N <- MCN
    Boundaries <- MCBoundaries
    Always <- MCAlways
    Checked <- MCChecked
    Nesting <- MCNesting
    Versions <- MCVersions
    First = old
    MaxEdits = 2
    MaxRuns = 3
    MaxFaults = 1
INVARIANTS
    TypeOK
    BuildLockIsHeld
    CurrentIsWhole
    ReuseMatchesManifest
    CheckpointsHoldTheirPrefix
    AlwaysRunTasksRun
CHECK_DEADLOCK FALSE
