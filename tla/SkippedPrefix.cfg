\* One builder that is never disturbed.
SPECIFICATION BuildSpec
CONSTANTS
    b1 = b1
    b2 = b2
    old = old
    new = new
    Nobody = Nobody
    Missing = Missing
    Builders <- MCBuilders
    N <- MCN
    Boundaries <- MCBoundaries
    Always <- MCAlways
    Checked <- MCChecked
    Nesting <- MCNesting
    Versions <- MCVersions
    First = old
    MaxEdits = 1
    MaxRuns = 3
    MaxFaults = 0
INVARIANTS
    GenerationsAreComplete
CHECK_DEADLOCK FALSE
