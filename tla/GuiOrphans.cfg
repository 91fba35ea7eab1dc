\* Two launches whose coordinators can die or fail with their image running.
SPECIFICATION GuiSpec
CONSTANTS
    Areas = {work}
    Procs = {gui1, gui2}
    GuiProcs = {gui1, gui2}
    GuiDefault = GuiDefault
    NoArea = NoArea
    NoRecord = NoRecord
    NoLease = NoLease
    NoPid = NoPid
    NoWorkspace = NoWorkspace
    NoCompletion = NoCompletion
    NoImage = NoImage
    Mishaps = {"crash", "service", "death", "discard"}
    owned = owned
    old = old
    Paths = {owned}
    OwnedPaths = {owned}
    Contents = {old, new}
    Missing = Missing
    InitialSource <- MCInitialSource
    MaxEdits = 1
    MaxCommits = 2
SYMMETRY MCSymmetry
INVARIANTS
    ReservationIsJustified
PROPERTIES
    StartedImageIsCurrent
CHECK_DEADLOCK FALSE
