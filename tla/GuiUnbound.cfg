\* Two launches and an agentic session, nothing fails.
SPECIFICATION GuiSpec
CONSTANTS
    Areas = {work}
    Procs = {gui1, gui2, agent}
    GuiProcs = {gui1, gui2}
    GuiDefault = GuiDefault
    NoArea = NoArea
    NoRecord = NoRecord
    NoLease = NoLease
    NoPid = NoPid
    NoWorkspace = NoWorkspace
    NoCompletion = NoCompletion
    NoImage = NoImage
    Mishaps = {}
    owned = owned
    old = old
    Paths = {owned}
    OwnedPaths = {owned}
    Contents = {old}
    Missing = Missing
    InitialSource <- MCInitialSource
    MaxEdits = 1
    MaxCommits = 2
SYMMETRY MCSymmetry
PROPERTIES
    StartedImageIsBound
CHECK_DEADLOCK FALSE
