\* Three launches; an image may die.
SPECIFICATION GuiSpec
CONSTANTS
    Areas = {work}
    Procs = {gui1, gui2, gui3}
    GuiProcs = {gui1, gui2, gui3}
    GuiDefault = GuiDefault
    NoArea = NoArea
    NoRecord = NoRecord
    NoLease = NoLease
    NoPid = NoPid
    NoWorkspace = NoWorkspace
    NoCompletion = NoCompletion
    NoImage = NoImage
    Mishaps = {"death"}
    owned = owned
    old = old
    Paths = {owned}
    OwnedPaths = {owned}
    Contents = {old}
    Missing = Missing
    InitialSource <- MCInitialSource
    MaxEdits = 1
    MaxCommits = 2
SYMMETRY MCSymmetry
PROPERTIES
    ReloadSparesChanges
CHECK_DEADLOCK FALSE
