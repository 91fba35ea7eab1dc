\* Three launches and an agentic session; everything fails but the coordinators.
SPECIFICATION GuiSpec
CONSTANTS
    Areas = {work}
    Procs = {gui1, gui2, gui3, agent}
    GuiProcs = {gui1, gui2, gui3}
    GuiDefault = GuiDefault
    NoArea = NoArea
    NoRecord = NoRecord
    NoLease = NoLease
    NoPid = NoPid
    NoWorkspace = NoWorkspace
    NoCompletion = NoCompletion
    NoImage = NoImage
    Mishaps = {"lint", "bind", "start", "death", "discard"}
    owned = owned
    old = old
    Paths = {owned}
    OwnedPaths = {owned}
    Contents = {old}
    Missing = Missing
    InitialSource <- MCInitialSource
    MaxEdits = 1
    MaxCommits = 2
SYMMETRY MCSymmetry
INVARIANTS
    GuiTypeOK
PROPERTIES
    ReloadSparesSavedChanges
    
CHECK_DEADLOCK FALSE
