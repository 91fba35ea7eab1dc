\* One area.  Two edits and two commits let src/ and the overlay change the
\* same path or different ones, before and after an export and a rebase.
SPECIFICATION Spec
CONSTANTS
    Areas = {work}
    Procs = {gui1, gui2, agent}
    GuiProcs = {gui1, gui2}
    GuiDefault = GuiDefault
    NoArea = NoArea
    NoRecord = NoRecord
    NoLease = NoLease
    NoPid = NoPid
    owned = owned
    outside = outside
    old = old
    Paths <- MCPaths
    OwnedPaths = {owned}
    Contents = {old, new}
    Missing = Missing
    InitialSource <- MCInitialSource
    MaxEdits = 2
    MaxCommits = 2
SYMMETRY MCSymmetry
INVARIANTS
    TypeOK
    LeaseHeld
    ExclusiveAttachment
PROPERTIES
    ReservationIsKept
    AttachmentIsCurrent
    
    
    GenerationFollowsHead
    LeaseSpec
CHECK_DEADLOCK FALSE
