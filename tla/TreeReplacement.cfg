\* Two processes on three areas, two operations, two edits, one fault.
SPECIFICATION ReplacementSpec
CONSTANTS
    p1 = p1
    p2 = p2
    a1 = a1
    a2 = a2
    a3 = a3
    owned = owned
    foreign = foreign
    Nobody = Nobody
    Absent = Absent
    Missing = Missing
    Procs <- MCProcs
    Areas <- MCAreas
    Existing <- MCExisting
    Paths <- MCPaths
    OwnedPaths <- MCOwned
    Contents <- MCContents
    InitialSource <- MCSource
    LegacyWork <- MCLegacy
    LegacyRoot <- MCSource
    Edited <- MCEdited
    Given = 1
    MaxEdits = 2
    MaxOps = 2
    MaxFaults = 1
SYMMETRY MCSymmetry
INVARIANTS
    TypeOK
    TreesSurvive
    
    NothingIsReverted
PROPERTIES
    PromotionOverwritesNoPromotion
CHECK_DEADLOCK FALSE
