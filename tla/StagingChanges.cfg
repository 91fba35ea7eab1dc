\* Every triple of trees over three paths and two contents, and one fix.
SPECIFICATION FixSpec
CONSTANTS
    owned1 = owned1
    owned2 = owned2
    outside = outside
    Missing = Missing
    Paths <- MCPaths
    OwnedPaths <- MCOwnedPaths
    PathOrder <- MCPathOrder
    Contents = {one, two}
    Canonical = one
INVARIANTS
    ReportIsExact
    FixIsAllOrNothing
PROPERTIES
    RebaseKeepsBothSides
    PromotionStaysInOwnedPaths
CHECK_DEADLOCK FALSE
