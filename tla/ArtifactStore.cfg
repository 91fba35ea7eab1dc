\* Two builders, an editor, and one of: a kill, a collection, a prune.
SPECIFICATION StoreSpec
CONSTANTS
    b1 = b1
    b2 = b2
    Builders = {b1, b2}
    Offered <- MCOffered
    Files <- MCFiles
    Edited <- MCEdited
    MaxEdits = 1
    MaxFaults = 1
INVARIANTS
    TypeOK
    
    OneBuilderPerKey
    BuildCoversRecipe
PROPERTIES
    PublishedOnce
    CollectionSparesReferences
    BuildsEnd
CHECK_DEADLOCK FALSE
