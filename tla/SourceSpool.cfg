\* Two sessions, two requests, one fault; nothing has to happen any more.
SPECIFICATION SpoolSpec
CONSTANTS
    MaxSessions = 2
    MaxRequests = 2
    MaxFaults = 1
INVARIANTS
    TypeOK
    NothingIsLeftBehind
PROPERTIES
    
    RequestsAreAnswered
CHECK_DEADLOCK FALSE
