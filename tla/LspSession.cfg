SPECIFICATION Spec
CONSTANTS
    Uri <- MCUri
    Language <- MCLanguage
    MaxRevision = 2
    MaxRequests = 2
    MaxEvents = 2
INVARIANTS ProtocolKept ServerCopyFollows
PROPERTIES Implements RequestsGetThrough
CHECK_DEADLOCK FALSE
