SPECIFICATION Spec
CONSTANTS
    Initial <- MCInitial
    Snippets <- MCSnippets
    MaxLength = 4
    MaxAnchors = 2
    MaxRevision = 3
    MaxCalls = 4
INVARIANTS PendingEditsExplainText EveryNodeIsReachable
PROPERTIES ReadOnlyPrefix AnchorsNeverCross Implements
CHECK_DEADLOCK FALSE
