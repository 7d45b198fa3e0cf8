SPECIFICATION Spec
CONSTANTS
    NoResource = NoResource
    Resources = {a, b}
    FileLines = 2
    JumpLimit = 2
    Inputs = {"", "x", "y"}
    NoInput = ""
    Matches <- Completions
    HistoryLimit = 2
    Budgets <- Recalls
INVARIANT CandidatesFollowInput
CHECK_DEADLOCK FALSE
