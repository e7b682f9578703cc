SPECIFICATION FairSpec
CONSTANTS
    N = 2
    Requests <- RegularRequests
INVARIANTS
    RepliesInOrder
    NoFalseSuccess
    NoRequestEcho
    OneOutcome
    DownOnlyAfter
PROPERTIES
    EventuallyAnswered
