SPECIFICATION FairSpec
CONSTANTS
    N = 2
    Requests <- AnyRequests
INVARIANTS
    OneReply
