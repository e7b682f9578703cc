SPECIFICATION FairSpec
CONSTANTS
    N = 3
    BodyLen = 2
    ReplyLen = 2
INVARIANTS
    ReadsOneRequest
    NothingLost
    RepliesWhole
PROPERTIES
    AnsweredIfWaited
