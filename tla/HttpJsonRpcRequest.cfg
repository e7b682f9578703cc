SPECIFICATION FairSpec
CONSTANTS
    TimerThreads = {1}
    ConnectThreads = {1, 2}
INVARIANTS
    NoResultRace
    TimerNotLastOwner
    CancelOnlyWhileConnecting
    RearmIsInert
PROPERTIES
    RefinesAsyncCall
    Released
    Answered
    TimeoutAnswers
