SPECIFICATION FairSpec
CONSTANTS
    Inputs <- MCInputs
    BaseSize = 10
    InputSize = 148
    OutputSize = 34
    MaxInt = 4194303
    Jitter <- MCJitter
INVARIANTS
    RelayFee
    SignsSomething
    FundsCovered
    FewestInputs
    CoinsSpentOnce
PROPERTIES
    Terminates
