SPECIFICATION Spec
CONSTANTS
    InputLists <- MCInputLists
    SigSizes = {106, 107}
    ReceiverSizes = {23, 25}
INVARIANTS
    PreimageCorrect
    SignedCorrectly
    DumpChecksHold
