SPECIFICATION PaymentSpec
CONSTANTS
    k1 = k1
    h1 = h1
    h2 = h2
    Garbage = Garbage
    Keys = {k1}
    Passwords = {}
    Wallets <- MCWallets
    Hashes <- MCHashes
    Versions = {0, 5, 111, 128, 196}
    Sizes = {24, 25, 26}
    MaxInputs = 2
INVARIANTS
    PaysReceiver
    ChangeComesBack
    EveryAddressPaid
