SPECIFICATION FairSpec
CONSTANTS
    W1 = W1
    W2 = W2
    Wallets = {W1, W2}
    Moderators = {}
    EditorSets <- Appointed
    Tasks = {t1}
    NoWallet = NoWallet
    Missing = Missing
    TTL = 1
    Timeout = 1
    Faults = {"rpc", "close", "burn"}
INVARIANTS
    TypeOK
PROPERTIES
    EventuallyAccurate
