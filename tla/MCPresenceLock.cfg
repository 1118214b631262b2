SPECIFICATION FairSpec
CONSTANTS
    Sockets = {s1, s2}
    Observer = s2
    Tasks = {t1, t2}
    Rooms = {R1}
    RawRooms = {R1}
    Tokens = {T1}
    Wallets = {}
    Requests <- LockRequests
    MaxSeq = 1
    R1 = R1
    R2 = R2
    BadRoom = BadRoom
    T1 = T1
    W1 = W1
    W2 = W2
    NoRoom = NoRoom
    NoToken = NoToken
    KeepToken = KeepToken
    NoWallet = NoWallet
    Nobody = Nobody
    Loop = Loop
ACTION_CONSTRAINT ObserverStays
CHECK_DEADLOCK FALSE
PROPERTIES
    GhostsSwept
    HandlersReturn
