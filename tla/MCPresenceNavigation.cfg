SPECIFICATION Spec
CONSTANTS
    Sockets = {s1}
    Tasks = {t1, t2, t3}
    Rooms = {R1, R2}
    RawRooms = {R1, R2, BadRoom}
    Tokens = {T1}
    Wallets = {W1, W2}
    Requests <- NavigationRequests
    MaxSeq = 0
    R1 = R1
    R2 = R2
    BadRoom = BadRoom
    T1 = T1
    W1 = W1
    W2 = W2
    NoRoom = NoRoom
    NoToken = NoToken
    KeepToken = KeepToken
    NoWallet = NoWallet
    Nobody = Nobody
    Loop = Loop
SYMMETRY Perms
CHECK_DEADLOCK FALSE
INVARIANTS
    TypeOK
    AdapterAgreement
    AccessAnswered
    OneIdentity
PROPERTIES
    NewestClaimWins
