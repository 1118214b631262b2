SPECIFICATION Spec
CONSTANTS
    Sockets = {s1, s2}
    Tasks = {t1, t2}
    Rooms = {R1}
    RawRooms = {R1}
    Tokens = {T1}
    Wallets = {W1}
    Requests <- TrafficRequests
    MaxSeq = 1
    R1 = R1
    R2 = R2
    BadRoom = BadRoom
    T1 = T1
    W1 = W1
    W2 = W2
    NoRoom = NoRoom
    NoToken = NoToken
    KeepToken = KeepToken
    NoWallet = NoWallet
    Nobody = Nobody
    Loop = Loop
VIEW TrafficView
ACTION_CONSTRAINT MembersAct
SYMMETRY Perms
CHECK_DEADLOCK FALSE
INVARIANTS
    UniquePresence
    NoGhostTraffic
    MotionInRoom
    PositionsConverge
