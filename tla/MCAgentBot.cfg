SPECIFICATION Spec
CONSTANTS
    U1 = U1
    M2 = M2
    Bot = Bot
    Users = {U1}
    Makers = {Bot, M2}
    Nobody = Nobody
    NoEvent = NoEvent
    Window = 3
    Limit = 1
    MaxPos = 1
    MaxEvents = 3
VIEW BotView
ACTION_CONSTRAINT OneOrTheOther
CHECK_DEADLOCK FALSE
INVARIANTS
    TypeOK
    MirrorExact
    StateCoversEvents
    NothingSkipped
    OwnAvatar
PROPERTIES
    UnreadKept
    PollAdvances
