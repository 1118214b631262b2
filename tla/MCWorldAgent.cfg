SPECIFICATION Spec
CONSTANTS
    Me = Me
    Twin = Twin
    None = None
    Twins = {Twin}
    People = {}
    RoomOnConnect = TRUE
    Greeting = TRUE
    ReplyToAll = FALSE
    MinChat = 2
    LlmGap = 1
    LlmTick = 1
    Base = 1
    Longest = 3
    MaxOrphans = 1
CHECK_DEADLOCK FALSE
INVARIANTS
    TypeOK
    ChatPaced
    BusyExact
    NotItself
PROPERTIES
    BrainFreed
    Reconnects
    Spawns
