--------------------------- MODULE AgentBotProofs ----------------------------
(***************************************************************************)
(* The bot on the bridge, for any length of the event log, any limit of a  *)
(* poll and any number of other makers: what it was told is complete and   *)
(* is in the state it reads, and it commands its own avatar.               *)
(***************************************************************************)
EXTENDS AgentBot, AgentBridgeProofs, WellFoundedInduction

USE BotAssumption

-----------------------------------------------------------------------------
(* What a poll returns *)

\* A set of naturals below a bound has a greatest element.
LEMMA GreatestExists ==
  ASSUME NEW T \in SUBSET Nat, T # {}, NEW b \in Nat, \A y \in T : y <= b
  PROVE  \E x \in T : \A y \in T : x >= y
<1> DEFINE D == {b - y : y \in T}
<1>1. D \in SUBSET Nat /\ D # {}
  <2>1. \A y \in T : b - y \in Nat
    OBVIOUS
  <2>2. PICK y \in T : TRUE
    OBVIOUS
  <2>3. b - y \in D
    OBVIOUS
  <2>4. D \subseteq Nat
    BY <2>1
  <2> QED BY <2>3, <2>4
<1> HIDE DEF D
<1>2. PICK d \in D : \A c \in D : ~ (<<c, d>> \in OpToRel(<, Nat))
  BY <1>1, NatLessThanWellFounded, WFMin
<1>3. \A c \in D : c \in Nat /\ <<c, d>> \in Nat \X Nat
  BY <1>1
<1>4. \A c \in D : ~ (c < d)
  BY <1>2, <1>3 DEF OpToRel
<1>5. PICK x \in T : d = b - x
  BY DEF D
<1>6. ASSUME NEW y \in T PROVE x >= y
  <2>1. b - y \in D
    BY DEF D
  <2> QED BY <1>4, <1>5, <2>1
<1> QED BY <1>6

\* The ids of the log, from its first to next_event_id - 1.
LEMMA LogIds ==
  ASSUME BridgeTypes
  PROVE  /\ nextId \in Nat /\ Len(log) \in Nat \ {0}
         /\ \A i \in 1..Len(log) : log[i].id \in Nat /\ log[i].id = nextId - 1 - Len(log) + i
<1>1. log \in Seq(LogEntry) /\ Len(log) \in 1..Window /\ nextId \in Nat
      /\ \A i \in 1..Len(log) : log[i].id = nextId - 1 - Len(log) + i
  BY TypesAre DEF MirrorTypes
<1>2. Len(log) \in Nat \ {0}
  BY <1>1
<1>3. \A i \in 1..Len(log) : log[i].id \in Nat
  <2> SUFFICES ASSUME NEW i \in 1..Len(log) PROVE log[i] \in LogEntry
    BY DEF LogEntry
  <2> QED BY <1>1, ElementOfSeq
<1> QED BY <1>1, <1>2, <1>3

Waiting(j, after) == {k \in 1..j - 1 : log[k].id > after}

LEMMA WaitingFinite ==
  ASSUME NEW j \in Nat, NEW after
  PROVE  IsFiniteSet(Waiting(j, after)) /\ Cardinality(Waiting(j, after)) \in Nat
<1>1. IsFiniteSet(1..j - 1)
  BY FS_Interval
<1>2. Waiting(j, after) \subseteq 1..j - 1
  BY DEF Waiting
<1>3. IsFiniteSet(Waiting(j, after))
  BY <1>1, <1>2, FS_Subset
<1> QED BY <1>3, FS_CardinalityType

\* Nothing is left out before what is returned.
LEMMA EventsPrefix ==
  ASSUME BridgeTypes, NEW after \in Nat, NEW i \in 1..Len(log), NEW j \in 1..Len(log),
         i <= j, log[i].id > after, Cardinality(Waiting(j, after)) < Limit
  PROVE  log[i] \in GetEvents(after, Limit)
<1>1. Waiting(i, after) \subseteq Waiting(j, after) /\ Len(log) \in Nat
  BY LogIds DEF Waiting
<1>2. Cardinality(Waiting(i, after)) <= Cardinality(Waiting(j, after))
  BY <1>1, WaitingFinite, FS_Subset
<1>3. Cardinality(Waiting(i, after)) < Limit
  BY <1>1, <1>2, WaitingFinite
<1> QED BY <1>3 DEF GetEvents, Waiting

\* What is returned is in the log, and after the cursor.
LEMMA EventsLogged ==
  ASSUME NEW after \in Nat, NEW e \in GetEvents(after, Limit)
  PROVE  \E i \in 1..Len(log) :
            e = log[i] /\ log[i].id > after /\ Cardinality(Waiting(i, after)) < Limit
  BY DEF GetEvents, Waiting

\* If there is anything after the cursor, the first of it is returned.
LEMMA EventsFirst ==
  ASSUME BridgeTypes, NEW after \in Nat, after < nextId - 1
  PROVE  \E i \in 1..Len(log) : log[i].id > after /\ log[i] \in GetEvents(after, Limit)
<1> DEFINE base == nextId - 1 - Len(log)
           i == IF after < base THEN 1 ELSE after - base + 1
<1>1. i \in 1..Len(log) /\ base \in Int
  BY LogIds
<1>a. \A k \in 1..Len(log) : log[k].id \in Nat /\ log[k].id = base + k
  BY LogIds
<1>b. base + i > after /\ \A k \in 1..i - 1 : base + k <= after
  BY <1>1
<1> HIDE DEF base, i
<1>2. log[i].id > after
  BY <1>1, <1>a, <1>b
<1>3. \A k \in 1..i - 1 : ~ (log[k].id > after)
  <2> SUFFICES ASSUME NEW k \in 1..i - 1 PROVE ~ (log[k].id > after)
    OBVIOUS
  <2>1. k \in 1..Len(log)
    BY <1>1, LogIds
  <2> QED BY <1>1, <1>a, <1>b, <2>1
<1>4. Waiting(i, after) = {}
  BY <1>3 DEF Waiting
<1>5. Cardinality(Waiting(i, after)) < Limit
  BY <1>4, FS_EmptySet
<1> QED BY <1>1, <1>2, <1>5, EventsPrefix

\* A poll moves the cursor up to the last of what it was given, if anything.
LEMMA PollResult ==
  ASSUME BridgeTypes, BotTypes, BotPolls
  PROVE  /\ cursor' \in Nat /\ cursor' >= cursor /\ taken \subseteq taken' /\ taken' \subseteq Nat
         /\ cursor' = cursor \/ cursor' <= nextId - 1
         /\ cursor < nextId - 1 => cursor' > cursor
         /\ \A i \in 1..Len(log) : log[i].id \in cursor + 1..cursor' => log[i].id \in taken'
<1> DEFINE events == GetEvents(cursor, Limit)
           ids == {e.id : e \in events}
<1>1. cursor' = (IF ids = {} THEN cursor ELSE CHOOSE n \in ids : \A k \in ids : n >= k)
      /\ taken' = taken \cup ids /\ cursor \in Nat /\ taken \subseteq Nat
  BY DEF BotPolls, BotTypes
<1>2. ASSUME NEW n \in ids
      PROVE  \E i \in 1..Len(log) : n = log[i].id /\ n > cursor
                                    /\ Cardinality(Waiting(i, cursor)) < Limit
  BY <1>1, EventsLogged
<1>3. ids \subseteq Nat /\ \A n \in ids : n > cursor /\ n <= nextId - 1
  <2> SUFFICES ASSUME NEW n \in ids PROVE n \in Nat /\ n > cursor /\ n <= nextId - 1
    OBVIOUS
  <2> HIDE DEF ids
  <2>1. PICK i \in 1..Len(log) : n = log[i].id /\ n > cursor
    BY <1>2
  <2>2. nextId \in Nat /\ Len(log) \in Nat /\ n \in Nat /\ n = nextId - 1 - Len(log) + i
    BY <2>1, LogIds
  <2> QED BY <2>1, <2>2
<1>4. ASSUME cursor < nextId - 1 PROVE ids # {}
  <2>1. PICK i \in 1..Len(log) : log[i] \in GetEvents(cursor, Limit)
    BY <1>1, <1>4, EventsFirst
  <2> QED BY <2>1
<1>5. CASE ids = {}
  <2> HIDE DEF ids
  <2>1. cursor' = cursor /\ taken' = taken
    BY <1>1, <1>5
  <2>2. cursor \in Nat /\ taken \subseteq Nat
    BY <1>1
  <2>3. ASSUME NEW x PROVE x \notin cursor + 1..cursor
    BY <2>2
  <2> QED BY <1>4, <1>5, <2>1, <2>2, <2>3
<1>6. CASE ids # {}
  <2>1. nextId - 1 \in Nat
    BY LogIds, <1>3, <1>6
  <2>2. \E n \in ids : \A k \in ids : n >= k
    BY <1>3, <1>6, <2>1, GreatestExists
  <2>3. cursor' = CHOOSE n \in ids : \A k \in ids : n >= k
    BY <1>1, <1>6
  <2> HIDE DEF ids
  <2>4. cursor' \in ids
    BY <2>2, <2>3
  <2>5. ASSUME NEW i \in 1..Len(log), log[i].id \in cursor + 1..cursor'
        PROVE  log[i].id \in taken'
    <3>1. PICK j \in 1..Len(log) : cursor' = log[j].id
                                   /\ Cardinality(Waiting(j, cursor)) < Limit
      BY <1>2, <2>4
    <3>a. \A n, l \in Nat : n - 1 - l + i <= n - 1 - l + j => i <= j
      OBVIOUS
    <3>c. log[i].id \in Nat /\ log[j].id \in Nat
      BY LogIds
    <3>d. \A c, n, k \in Nat : n \in c + 1..k => n <= k /\ n > c
      OBVIOUS
    <3>e. cursor \in Nat /\ log[i].id \in cursor + 1..log[j].id
      BY <1>1, <2>5, <3>1
    <3>b. log[i].id <= log[j].id /\ log[i].id > cursor
      BY <3>c, <3>d, <3>e
    <3>2. i <= j /\ log[i].id > cursor
      BY <3>a, <3>b, LogIds
    <3>3. log[i] \in GetEvents(cursor, Limit)
      BY <1>1, <3>1, <3>2, EventsPrefix
    <3>4. log[i].id \in ids
      BY <3>3 DEF ids
    <3>5. taken' = taken \cup ids
      BY <1>1
    <3> QED BY <3>4, <3>5
  <2>6. cursor' \in Nat /\ cursor' > cursor /\ cursor' <= nextId - 1
    BY <1>3, <2>4
  <2>7. taken' = taken \cup ids /\ cursor \in Nat /\ taken \subseteq Nat /\ ids \subseteq Nat
    BY <1>1, <1>3
  <2>8. cursor' >= cursor
    BY <2>6, <2>7
  <2> QED BY <2>5, <2>6, <2>7, <2>8
<1> QED BY <1>5, <1>6

-----------------------------------------------------------------------------
(* The invariant *)

\* The bot was given an id before it needs one, and it is an agent's of this
\* bridge unless the bridge was restarted since.
NamedInv ==
    bpc # "new" => given[Bot] \in AgentIds /\ (making[Bot] # "none" \/ restarted)

\* The cursor is behind the end of the log, or where it was at the restart.
CursorInv == cursor <= deaf \/ cursor <= nextId - 1

BridgeInv == BridgeTypes /\ AgentInv /\ UptoInv /\ MirrorInv

BotInv ==
    /\ BridgeInv /\ BotTypes /\ NamedInv /\ OwnAvatar
    /\ CursorInv /\ StateCoversEvents /\ NothingSkipped

LEMMA AfterIs ==
  /\ DOMAIN After = {"hello", "greet", "say"}
  /\ After["hello"] = "poll" /\ After["greet"] = "think" /\ After["say"] = "poll"
  BY DEF After

\* What a step is to the bridge.
LEMMA BridgeMoves ==
  ASSUME [Next]_vars, BridgeInv, BotTypes
  PROVE  AnyStep \/ UNCHANGED bridge
<1>1. CASE BridgeStep(Makers \ {Bot})
  BY <1>1 DEF BridgeStep, AnyStep
<1>2. CASE BotCreates
  BY <1>2 DEF BotCreates, BridgeStep, AnyStep
<1>3. CASE BotSpeaks
  BY <1>3 DEF BotSpeaks, AnyStep, BotTypes
<1>4. CASE BotSurvives
  BY <1>4 DEF BotSurvives, AnyStep
<1>5. CASE \/ BotCreated \/ BotWaited \/ BotPolls \/ BotLooks \/ BotGreets \/ BotThinks
           \/ BotCommands \/ UNCHANGED vars
  BY <1>5 DEF BotCreated, BotWaited, BotPolls, BotLooks, BotGreets, BotThinks, BotCommands, vars
<1> QED BY <1>1, <1>2, <1>3, <1>4, <1>5 DEF Next, BotStep

\* What a step is to the log.
LEMMA LogMoves ==
  ASSUME [Next]_vars
  PROVE  \/ PushEvent /\ UNCHANGED bot
         \/ BotSurvives
         \/ UNCHANGED <<log, nextId, restarted>>
<1>1. CASE BridgeStep(Makers \ {Bot}) /\ UNCHANGED bot
  BY <1>1 DEF BridgeStep, Arrive, Moves, Renews, Renamed, Delivers, Depart, UserChats,
              ServerError, Watch, Unwatch, Callback, CreateAgent, AgentConnected, AgentClosed, DeleteAgent, mirror
<1>2. CASE BotCreates
  BY <1>2 DEF BotCreates, CreateAgent, mirror
<1>3. CASE BotSpeaks
  BY <1>3 DEF BotSpeaks, AgentChats, mirror
<1>4. CASE \/ BotCreated \/ BotWaited \/ BotPolls \/ BotLooks \/ BotGreets \/ BotThinks
           \/ BotCommands \/ UNCHANGED vars
  BY <1>4 DEF BotCreated, BotWaited, BotPolls, BotLooks, BotGreets, BotThinks, BotCommands,
              vars, bridge, mirror
<1> QED BY <1>1, <1>2, <1>3, <1>4 DEF Next, BotStep

\* Whom a step gives an id.
LEMMA NamesKept ==
  ASSUME BridgeTypes, AgentInv, NamedInv, [Next]_vars
  PROVE  NamedInv'
<1>1. AgentTypes /\ Bot \in Makers
  BY TypesAre
<1>2. ASSUME NEW m \in Makers \ {Bot}, CreateAgent(m)
      PROVE  UNCHANGED <<given[Bot], making[Bot], restarted>>
  BY <1>1, <1>2 DEF CreateAgent, AgentTypes
<1>3. ASSUME NEW m \in Makers, AgentConnected(m)
      PROVE  UNCHANGED <<given, restarted>> /\ (making[Bot] # "none" => making'[Bot] # "none")
  BY <1>1, <1>3 DEF AgentConnected, AgentTypes
<1>4. CASE BridgeStep(Makers \ {Bot}) /\ UNCHANGED bot
  <2>1. UNCHANGED bpc
    BY <1>4 DEF bot
  <2>2. ASSUME UNCHANGED <<agents, restarted>> PROVE NamedInv'
    BY <2>1, <2>2 DEF agents, NamedInv
  <2>3. CASE \E m \in Makers \ {Bot} : CreateAgent(m)
    BY <1>2, <2>1, <2>3 DEF NamedInv
  <2>4. CASE \E m \in Makers : AgentConnected(m)
    BY <1>3, <2>1, <2>4 DEF NamedInv
  <2>5. CASE \E n \in AgentIds : DeleteAgent(n)
    BY <2>1, <2>5 DEF DeleteAgent, NamedInv
  <2> QED BY <1>4, <2>2, <2>3, <2>4, <2>5 DEF BridgeStep, Arrive, Moves, Renews, Renamed,
              Delivers, Depart, UserChats,
              ServerError, Watch, Unwatch, Callback, PushEvent, AgentClosed
<1>5. CASE BotCreates
  <2>1. given'[Bot] = nextAgent /\ making'[Bot] = "connecting"
    BY <1>1, <1>5 DEF BotCreates, CreateAgent, AgentTypes
  <2>2. given'[Bot] \in AgentIds \cup {0} /\ nextAgent \in 1..Cardinality(Makers) + 1
    BY <1>1, <1>5, CreateAgentInv DEF BotCreates, AgentTypes
  <2>3. given'[Bot] # 0
    BY <2>1, <2>2
  <2> QED BY <2>1, <2>2, <2>3 DEF NamedInv
<1>6. CASE BotSurvives
  BY <1>6, AfterIs DEF BotSurvives, Restart, NamedInv, Goes
<1>7. CASE BotStep \/ UNCHANGED vars
  <2>1. UNCHANGED <<given, making, restarted>> /\ (bpc = "new" => bpc' = "new")
    BY <1>7, AfterIs DEF BotStep, BotCreated, BotWaited, BotPolls, BotLooks, BotGreets, BotThinks,
              BotCommands, BotSpeaks, AgentChats, vars, bridge, agents, bot, Goes
  <2> QED BY <2>1 DEF NamedInv
<1> QED BY <1>4, <1>5, <1>6, <1>7 DEF Next

LEMMA AvatarKept ==
  ASSUME BridgeTypes, AgentInv, NamedInv, OwnAvatar, [Next]_vars
  PROVE  OwnAvatar'
<1>1. CASE BotCommands /\ ~ restarted /\ handle' \in Makers
  <2>1. bpc # "new" /\ handle' = registry[given[Bot]]
    BY <1>1, AfterIs DEF BotCommands
  <2>2. given[Bot] \in AgentIds /\ making[Bot] # "none"
    BY <1>1, <2>1 DEF NamedInv
  <2>3. given[handle'] = given[Bot] /\ making[handle'] = "done"
    <3>1. \A n \in AgentIds : registry[n] # Nobody =>
              given[registry[n]] = n /\ making[registry[n]] = "done"
      BY DEF AgentInv
    <3>2. registry[given[Bot]] # Nobody
      BY <1>1, <2>1, BridgeAssumption
    <3> QED BY <2>1, <2>2, <3>1, <3>2
  <2>4. handle' = Bot
    BY <1>1, <2>2, <2>3 DEF AgentInv
  <2> QED BY <2>4 DEF OwnAvatar
<1>2. CASE BotCommands /\ ~ (~ restarted /\ handle' \in Makers)
  <2>1. restarted' = restarted
    BY <1>2 DEF BotCommands, bridge
  <2>2. restarted \/ handle' \notin Makers
    BY <1>2
  <2>3. bpc # "new" /\ handle' = registry[given[Bot]]
    BY <1>2, AfterIs DEF BotCommands
  <2>4. handle' \in Makers \cup {Nobody}
    BY <2>3, TypesAre DEF NamedInv, AgentTypes
  <2> QED BY <2>1, <2>2, <2>4 DEF OwnAvatar
<1>3. CASE BotSurvives
  BY <1>3 DEF BotSurvives, OwnAvatar
<1>4. CASE BotSpeaks
  BY <1>4 DEF BotSpeaks, OwnAvatar
<1>5. CASE ~ BotCommands /\ ~ BotSurvives /\ ~ BotSpeaks
  <2>1. UNCHANGED <<handle, restarted>>
    <3>1. UNCHANGED restarted
      BY <1>5, LogMoves DEF PushEvent
    <3>2. UNCHANGED handle
      BY <1>5 DEF Next, BotStep, bot, vars, BotCreates, BotCreated, BotWaited, BotPolls, BotLooks,
                  BotGreets, BotThinks
    <3> QED BY <3>1, <3>2
  <2> QED BY <2>1 DEF OwnAvatar
<1> QED BY <1>1, <1>2, <1>3, <1>4, <1>5

LEMMA StepBotTypes ==
  ASSUME BridgeInv, BotTypes, NamedInv, [Next]_vars
  PROVE  BotTypes'
<1>1. CASE BotPolls
  <2>1. cursor' \in Nat /\ taken' \subseteq Nat
    BY <1>1, PollResult DEF BridgeInv
  <2>2. bpc' = "state" /\ fresh' \in BOOLEAN /\ UNCHANGED <<view, greeted, handle, deaf>>
    BY <1>1 DEF BotPolls, Goes
  <2> QED BY <2>1, <2>2 DEF BotTypes
<1>2. CASE BotLooks
  <2>1. upto \in Nat
    BY TypesAre DEF BridgeInv, MirrorTypes
  <2>2. UNCHANGED <<cursor, greeted, handle, taken, deaf>> /\ bpc' \in {"decide", "poll"}
        /\ fresh' \in {fresh, FALSE}
    BY <1>2 DEF BotLooks, Goes
  <2>3. view' \in [users : SUBSET Users, upto : Nat]
    BY <1>2, <2>1 DEF BotLooks, BotTypes
  <2> QED BY <2>2, <2>3 DEF BotTypes
<1>3. CASE BotCommands
  <2>1. handle' \in Makers \cup {Nobody}
    BY <1>3, AfterIs, TypesAre DEF BotCommands, NamedInv, AgentTypes, BridgeInv
  <2>2. bpc' \in {"poll", "think"} \/ bpc' = bpc
    BY <1>3, AfterIs DEF BotCommands, Goes
  <2>3. UNCHANGED <<cursor, fresh, view, greeted, taken, deaf>>
    BY <1>3 DEF BotCommands
  <2> QED BY <2>1, <2>2, <2>3 DEF BotTypes
<1>4. CASE BotSpeaks
  <2>1. bpc' \in {"poll", "think"} /\ handle' = Nobody
        /\ UNCHANGED <<cursor, fresh, view, greeted, taken, deaf>>
    BY <1>4, AfterIs DEF BotSpeaks, Goes
  <2> QED BY <2>1 DEF BotTypes
<1>5. CASE BotSurvives
  <2>1. bpc' \in {"poll", "think", "off", bpc} /\ handle' = Nobody /\ deaf' = cursor
        /\ UNCHANGED <<cursor, fresh, view, greeted, taken>>
    BY <1>5, AfterIs DEF BotSurvives, Goes
  <2> QED BY <2>1 DEF BotTypes
<1>6. CASE BotGreets
  BY <1>6, AfterIs DEF BotGreets, BotTypes, Goes
<1>7. CASE BotThinks
  BY <1>7, AfterIs DEF BotThinks, BotTypes, Goes, NoView
<1>8. CASE BotCreates \/ BotCreated \/ BotWaited
  BY <1>8, AfterIs DEF BotCreates, BotCreated, BotWaited, BotTypes, Goes
<1>9. CASE UNCHANGED bot
  BY <1>9 DEF bot, BotTypes
<1> QED BY <1>1, <1>2, <1>3, <1>4, <1>5, <1>6, <1>7, <1>8, <1>9 DEF Next, BotStep, vars

-----------------------------------------------------------------------------
(* What it was told *)

LEMMA CursorKept ==
  ASSUME BridgeInv, BotTypes, CursorInv, [Next]_vars
  PROVE  CursorInv'
<1>1. nextId \in Nat /\ cursor \in Nat /\ deaf \in Nat
  BY TypesAre DEF BridgeInv, MirrorTypes, BotTypes
<1>2. CASE BotSurvives
  BY <1>1, <1>2 DEF BotSurvives, CursorInv
<1>3. CASE PushEvent /\ UNCHANGED bot
  BY <1>1, <1>3 DEF PushEvent, bot, CursorInv
<1>4. CASE BotPolls
  <2>1. cursor' = cursor \/ cursor' <= nextId - 1
    BY <1>4, PollResult DEF BridgeInv
  <2>2. deaf' = deaf /\ nextId' = nextId
    BY <1>4 DEF BotPolls, bridge, mirror
  <2> QED BY <2>1, <2>2 DEF CursorInv
<1>5. CASE ~ BotPolls /\ ~ BotSurvives /\ ~ (PushEvent /\ UNCHANGED bot)
  <2>1. UNCHANGED nextId
    BY <1>5, LogMoves
  <2>2. UNCHANGED <<cursor, deaf>>
    BY <1>5 DEF Next, BotStep, bot, vars, BotCreates, BotCreated, BotWaited, BotLooks,
                BotGreets, BotThinks, BotCommands, BotSpeaks
  <2> QED BY <2>1, <2>2 DEF CursorInv
<1> QED BY <1>2, <1>3, <1>4, <1>5

\* The state read after a poll is at least as new as the cursor.
LEMMA CoversKept ==
  ASSUME BridgeInv, BotTypes, CursorInv, StateCoversEvents, [Next]_vars
  PROVE  StateCoversEvents'
<1>1. /\ nextId \in Nat /\ cursor \in Nat /\ deaf \in Nat /\ upto \in Nat /\ view.upto \in Nat
  BY TypesAre DEF BridgeInv, MirrorTypes, BotTypes
<1>2. CASE BotLooks
  <2>1. upto >= nextId - 1
    BY <1>1 DEF BridgeInv, UptoInv
  <2>2. cursor <= upto \/ deaf > 0
    BY <1>1, <2>1 DEF CursorInv
  <2>3. UNCHANGED <<cursor, deaf>> /\ (bpc' = "poll" \/ view'.upto = upto)
    BY <1>2 DEF BotLooks, Goes
  <2> QED BY <2>2, <2>3 DEF StateCoversEvents
<1>3. CASE BotSurvives
  <2>1. UNCHANGED <<cursor, view>> /\ deaf' = cursor
    BY <1>3 DEF BotSurvives
  <2>2. cursor <= view.upto \/ cursor > 0
    BY <1>1
  <2> QED BY <2>1, <2>2 DEF StateCoversEvents
<1>4. CASE bpc' \notin {"decide", "greet", "think"}
  BY <1>4 DEF StateCoversEvents
<1>5. CASE ~ BotLooks /\ ~ BotSurvives /\ bpc' \in {"decide", "greet", "think"}
  <2>1. UNCHANGED <<cursor, view, deaf>> /\ bpc \in {"decide", "greet", "think"}
    BY <1>5, AfterIs DEF Next, BotStep, bot, vars, BotCreates, BotCreated, BotWaited, BotPolls,
                BotGreets, BotThinks, BotCommands, BotSpeaks, Goes
  <2> QED BY <2>1 DEF StateCoversEvents
<1> QED BY <1>2, <1>3, <1>4, <1>5

\* An entry of the log after a push is the new one or was there before.
LEMMA PushedOrThere ==
  ASSUME BridgeTypes, PushEvent, NEW i \in 1..Len(log')
  PROVE  log'[i].id = nextId \/ \E j \in 1..Len(log) : log'[i].id = log[j].id
<1>1. nextId \in Nat /\ Len(log) \in Nat \ {0} /\ Window \in Nat
  BY LogIds, BridgeAssumption
<1>2. Len(log') = IF Len(log) = Window THEN Window ELSE Len(log) + 1
  BY PushShape
<1>3. log'[i].id = nextId - Len(log') + i
  <2>1. log'[i].id = nextId' - 1 - Len(log') + i /\ nextId' = nextId + 1
    BY PushShape
  <2> QED BY <1>1, <1>2, <2>1
<1> DEFINE j == i + Len(log) + 1 - Len(log')
<1>4. i = Len(log') \/ j \in 1..Len(log)
  BY <1>1, <1>2
<1>5. nextId - Len(log') + i = nextId - 1 - Len(log) + j /\ nextId - Len(log') + Len(log') = nextId
  BY <1>1, <1>2
<1> HIDE DEF j
<1>6. CASE i = Len(log')
  BY <1>3, <1>5, <1>6
<1>7. CASE j \in 1..Len(log)
  <2>1. log[j].id = nextId - 1 - Len(log) + j
    BY <1>7, LogIds
  <2> QED BY <1>3, <1>5, <1>7, <2>1
<1> QED BY <1>4, <1>6, <1>7

LEMMA NoneSkipped ==
  ASSUME BridgeInv, BotTypes, CursorInv, NothingSkipped, [Next]_vars
  PROVE  NothingSkipped'
<1>1. /\ BridgeTypes /\ nextId \in Nat /\ cursor \in Nat /\ deaf \in Nat
  BY TypesAre DEF BridgeInv, MirrorTypes, BotTypes
<1>2. CASE BotSurvives
  <2>1. deaf' = cursor /\ cursor' = cursor
    BY <1>2 DEF BotSurvives
  <2>2. ASSUME NEW x PROVE x \notin cursor + 1..cursor
    BY <1>1
  <2> QED BY <2>1, <2>2 DEF NothingSkipped
<1>3. CASE PushEvent /\ UNCHANGED bot
  <2> SUFFICES ASSUME NEW i \in 1..Len(log'), log'[i].id \in deaf + 1..cursor
               PROVE  log'[i].id \in taken
    BY <1>3 DEF NothingSkipped, bot
  <2>1. log'[i].id # nextId
    BY <1>1 DEF CursorInv
  <2>2. PICK j \in 1..Len(log) : log'[i].id = log[j].id
    BY <1>1, <1>3, <2>1, PushedOrThere
  <2> QED BY <2>2 DEF NothingSkipped
<1>4. CASE BotPolls
  <2>1. log' = log /\ deaf' = deaf /\ taken \subseteq taken' /\ cursor' \in Nat
        /\ \A i \in 1..Len(log) : log[i].id \in cursor + 1..cursor' => log[i].id \in taken'
    BY <1>1, <1>4, PollResult DEF BotPolls, bridge, mirror
  <2> SUFFICES ASSUME NEW i \in 1..Len(log), log[i].id \in deaf + 1..cursor'
               PROVE  log[i].id \in taken'
    BY <2>1 DEF NothingSkipped
  <2>2. log[i].id \in Nat
    BY <1>1, LogIds
  <2>3. \A n, d, c, k \in Nat : n \in d + 1..k => n \in d + 1..c \/ n \in c + 1..k
    OBVIOUS
  <2>4. log[i].id \in deaf + 1..cursor \/ log[i].id \in cursor + 1..cursor'
    BY <1>1, <2>1, <2>2, <2>3
  <2> QED BY <2>1, <2>4 DEF NothingSkipped
<1>5. CASE ~ BotPolls /\ ~ BotSurvives /\ ~ (PushEvent /\ UNCHANGED bot)
  <2>1. UNCHANGED log
    BY <1>5, LogMoves
  <2>2. UNCHANGED <<cursor, deaf, taken>>
    BY <1>5 DEF Next, BotStep, bot, vars, BotCreates, BotCreated, BotWaited, BotLooks,
                BotGreets, BotThinks, BotCommands, BotSpeaks
  <2> QED BY <2>1, <2>2 DEF NothingSkipped
<1> QED BY <1>2, <1>3, <1>4, <1>5

-----------------------------------------------------------------------------
(* The theorems *)

LEMMA InitBotInv == BotInit => BotInv
<1> SUFFICES ASSUME BotInit PROVE BotInv
  OBVIOUS
<1>1. BridgeInv
  BY InitTypes DEF BotInit, BridgeInv, MirrorInv, UnsentInv, Init
<1>2. BotTypes
  BY DEF BotInit, BotTypes, NoView
<1>3. CursorInv /\ NothingSkipped
  <2>1. cursor = 0 /\ deaf = 0
    BY DEF BotInit
  <2>2. \A x : x \notin 0 + 1..0
    OBVIOUS
  <2> QED BY <2>1, <2>2 DEF CursorInv, NothingSkipped
<1>4. NamedInv /\ OwnAvatar /\ StateCoversEvents
  BY DEF BotInit, NamedInv, OwnAvatar, StateCoversEvents
<1> QED BY <1>1, <1>2, <1>3, <1>4 DEF BotInv

LEMMA NextBotInv == BotInv /\ [Next]_vars => BotInv'
<1> SUFFICES ASSUME BotInv, [Next]_vars PROVE BotInv'
  OBVIOUS
<1>1. BridgeInv /\ BotTypes /\ NamedInv /\ OwnAvatar /\ CursorInv /\ StateCoversEvents
      /\ NothingSkipped /\ BridgeTypes /\ AgentInv
  BY DEF BotInv, BridgeInv
<1>2. BridgeInv'
  BY <1>1, BridgeMoves, StepTypes, StepMirror DEF BridgeInv
<1>3. BotTypes' /\ NamedInv' /\ OwnAvatar'
  BY <1>1, StepBotTypes, NamesKept, AvatarKept
<1>4. CursorInv' /\ StateCoversEvents' /\ NothingSkipped'
  BY <1>1, CursorKept, CoversKept, NoneSkipped
<1> QED BY <1>2, <1>3, <1>4 DEF BotInv

LEMMA BotInvariant == Spec => []BotInv
  BY InitBotInv, NextBotInv, PTL DEF Spec

\* The variables of the bridge and the bot keep their types, and the log is one
\* stretch of consecutive ids, never longer than Window, that ends below
\* next_event_id.
THEOREM BotTypesHold == Spec => []TypeOK
<1>1. BotInv => TypeOK
  BY DEF BotInv, BridgeInv, TypeOK
<1> QED BY <1>1, BotInvariant, PTL

\* Once every event the observer was sent is applied, its mirror is the room:
\* the last event that concerns a user says where the user is, and a snapshot
\* concerns them all.
THEOREM MirrorHolds == Spec => []MirrorExact
<1>1. BotInv => MirrorExact
  BY MirrorIsExact DEF BotInv, BridgeInv
<1> QED BY <1>1, BotInvariant, PTL

\* The state the bot reads shows every event it was given before, until the
\* bridge is restarted under a bot that has read events.
THEOREM StateCovers == Spec => []StateCoversEvents
<1>1. BotInv => StateCoversEvents
  BY DEF BotInv
<1> QED BY <1>1, BotInvariant, PTL

\* The bot was given every event of the log below its cursor, for any limit of
\* a poll and any length of the log, except ids it had passed before a restart.
THEOREM NothingIsSkipped == Spec => []NothingSkipped
<1>1. BotInv => NothingSkipped
  BY DEF BotInv
<1> QED BY <1>1, BotInvariant, PTL

\* The connection the bot's commands go to is its own, however many makers
\* create and delete agents meanwhile, as long as the bridge is not restarted.
THEOREM CommandsOwnAvatar == Spec => []OwnAvatar
<1>1. BotInv => OwnAvatar
  BY DEF BotInv
<1> QED BY <1>1, BotInvariant, PTL

LEMMA KeptStep ==
  ASSUME BotInv, [Next]_vars, NEW i \in 1..Len(log), restarted' = restarted,
         \A j \in 1..Len(log') : log'[j].id # log[i].id
  PROVE  nextId' - 1 - log[i].id >= Window
<1>1. /\ BridgeTypes /\ nextId \in Nat /\ Len(log) \in Nat \ {0} /\ Window \in Nat
      /\ log[i].id = nextId - 1 - Len(log) + i
  BY LogIds, BridgeAssumption DEF BotInv, BridgeInv
<1>2. CASE UNCHANGED log
  BY <1>2
<1>3. CASE BotSurvives
  BY <1>3 DEF BotSurvives, Restart
<1>4. CASE PushEvent
  <2>1. /\ nextId' = nextId + 1
        /\ Len(log') = IF Len(log) = Window THEN Window ELSE Len(log) + 1
        /\ \A j \in 1..Len(log') : log'[j].id = nextId' - 1 - Len(log') + j
    BY <1>1, <1>4, PushShape
  <2>2. CASE Len(log) # Window
    <3>1. Len(log') = Len(log) + 1
      BY <2>1, <2>2
    <3>2. i \in 1..Len(log')
      BY <1>1, <3>1
    <3>4. log'[i].id = nextId' - 1 - Len(log') + i
      BY <2>1, <3>2
    <3>5. nextId' - 1 - Len(log') + i = nextId - 1 - Len(log) + i
      <4>1. nextId' = nextId + 1 /\ nextId \in Int /\ Len(log) \in Int /\ i \in Int
        BY <1>1, <2>1
      <4>2. \A n, l, k \in Int : n + 1 - 1 - (l + 1) + k = n - 1 - l + k
        OBVIOUS
      <4> QED BY <3>1, <4>1, <4>2
    <3>6. log'[i].id = log[i].id
      BY <1>1, <3>4, <3>5
    <3> QED BY <3>2, <3>6
  <2>3. CASE Len(log) = Window
    <3>1. ASSUME i # 1 PROVE FALSE
      <4>1. i - 1 \in 1..Len(log')
        BY <1>1, <2>1, <2>3, <3>1
      <4>2. log'[i - 1].id = nextId' - 1 - Len(log') + (i - 1)
        BY <2>1, <4>1
      <4>3. nextId' - 1 - Len(log') + (i - 1) = nextId - 1 - Len(log) + i
        BY <1>1, <2>1, <2>3
      <4> QED BY <1>1, <4>1, <4>2, <4>3
    <3> QED BY <1>1, <2>1, <2>3, <3>1
  <2> QED BY <2>2, <2>3
<1> QED BY <1>2, <1>3, <1>4, LogMoves

\* An event the bot has not read leaves the log only by being the oldest of a
\* full one: Window newer events have been logged.
THEOREM UnreadIsKept == Spec => UnreadKept
<1>1. BotInv /\ [Next]_vars =>
        [\A i \in 1..Len(log) :
           /\ log[i].id > cursor /\ restarted' = restarted
           /\ \A j \in 1..Len(log') : log'[j].id # log[i].id
           => nextId' - 1 - log[i].id >= Window]_vars
  BY KeptStep
<1> QED BY <1>1, BotInvariant, PTL DEF Spec, UnreadKept

\* With anything newer in the log, a poll gives the bot something and moves its
\* cursor, whatever the limit: the limit is applied after the filter.
THEOREM PollsAdvance == Spec => PollAdvances
<1>1. BotInv /\ [Next]_vars => [BotPolls /\ cursor < nextId - 1 => cursor' > cursor]_vars
  BY PollResult DEF BotInv, BridgeInv
<1> QED BY <1>1, BotInvariant, PTL DEF Spec, PollAdvances
=============================================================================
