-------------------------- MODULE AgentBridgeProofs --------------------------
(***************************************************************************)
(* What holds of AgentBridge whoever uses it, for any number of users and  *)
(* makers and any length of its event log: its types, that the registry    *)
(* gives every agent an id of its own, and that the mirror is what the     *)
(* inbox still lacks of the room.                                          *)
(***************************************************************************)
EXTENDS AgentBridge, FiniteSetTheorems, SequenceTheorems, TLAPS

USE BridgeAssumption, NoEventAssumption

\* The steps of the bridge, its clients and the server.
AnyStep ==
    \/ BridgeStep(Makers)
    \/ \E m \in Makers : AgentChats(m)
    \/ Restart

-----------------------------------------------------------------------------
(* Types *)

\* Ids are taken in turn, one per agent, and an entry of the registry is under
\* the id its maker was given.
AgentInv ==
    /\ nextAgent = 1 + Cardinality({m \in Makers : making[m] # "none"})
    /\ \A m \in Makers : making[m] # "none" => given[m] \in 1..nextAgent - 1
    /\ \A m, k \in Makers : m # k /\ making[m] # "none" /\ making[k] # "none"
                                => given[m] # given[k]
    /\ \A n \in AgentIds : registry[n] # Nobody =>
            given[registry[n]] = n /\ making[registry[n]] = "done"

ServerTypes ==
    /\ roster \in [Users -> Absent..MaxPos]
    /\ unsent \subseteq PositionEvent /\ overtaken \subseteq Users
    /\ watching \in BOOLEAN /\ link \in [Makers -> {"down", "up"}]
    /\ inbox \in Seq(Event) /\ sent \in 0..MaxEvents

LogEntry == [id : Nat, by : Users \cup Makers \cup {Nobody}]

MirrorTypes ==
    /\ clients \in [Users -> Absent..MaxPos] /\ pending \in Event \cup {NoEvent}
    /\ log \in Seq(LogEntry) /\ Len(log) \in 1..Window
    /\ \A i \in 1..Len(log) : log[i].id = nextId - 1 - Len(log) + i
    /\ nextId \in Nat /\ upto \in Nat

AgentTypes ==
    /\ registry \in [AgentIds -> Makers \cup {Nobody}]
    /\ nextAgent \in 1..Cardinality(Makers) + 1
    /\ making \in [Makers -> {"none", "connecting", "done", "failed"}]
    /\ given \in [Makers -> AgentIds \cup {0}]

LEMMA TypesAre ==
  BridgeTypes <=> ServerTypes /\ MirrorTypes /\ AgentTypes /\ restarted \in BOOLEAN
  BY DEF BridgeTypes, ServerTypes, MirrorTypes, AgentTypes, LogEntry

LEMMA MakersCount == Cardinality(Makers) \in Nat
  BY FS_CardinalityType

LEMMA EmptyType == Empty \in [Users -> Absent..MaxPos]
  BY DEF Empty, Absent

LEMMA HappensType ==
  ASSUME NEW k \in {"new", "delete", "move", "chat", "raw"},
         NEW i \in Users \cup Makers \cup {Nobody}, NEW p \in Absent..MaxPos
  PROVE  Happens(k, i, p) \in Event
  BY EmptyType DEF Happens, Event

LEMMA PositionType ==
  ASSUME NEW k \in {"new", "move"}, NEW u \in Users, NEW p \in 0..MaxPos
  PROVE  Happens(k, u, p) \in PositionEvent
  BY DEF Happens, PositionEvent

LEMMA PositionIsEvent ==
  ASSUME NEW e \in PositionEvent
  PROVE  e \in Event /\ e.id \in Users /\ e.kind \in {"new", "move"} /\ e.pos \in 0..MaxPos
  BY EmptyType DEF PositionEvent, Event, Absent

LEMMA ExistingType ==
  ASSUME NEW m \in [Users -> Absent..MaxPos]
  PROVE  Existing(m) \in Event
  BY DEF Existing, Event, Absent

LEMMA NumbersType == Absent \in Absent..MaxPos /\ 0 \in Absent..MaxPos
  BY DEF Absent

\* Emits and Append keep the inbox a sequence of events.
LEMMA EmitsType ==
  ASSUME inbox \in Seq(Event), NEW e \in Event,
         Emits(e) \/ inbox' = Append(inbox, e)
  PROVE  inbox' \in Seq(Event)
  BY AppendProperties DEF Emits

\* What the server and its users do.
ServerStep ==
    \/ \E u \in Users : \/ Arrive(u) \/ Moves(u) \/ Renews(u) \/ Renamed(u)
                         \/ Depart(u) \/ UserChats(u)
    \/ \E e \in unsent : Delivers(e)
    \/ ServerError \/ Watch \/ Unwatch
    \/ \E m \in Makers : AgentChats(m)

LEMMA CountedType ==
  ASSUME sent \in 0..MaxEvents, Counted \/ RoomCounts
  PROVE  sent' \in 0..MaxEvents
  BY DEF Counted, RoomCounts

LEMMA ServerStepTypes ==
  ASSUME BridgeTypes, ServerStep
  PROVE  ServerTypes' /\ UNCHANGED <<mirror, agents, restarted>>
<1> USE TypesAre
<1>1. ASSUME NEW u \in Users, Arrive(u) PROVE ServerTypes'
  BY <1>1, EmitsType, HappensType, NumbersType, CountedType DEF Arrive, ServerTypes
<1>2. ASSUME NEW u \in Users, Moves(u) PROVE ServerTypes'
  <2>1. roster[u] + 1 \in 0..MaxPos
    BY <1>2 DEF Moves
  <2>2. Happens("move", u, roster[u] + 1) \in PositionEvent
    BY <2>1, PositionType
  <2> QED BY <1>2, <2>1, <2>2, CountedType DEF Moves, ServerTypes, Absent
<1>3. ASSUME NEW u \in Users, Renews(u) PROVE ServerTypes'
  <2>1. roster[u] \in 0..MaxPos
    BY <1>3 DEF Renews, ServerTypes, Absent
  <2>2. Happens("new", u, roster[u]) \in PositionEvent
    BY <2>1, PositionType
  <2> QED BY <1>3, <2>2, CountedType DEF Renews, ServerTypes
<1>4. ASSUME NEW u \in Users, Renamed(u) PROVE ServerTypes'
  <2>1. Happens("new", u, roster[u]) \in Event
    BY HappensType DEF ServerTypes
  <2> QED BY <1>4, <2>1, EmitsType, CountedType DEF Renamed, ServerTypes
<1>5. ASSUME NEW u \in Users, Depart(u) PROVE ServerTypes'
  BY <1>5, EmitsType, HappensType, NumbersType DEF Depart, ServerTypes
<1>6. ASSUME NEW u \in Users, UserChats(u) PROVE ServerTypes'
  BY <1>6, EmitsType, HappensType, NumbersType, CountedType DEF UserChats, ServerTypes
<1>7. ASSUME NEW e \in unsent, Delivers(e) PROVE ServerTypes'
  <2>1. e \in Event /\ e.id \in Users
    BY PositionIsEvent DEF ServerTypes
  <2> QED BY <1>7, <2>1, EmitsType DEF Delivers, ServerTypes
<1>8. CASE ServerError
  BY <1>8, EmitsType, HappensType, NumbersType, CountedType DEF ServerError, ServerTypes
<1>9. CASE Watch
  BY <1>9, EmitsType, ExistingType, CountedType DEF Watch, ServerTypes
<1>10. CASE Unwatch
  BY <1>10 DEF Unwatch, ServerTypes
<1>11. ASSUME NEW m \in Makers, AgentChats(m) PROVE ServerTypes'
  BY <1>11, EmitsType, HappensType, NumbersType, CountedType DEF AgentChats, ServerTypes
<1>12. UNCHANGED <<mirror, agents, restarted>>
  BY DEF ServerStep, Arrive, Moves, Renews, Renamed, Depart, UserChats, Delivers, ServerError, Watch,
         Unwatch, AgentChats
<1> QED BY <1>1, <1>2, <1>3, <1>4, <1>5, <1>6, <1>7, <1>8, <1>9, <1>10, <1>11, <1>12 DEF ServerStep

\* One more maker has been given an id.
LEMMA CreateAgentInv ==
  ASSUME BridgeTypes, AgentInv, NEW m \in Makers, CreateAgent(m)
  PROVE  AgentTypes' /\ AgentInv'
<1> DEFINE Had == {k \in Makers : making[k] # "none"}
<1>1. AgentTypes /\ making[m] = "none"
      /\ making' = [making EXCEPT ![m] = "connecting"]
      /\ given' = [given EXCEPT ![m] = nextAgent] /\ nextAgent' = nextAgent + 1
      /\ registry' = registry
  BY TypesAre DEF CreateAgent
<1>2. m \notin Had /\ Had' = Had \cup {m}
  BY <1>1 DEF AgentTypes
<1>3. IsFiniteSet(Had) /\ Cardinality(Had') = Cardinality(Had) + 1 /\ Cardinality(Had) \in Nat
  BY <1>2, FS_Subset, FS_AddElement, FS_CardinalityType
<1>4. Had' \subseteq Makers /\ Cardinality(Had') <= Cardinality(Makers)
  BY <1>2, FS_Subset
<1>5. nextAgent = 1 + Cardinality(Had)
  BY DEF AgentInv
<1>6. nextAgent \in AgentIds
  BY <1>3, <1>4, <1>5, MakersCount DEF AgentIds
<1>7. nextAgent' = 1 + Cardinality(Had')
  BY <1>1, <1>3, <1>5
<1> HIDE DEF Had
<1>8. AgentTypes'
  BY <1>1, <1>6, MakersCount DEF AgentTypes, AgentIds
<1>9. \A k \in Makers : making'[k] # "none" => given'[k] \in 1..nextAgent' - 1
  BY <1>1, <1>6 DEF AgentInv, AgentTypes, AgentIds
<1>10. \A k \in Makers \ {m} : making[k] # "none" => given[k] # nextAgent
  BY <1>6 DEF AgentInv, AgentIds
<1>11. \A k, j \in Makers : k # j /\ making'[k] # "none" /\ making'[j] # "none"
                                => given'[k] # given'[j]
  BY <1>1, <1>10 DEF AgentInv, AgentTypes
<1>12. \A n \in AgentIds : registry'[n] # Nobody =>
            given'[registry'[n]] = n /\ making'[registry'[n]] = "done"
  BY <1>1 DEF AgentInv, AgentTypes
<1> QED BY <1>7, <1>8, <1>9, <1>11, <1>12 DEF AgentInv, Had

\* Steps of makers that have an id already.
LEMMA LaterAgentInv ==
  ASSUME BridgeTypes, AgentInv,
         \/ \E m \in Makers : AgentConnected(m) \/ AgentClosed(m)
         \/ \E n \in AgentIds : DeleteAgent(n)
  PROVE  /\ AgentTypes' /\ AgentInv' /\ link' \in [Makers -> {"down", "up"}]
         /\ UNCHANGED <<roster, unsent, watching, inbox, sent, overtaken, mirror, restarted>>
<1>1. AgentTypes /\ ServerTypes
  BY TypesAre
<1>2. /\ given' = given /\ nextAgent' = nextAgent
      /\ UNCHANGED <<roster, unsent, watching, inbox, sent, overtaken, mirror, restarted>>
  BY DEF AgentConnected, AgentClosed, DeleteAgent, agents, server
<1>3. ASSUME \A k \in Makers : making'[k] # "none" <=> making[k] # "none"
      PROVE  {k \in Makers : making'[k] # "none"} = {k \in Makers : making[k] # "none"}
  BY <1>3
<1>4. ASSUME NEW m \in Makers, AgentConnected(m)
      PROVE  AgentTypes' /\ AgentInv' /\ link' \in [Makers -> {"down", "up"}]
  <2>1. making[m] = "connecting" /\ given[m] \in AgentIds
    BY <1>1, <1>4 DEF AgentConnected, AgentInv, AgentTypes
  <2>2. PICK how \in {"failed", "done"} : making' = [making EXCEPT ![m] = how]
    BY <1>4 DEF AgentConnected
  <2>3. \A k \in Makers : making'[k] # "none" <=> making[k] # "none"
    BY <1>1, <2>1, <2>2 DEF AgentTypes
  <2>4. AgentTypes' /\ link' \in [Makers -> {"down", "up"}]
    <3>1. making' \in [Makers -> {"none", "connecting", "failed", "done"}]
      BY <1>1, <2>2 DEF AgentTypes
    <3>2. link' = link \/ link' = [link EXCEPT ![m] = "up"]
      BY <1>4 DEF AgentConnected
    <3>3. registry' = registry \/ registry' = [registry EXCEPT ![given[m]] = m]
      BY <1>4 DEF AgentConnected
    <3>4. link' \in [Makers -> {"down", "up"}]
      BY <1>1, <3>2 DEF ServerTypes
    <3>5. registry' \in [AgentIds -> Makers \cup {Nobody}]
      BY <1>1, <3>3 DEF AgentTypes
    <3> QED BY <1>1, <1>2, <3>1, <3>4, <3>5 DEF AgentTypes
  <2>5. \A n \in AgentIds : registry'[n] # Nobody =>
            given'[registry'[n]] = n /\ making'[registry'[n]] = "done"
    <3>1. CASE making' = [making EXCEPT ![m] = "failed"] /\ UNCHANGED <<link, registry>>
      BY <1>1, <1>2, <2>1, <3>1 DEF AgentInv, AgentTypes
    <3>2. CASE /\ making' = [making EXCEPT ![m] = "done"]
               /\ registry' = [registry EXCEPT ![given[m]] = m]
      BY <1>1, <1>2, <2>1, <3>2 DEF AgentInv, AgentTypes
    <3> QED BY <1>4, <3>1, <3>2 DEF AgentConnected
  <2> QED BY <1>2, <1>3, <2>3, <2>4, <2>5 DEF AgentInv
<1>5. ASSUME NEW m \in Makers, AgentClosed(m)
      PROVE  AgentTypes' /\ AgentInv' /\ link' \in [Makers -> {"down", "up"}]
  BY <1>1, <1>5 DEF AgentClosed, agents, AgentTypes, AgentInv, ServerTypes
<1>6. ASSUME NEW n \in AgentIds, DeleteAgent(n)
      PROVE  AgentTypes' /\ AgentInv' /\ link' \in [Makers -> {"down", "up"}]
  BY <1>1, <1>6 DEF DeleteAgent, server, AgentTypes, AgentInv, ServerTypes
<1> QED BY <1>2, <1>4, <1>5, <1>6

\* A callback is one event behind its log entry, otherwise the mirror is not.
UptoInv == upto = IF pending = NoEvent THEN nextId - 1 ELSE nextId

LEMMA HeadIsEvent ==
  ASSUME BridgeTypes, inbox # <<>>
  PROVE  /\ Head(inbox) \in Event /\ Head(inbox) = inbox[1] /\ Len(inbox) \in Nat \ {0}
         /\ Tail(inbox) \in Seq(Event) /\ Len(Tail(inbox)) = Len(inbox) - 1
         /\ \A i \in 1..Len(inbox) - 1 : Tail(inbox)[i] = inbox[i + 1]
  BY TypesAre, HeadTailProperties DEF ServerTypes

LEMMA AppliedType ==
  ASSUME clients \in [Users -> Absent..MaxPos], NEW e \in Event
  PROVE  Applied(e) \in [Users -> Absent..MaxPos]
  BY NumbersType DEF Applied, Event

LEMMA CallbackTypes ==
  ASSUME BridgeTypes, UptoInv, Callback
  PROVE  ServerTypes' /\ MirrorTypes' /\ UptoInv' /\ UNCHANGED <<agents, restarted>>
<1>1. ServerTypes /\ MirrorTypes
  BY TypesAre
<1>2. Head(inbox) \in Event /\ Tail(inbox) \in Seq(Event)
  BY HeadIsEvent DEF Callback
<1>3. ServerTypes'
  BY <1>1, <1>2 DEF Callback, ServerTypes
<1>4. Applied(Head(inbox)) \in [Users -> Absent..MaxPos]
  BY <1>1, <1>2, AppliedType DEF MirrorTypes
<1>5. MirrorTypes'
  BY <1>1, <1>2, <1>4 DEF Callback, MirrorTypes
<1>6. UptoInv'
  BY <1>2 DEF Callback, UptoInv
<1> QED BY <1>3, <1>5, <1>6 DEF Callback

\* What the log is after an event is pushed: the new entry is the last one, and
\* the first one is dropped just when the log is full.
LEMMA PushShape ==
  ASSUME BridgeTypes, PushEvent
  PROVE  /\ log' \in Seq(LogEntry) /\ nextId' = nextId + 1
         /\ Len(log') = IF Len(log) = Window THEN Window ELSE Len(log) + 1
         /\ \A i \in 1..Len(log') : log'[i].id = nextId' - 1 - Len(log') + i
<1> DEFINE e == Entry(nextId, pending)
           l == Append(log, e)
<1>1. /\ log \in Seq(LogEntry) /\ Len(log) \in 1..Window /\ nextId \in Nat
      /\ \A i \in 1..Len(log) : log[i].id = nextId - 1 - Len(log) + i
      /\ pending \in Event
  BY TypesAre DEF MirrorTypes, PushEvent
<1>2. e \in LogEntry /\ e.id = nextId
  BY <1>1 DEF Entry, LogEntry, Event
<1>3. log' = Bounded(l) /\ nextId' = nextId + 1
  BY DEF PushEvent
<1> HIDE DEF e
<1>4. l \in Seq(LogEntry) /\ Len(l) = Len(log) + 1 /\ l[Len(log) + 1] = e
      /\ \A i \in 1..Len(log) : l[i] = log[i]
  BY <1>1, <1>2, AppendProperties
<1>5. \A i \in 1..Len(l) : l[i].id = nextId - Len(l) + i
  BY <1>1, <1>2, <1>4
<1> HIDE DEF l
<1>6. CASE Len(log) = Window
  <2>1. log' = Tail(l) /\ l # <<>>
    BY <1>1, <1>3, <1>4, <1>6 DEF Bounded
  <2>2. Tail(l) \in Seq(LogEntry) /\ Len(Tail(l)) = Len(l) - 1
        /\ \A i \in 1..Len(Tail(l)) : Tail(l)[i] = l[i + 1]
    BY <1>4, <2>1, HeadTailProperties
  <2>3. Len(log') = Window
    BY <1>1, <1>4, <1>6, <2>1, <2>2
  <2>4. \A i \in 1..Len(log') : log'[i].id = nextId' - 1 - Len(log') + i
    BY <1>1, <1>3, <1>4, <1>5, <1>6, <2>1, <2>2, <2>3
  <2> QED BY <1>3, <1>6, <2>1, <2>2, <2>3, <2>4
<1>7. CASE Len(log) # Window
  <2>1. log' = l
    BY <1>1, <1>3, <1>4, <1>7 DEF Bounded
  <2>2. nextId' - 1 - Len(log') = nextId - Len(l)
    <3>1. Len(log') = Len(l)
      BY <2>1
    <3>2. Len(l) \in Nat /\ nextId \in Nat
      BY <1>1, <1>4
    <3>3. nextId' = nextId + 1
      BY <1>3
    <3> HIDE DEF l
    <3> QED BY <3>1, <3>2, <3>3
  <2>3. \A i \in 1..Len(log') : log'[i].id = nextId' - 1 - Len(log') + i
    BY <1>5, <2>1, <2>2
  <2> QED BY <1>3, <1>4, <1>7, <2>1, <2>3
<1> QED BY <1>6, <1>7

LEMMA PushTypes ==
  ASSUME BridgeTypes, UptoInv, PushEvent
  PROVE  MirrorTypes' /\ UptoInv' /\ UNCHANGED <<server, agents, restarted>>
<1>1. MirrorTypes /\ Window \in Nat
  BY TypesAre
<1>2. /\ log' \in Seq(LogEntry) /\ nextId' = nextId + 1
      /\ Len(log') \in 1..Window
      /\ \A i \in 1..Len(log') : log'[i].id = nextId' - 1 - Len(log') + i
  BY <1>1, PushShape DEF MirrorTypes
<1>3. MirrorTypes'
  BY <1>1, <1>2 DEF MirrorTypes, PushEvent
<1>4. UptoInv'
  BY <1>1, <1>2 DEF UptoInv, PushEvent, MirrorTypes
<1> QED BY <1>3, <1>4 DEF PushEvent

\* What main and Restart begin with.
LEMMA FreshTypes ==
  /\ Empty \in [Users -> Absent..MaxPos] /\ NoEvent \in Event \cup {NoEvent}
  /\ <<Started>> \in Seq(LogEntry) /\ Len(<<Started>>) = 1 /\ 1 \in 1..Window
  /\ \A i \in 1..1 : <<Started>>[i].id = 2 - 1 - 1 + i
  /\ <<>> \in Seq(Event) /\ 1 \in 1..Cardinality(Makers) + 1
  /\ [m \in Makers |-> "down"] \in [Makers -> {"down", "up"}]
  /\ [m \in Makers |-> "none"] \in [Makers -> {"none", "connecting", "done", "failed"}]
<1>1. Started \in LogEntry /\ Started.id = 1
  BY DEF Started, LogEntry
<1> QED BY <1>1, EmptyType, MakersCount

LEMMA NobodyMade ==
  ASSUME NEW M, M = [m \in Makers |-> "none"]
  PROVE  Cardinality({m \in Makers : M[m] # "none"}) = 0
<1>1. {m \in Makers : M[m] # "none"} = {}
  OBVIOUS
<1> QED BY <1>1, FS_EmptySet

LEMMA InitTypes == Init => BridgeTypes /\ AgentInv /\ UptoInv
<1> SUFFICES ASSUME Init PROVE BridgeTypes /\ AgentInv /\ UptoInv
  OBVIOUS
<1>1. ServerTypes
  <2>1. roster = Empty /\ unsent = {} /\ overtaken = {} /\ watching = FALSE /\ inbox = <<>> /\ sent = 0
        /\ link = [m \in Makers |-> "down"]
    BY DEF Init
  <2>2. 0 \in 0..MaxEvents
    OBVIOUS
  <2> QED BY <2>1, <2>2, FreshTypes DEF ServerTypes
<1>2. MirrorTypes
  BY FreshTypes DEF Init, MirrorTypes
<1>3. AgentTypes
  BY FreshTypes DEF Init, AgentTypes
<1>4. Cardinality({m \in Makers : making[m] # "none"}) = 0
  BY NobodyMade DEF Init
<1>5. AgentInv
  <2>1. nextAgent = 1 /\ \A m \in Makers : making[m] = "none"
    BY DEF Init
  <2>2. \A n \in AgentIds : registry[n] = Nobody
    BY DEF Init
  <2>3. nextAgent = 1 + Cardinality({m \in Makers : making[m] # "none"})
    BY <1>4, <2>1
  <2> QED BY <2>1, <2>2, <2>3 DEF AgentInv
<1>6. UptoInv
  BY DEF Init, UptoInv
<1>7. restarted \in BOOLEAN
  BY DEF Init
<1> QED BY <1>1, <1>2, <1>3, <1>5, <1>6, <1>7, TypesAre

LEMMA RestartTypes ==
  ASSUME BridgeTypes, Restart
  PROVE  ServerTypes' /\ MirrorTypes' /\ AgentTypes' /\ AgentInv' /\ UptoInv' /\ restarted' \in BOOLEAN
<1>1. ServerTypes /\ MirrorTypes /\ AgentTypes
  BY TypesAre
<1>2. ServerTypes'
  BY <1>1, FreshTypes DEF Restart, ServerTypes
<1>3. MirrorTypes'
  BY FreshTypes DEF Restart, MirrorTypes
<1>4. AgentTypes'
  BY <1>1, FreshTypes DEF Restart, AgentTypes
<1>5. Cardinality({m \in Makers : making'[m] # "none"}) = 0
  BY NobodyMade DEF Restart
<1>6. AgentInv'
  BY <1>5 DEF Restart, AgentInv
<1> QED BY <1>2, <1>3, <1>4, <1>6 DEF Restart, UptoInv

\* The invariant of whoever composes with the bridge.
LEMMA StepTypes ==
  ASSUME BridgeTypes, AgentInv, UptoInv, AnyStep \/ UNCHANGED bridge
  PROVE  BridgeTypes' /\ AgentInv' /\ UptoInv'
<1>1. ServerTypes /\ MirrorTypes /\ AgentTypes /\ restarted \in BOOLEAN
  BY TypesAre
<1> SUFFICES ServerTypes' /\ MirrorTypes' /\ AgentTypes' /\ restarted' \in BOOLEAN
             /\ AgentInv' /\ UptoInv'
  BY DEF BridgeTypes, ServerTypes, MirrorTypes, AgentTypes, LogEntry
<1>2. ASSUME UNCHANGED agents PROVE AgentTypes' /\ AgentInv'
  BY <1>1, <1>2 DEF agents, AgentTypes, AgentInv
<1>3. ASSUME UNCHANGED mirror PROVE MirrorTypes' /\ UptoInv'
  BY <1>1, <1>3 DEF mirror, MirrorTypes, UptoInv
<1>4. CASE ServerStep
  BY <1>1, <1>2, <1>3, <1>4, ServerStepTypes
<1>5. CASE Callback
  BY <1>1, <1>2, <1>5, CallbackTypes
<1>6. CASE PushEvent
  BY <1>1, <1>2, <1>6, PushTypes DEF server, ServerTypes
<1>7. ASSUME NEW m \in Makers, CreateAgent(m)
      PROVE  ServerTypes' /\ MirrorTypes' /\ AgentTypes' /\ restarted' \in BOOLEAN
             /\ AgentInv' /\ UptoInv'
  BY <1>1, <1>3, <1>7, CreateAgentInv DEF CreateAgent, server, ServerTypes
<1>8. CASE \/ \E m \in Makers : AgentConnected(m) \/ AgentClosed(m)
           \/ \E n \in AgentIds : DeleteAgent(n)
  BY <1>1, <1>3, <1>8, LaterAgentInv DEF ServerTypes
<1>9. CASE Restart
  BY <1>9, RestartTypes
<1>10. CASE UNCHANGED bridge
  BY <1>1, <1>2, <1>3, <1>10 DEF bridge, server, ServerTypes
<1> QED BY <1>4, <1>5, <1>6, <1>7, <1>8, <1>9, <1>10 DEF AnyStep, BridgeStep, ServerStep

-----------------------------------------------------------------------------
(* The mirror                                                               *)

\* e says where u is, and what it says.
Concerns(e, u) ==
    e.kind = "existing" \/ (e.kind \in {"new", "move", "delete"} /\ e.id = u)
Shown(e, u) ==
    IF e.kind = "existing" THEN e.map[u] ELSE IF e.kind = "delete" THEN Absent ELSE e.pos

\* Nothing after the i-th event of the inbox says where u is.
LastWord(i, u) == \A j \in i + 1..Len(inbox) : ~ Concerns(inbox[j], u)

\* p is where u is, or where it was since it came, as long as the event that
\* says so is still to be emitted, or an older one was emitted after it.
Right(u, p) ==
    \/ p = roster[u]
    \/ /\ p \in 0..roster[u] - 1
       /\ u \in overtaken \/ \E e \in unsent : e.id = u /\ e.pos = roster[u]

\* While the observer is in the room, the last that is on its way about u, or
\* the mirror if nothing is, shows u rightly.
ShownRight(u) ==
    \/ Right(u, clients[u]) /\ LastWord(0, u)
    \/ \E i \in 1..Len(inbox) :
          Concerns(inbox[i], u) /\ Right(u, Shown(inbox[i], u)) /\ LastWord(i, u)

\* What readers of presence_transition hold are positions of avatars that are
\* in the room, for no writer can come between.
UnsentInv == \A e \in unsent : e.pos \in 0..roster[e.id]

MirrorInv == UnsentInv /\ (watching => \A u \in Users : ShownRight(u))

LEMMA AppliedShows ==
  ASSUME clients \in [Users -> Absent..MaxPos], NEW e \in Event, NEW u \in Users
  PROVE  Applied(e)[u] = IF Concerns(e, u) THEN Shown(e, u) ELSE clients[u]
<1>1. CASE e.kind = "existing"
  BY <1>1 DEF Applied, Concerns, Shown
<1>2. CASE e.kind \in {"new", "move"}
  BY <1>2 DEF Applied, Concerns, Shown
<1>3. CASE e.kind = "delete"
  BY <1>3 DEF Applied, Concerns, Shown
<1>4. CASE e.kind \notin {"existing", "new", "move", "delete"}
  BY <1>4 DEF Applied, Concerns
<1> QED BY <1>1, <1>2, <1>3, <1>4

\* Where it was right to show u, it still is.
Keeps(u) == \A p : Right(u, p) => Right(u, p)'

\* An event arrives that says of u what has become of it.
LEMMA AppendShows ==
  ASSUME inbox \in Seq(Event), NEW e \in Event, inbox' = Append(inbox, e),
         NEW u \in Users, clients' = clients,
         IF Concerns(e, u) THEN Right(u, Shown(e, u))' ELSE ShownRight(u) /\ Keeps(u)
  PROVE  ShownRight(u)'
<1>1. /\ Len(inbox') = Len(inbox) + 1 /\ Len(inbox) \in Nat /\ inbox'[Len(inbox) + 1] = e
      /\ \A i \in 1..Len(inbox) : inbox'[i] = inbox[i]
  BY AppendProperties
<1>2. CASE Concerns(e, u)
  <2>1. PICK n \in 1..Len(inbox') : n = Len(inbox')
    BY <1>1
  <2>2. inbox'[n] = e /\ LastWord(n, u)'
    BY <1>1, <2>1 DEF LastWord
  <2>3. Right(u, Shown(inbox[n], u))'
    BY <1>2, <2>2
  <2> QED BY <1>2, <2>1, <2>2, <2>3 DEF ShownRight
<1>3. CASE ~ Concerns(e, u)
  <2>1. ASSUME NEW i \in 0..Len(inbox), LastWord(i, u) PROVE LastWord(i, u)'
    BY <1>1, <1>3, <2>1 DEF LastWord
  <2>2. CASE Right(u, clients[u]) /\ LastWord(0, u)
    <3>1. LastWord(0, u)'
      BY <1>1, <2>1, <2>2
    <3>2. Right(u, clients[u])'
      BY <1>3, <2>2 DEF Keeps
    <3> QED BY <3>1, <3>2 DEF ShownRight
  <2>3. ASSUME NEW i \in 1..Len(inbox), LastWord(i, u),
               Concerns(inbox[i], u), Right(u, Shown(inbox[i], u))
        PROVE  ShownRight(u)'
    <3>1. LastWord(i, u)' /\ inbox'[i] = inbox[i] /\ i \in 1..Len(inbox')
      BY <1>1, <2>1, <2>3
    <3>2. Right(u, Shown(inbox[i], u))'
      BY <1>3, <2>3, <3>1 DEF Keeps
    <3> QED BY <2>3, <3>1, <3>2 DEF ShownRight
  <2> QED BY <1>3, <2>2, <2>3 DEF ShownRight
<1> QED BY <1>2, <1>3

\* The first event is applied.
LEMMA CallbackShows ==
  ASSUME BridgeTypes, Callback, NEW u \in Users, ShownRight(u)
  PROVE  ShownRight(u)'
<1> DEFINE e == inbox[1]
<1>1. /\ e \in Event /\ Len(inbox) \in Nat \ {0} /\ Len(inbox') = Len(inbox) - 1
      /\ \A i \in 1..Len(inbox) - 1 : inbox'[i] = inbox[i + 1]
      /\ clients' = Applied(e) /\ UNCHANGED <<roster, unsent, overtaken>>
  BY HeadIsEvent DEF Callback
<1>2. clients'[u] = IF Concerns(e, u) THEN Shown(e, u) ELSE clients[u]
  BY <1>1, TypesAre, AppliedShows DEF MirrorTypes
<1>3. ASSUME NEW i \in 1..Len(inbox), LastWord(i, u) PROVE LastWord(i - 1, u)'
  <2> SUFFICES ASSUME NEW j \in i..Len(inbox) - 1 PROVE ~ Concerns(inbox'[j], u)
    BY <1>1 DEF LastWord
  <2> QED BY <1>1, <1>3 DEF LastWord
<1>4. \A p : Right(u, p) <=> Right(u, p)'
  BY <1>1 DEF Right
<1>5. CASE Right(u, clients[u]) /\ LastWord(0, u)
  <2>1. ~ Concerns(e, u) /\ LastWord(1, u)
    BY <1>1, <1>5 DEF LastWord
  <2>2. Right(u, clients[u])' /\ LastWord(0, u)'
    BY <1>1, <1>2, <1>3, <1>4, <1>5, <2>1
  <2> QED BY <2>2 DEF ShownRight
<1>6. ASSUME NEW i \in 1..Len(inbox), LastWord(i, u),
             Concerns(inbox[i], u), Right(u, Shown(inbox[i], u))
      PROVE  ShownRight(u)'
  <2>1. CASE i = 1
    <3>1. Right(u, clients[u])' /\ LastWord(0, u)'
      BY <1>1, <1>2, <1>3, <1>4, <1>6, <2>1
    <3> QED BY <3>1 DEF ShownRight
  <2>2. CASE i # 1
    <3>1. i - 1 \in 1..Len(inbox') /\ inbox'[i - 1] = inbox[i] /\ LastWord(i - 1, u)'
      BY <1>1, <1>3, <1>6, <2>2
    <3>2. Concerns(inbox'[i - 1], u) /\ Right(u, Shown(inbox[i - 1], u))'
      BY <1>4, <1>6, <3>1
    <3> QED BY <3>1, <3>2 DEF ShownRight
  <2> QED BY <2>1, <2>2
<1> QED BY <1>5, <1>6 DEF ShownRight

\* Nothing is on its way that was not before.
LEMMA ShowsSame ==
  ASSUME UNCHANGED <<clients, inbox>>, NEW u \in Users, ShownRight(u), Keeps(u)
  PROVE  ShownRight(u)'
<1>1. CASE Right(u, clients[u]) /\ LastWord(0, u)
  <2>1. Right(u, clients[u])'
    BY <1>1 DEF Keeps
  <2> QED BY <1>1, <2>1 DEF ShownRight, LastWord
<1>2. ASSUME NEW i \in 1..Len(inbox), LastWord(i, u),
             Concerns(inbox[i], u), Right(u, Shown(inbox[i], u))
      PROVE  ShownRight(u)'
  <2>1. Right(u, Shown(inbox[i], u))'
    BY <1>2 DEF Keeps
  <2> QED BY <1>2, <2>1 DEF ShownRight, LastWord
<1> QED BY <1>1, <1>2 DEF ShownRight

\* A step of the server tells of what it changes, if anybody watches.
LEMMA EmitsShows ==
  ASSUME inbox \in Seq(Event), NEW e \in Event, Emits(e),
         MirrorInv, watching' = watching, clients' = clients, UnsentInv',
         \A u \in Users : IF Concerns(e, u) THEN Right(u, Shown(e, u))' ELSE Keeps(u)
  PROVE  MirrorInv'
<1> SUFFICES ASSUME watching, NEW u \in Users PROVE ShownRight(u)'
  BY DEF MirrorInv
<1>1. inbox' = Append(inbox, e) /\ ShownRight(u)
  BY DEF Emits, MirrorInv
<1> QED BY <1>1, AppendShows

\* A step of which nothing is emitted.
LEMMA SilentShows ==
  ASSUME MirrorInv, UNCHANGED <<watching, clients, inbox>>, UnsentInv', \A u \in Users : Keeps(u)
  PROVE  MirrorInv'
  BY ShowsSame DEF MirrorInv

LEMMA StepMirror ==
  ASSUME BridgeTypes, MirrorInv, AnyStep \/ UNCHANGED bridge
  PROVE  MirrorInv'
<1>1. ServerTypes /\ MirrorTypes
  BY TypesAre
<1>2. UnsentInv
  BY DEF MirrorInv
<1>3. ASSUME UNCHANGED <<roster, unsent, overtaken>>
      PROVE  UnsentInv' /\ \A u \in Users : Keeps(u)
  BY <1>2, <1>3 DEF UnsentInv, Keeps, Right
<1>4. ASSUME NEW u \in Users, Arrive(u) PROVE MirrorInv'
  <2> DEFINE e == Happens("new", u, 0)
  <2>1. e \in Event
    BY HappensType, NumbersType
  <2>2. UnsentInv'
    BY <1>4 DEF Arrive, CanWrite, UnsentInv
  <2>3. \A x \in Users : IF Concerns(e, x) THEN Right(x, Shown(e, x))' ELSE Keeps(x)
    BY <1>1, <1>4 DEF Arrive, Concerns, Shown, Happens, ServerTypes, Keeps, Right
  <2> QED BY <1>1, <1>4, <2>1, <2>2, <2>3, EmitsShows DEF Arrive, mirror, ServerTypes
<1>5. ASSUME NEW u \in Users, Moves(u) PROVE MirrorInv'
  <2> DEFINE e == Happens("move", u, roster[u] + 1)
  <2>1. /\ roster' = [roster EXCEPT ![u] = roster[u] + 1] /\ roster[u] \in 0..MaxPos
        /\ unsent' = unsent \cup {e} /\ e.id = u /\ e.pos = roster[u] + 1 /\ overtaken' = overtaken
    BY <1>5 DEF Moves, Happens
  <2> HIDE DEF e
  <2>2. UnsentInv'
    <3> SUFFICES ASSUME NEW x \in unsent' PROVE x.pos \in 0..roster'[x.id]
      BY DEF UnsentInv
    <3>1. CASE x = e
      BY <1>1, <2>1, <3>1 DEF ServerTypes
    <3>2. CASE x \in unsent
      <4>1. x.pos \in 0..roster[x.id] /\ x.id \in Users
        BY <1>1, <1>2, <3>2, PositionIsEvent DEF UnsentInv, ServerTypes
      <4> QED BY <1>1, <2>1, <4>1 DEF ServerTypes
    <3> QED BY <2>1, <3>1, <3>2
  <2>3. ASSUME NEW x \in Users PROVE Keeps(x)
    <3>1. CASE x = u
      BY <1>1, <2>1, <3>1 DEF Keeps, Right, ServerTypes
    <3>2. CASE x # u
      BY <1>1, <2>1, <3>2 DEF Keeps, Right, ServerTypes
    <3> QED BY <3>1, <3>2
  <2> QED BY <1>5, <2>2, <2>3, SilentShows DEF Moves, mirror
<1>6. ASSUME NEW u \in Users, Renews(u) PROVE MirrorInv'
  <2>1. /\ unsent' = unsent \cup {Happens("new", u, roster[u])} /\ UNCHANGED <<roster, overtaken>>
        /\ roster[u] \in 0..roster[u]
    BY <1>1, <1>6 DEF Renews, ServerTypes, Absent
  <2>2. UnsentInv'
    BY <1>2, <2>1 DEF UnsentInv, Happens
  <2>3. \A x \in Users : Keeps(x)
    BY <2>1 DEF Keeps, Right
  <2> QED BY <1>6, <2>2, <2>3, SilentShows DEF Renews, mirror
<1>7. ASSUME NEW u \in Users, Renamed(u) PROVE MirrorInv'
  <2> DEFINE e == Happens("new", u, roster[u])
  <2>1. e \in Event
    BY <1>1, HappensType DEF ServerTypes
  <2>2. UnsentInv'
    BY <1>7 DEF Renamed, CanWrite, UnsentInv
  <2>3. \A x \in Users : IF Concerns(e, x) THEN Right(x, Shown(e, x))' ELSE Keeps(x)
    BY <1>7 DEF Renamed, Concerns, Shown, Happens, Keeps, Right
  <2> QED BY <1>1, <1>7, <2>1, <2>2, <2>3, EmitsShows DEF Renamed, mirror, ServerTypes
<1>8. ASSUME NEW u \in Users, Depart(u) PROVE MirrorInv'
  <2> DEFINE e == Happens("delete", u, Absent)
  <2>1. e \in Event
    BY HappensType, NumbersType
  <2>2. UnsentInv'
    BY <1>8 DEF Depart, CanWrite, UnsentInv
  <2>3. \A x \in Users : IF Concerns(e, x) THEN Right(x, Shown(e, x))' ELSE Keeps(x)
    BY <1>1, <1>8 DEF Depart, Concerns, Shown, Happens, ServerTypes, Keeps, Right
  <2> QED BY <1>1, <1>8, <2>1, <2>2, <2>3, EmitsShows DEF Depart, mirror, ServerTypes
<1>9. ASSUME NEW e \in unsent, Delivers(e) PROVE MirrorInv'
  <2>1. /\ e \in Event /\ e.id \in Users /\ e.kind \in {"new", "move"}
        /\ e.pos \in 0..roster[e.id] /\ roster[e.id] \in Absent..MaxPos
    BY <1>1, <1>2, PositionIsEvent DEF ServerTypes, UnsentInv
  <2>2. /\ unsent' = unsent \ {e} /\ UNCHANGED <<roster, watching, clients>>
        /\ overtaken' = IF e.pos = roster[e.id] THEN overtaken \ {e.id} ELSE overtaken \cup {e.id}
    BY <1>9 DEF Delivers, mirror
  <2>3. UnsentInv'
    BY <1>2, <2>2 DEF UnsentInv
  <2>4. ASSUME NEW x \in Users PROVE IF Concerns(e, x) THEN Right(x, Shown(e, x))' ELSE Keeps(x)
    <3>1. CASE x = e.id
      <4>1. Concerns(e, x) /\ Shown(e, x) = e.pos
        BY <2>1, <3>1 DEF Concerns, Shown
      <4>2. Right(x, e.pos)'
        BY <2>1, <2>2, <3>1 DEF Right, Absent
      <4> QED BY <4>1, <4>2
    <3>2. CASE x # e.id
      <4>1. ~ Concerns(e, x)
        BY <2>1, <3>2 DEF Concerns
      <4>2. Keeps(x)
        BY <2>2, <3>2 DEF Keeps, Right
      <4> QED BY <4>1, <4>2
    <3> QED BY <3>1, <3>2
  <2> QED BY <1>1, <1>9, <2>1, <2>2, <2>3, <2>4, EmitsShows DEF Delivers, ServerTypes
<1>10. ASSUME NEW i \in Users \cup Makers, UNCHANGED <<roster, unsent, overtaken, watching, clients>>,
              Emits(Happens("chat", i, Absent)) \/ inbox' = inbox
       PROVE  MirrorInv'
  <2>1. Happens("chat", i, Absent) \in Event
    BY HappensType, NumbersType
  <2>2. \A x \in Users : ~ Concerns(Happens("chat", i, Absent), x)
    BY DEF Concerns, Happens
  <2>3. CASE Emits(Happens("chat", i, Absent))
    BY <1>1, <1>3, <1>10, <2>1, <2>2, <2>3, EmitsShows DEF ServerTypes
  <2>4. CASE inbox' = inbox
    BY <1>3, <1>10, <2>4, SilentShows
  <2> QED BY <1>10, <2>3, <2>4
<1>11. CASE (\E u \in Users : UserChats(u)) \/ (\E m \in Makers : AgentChats(m))
  BY <1>10, <1>11 DEF UserChats, AgentChats, mirror
<1>12. CASE ServerError
  <2>1. UnsentInv' /\ watching' = watching
    BY <1>3, <1>12 DEF ServerError
  <2> SUFFICES ASSUME watching, NEW u \in Users PROVE ShownRight(u)'
    BY <2>1 DEF MirrorInv
  <2>2. Happens("raw", Nobody, Absent) \in Event /\ ~ Concerns(Happens("raw", Nobody, Absent), u)
    BY HappensType, NumbersType DEF Concerns, Happens
  <2>3. Keeps(u) /\ ShownRight(u)
    BY <1>3, <1>12 DEF ServerError, MirrorInv
  <2> QED BY <1>1, <1>12, <2>2, <2>3, AppendShows DEF ServerError, mirror, ServerTypes
<1>13. CASE Watch
  <2>1. UnsentInv'
    BY <1>13 DEF Watch, CanWrite, UnsentInv
  <2> SUFFICES ASSUME NEW u \in Users PROVE ShownRight(u)'
    BY <2>1 DEF MirrorInv
  <2>2. Existing(roster) \in Event /\ Concerns(Existing(roster), u)
        /\ Shown(Existing(roster), u) = roster[u]
    BY <1>1, ExistingType DEF Concerns, Shown, Existing, ServerTypes
  <2>3. Right(u, Shown(Existing(roster), u))'
    BY <1>13, <2>2 DEF Watch, Right
  <2> QED BY <1>1, <1>13, <2>2, <2>3, AppendShows DEF Watch, mirror, ServerTypes
<1>14. CASE Unwatch \/ Restart
  BY <1>3, <1>14 DEF Unwatch, Restart, MirrorInv
<1>15. CASE Callback
  BY <1>3, <1>15, CallbackShows DEF Callback, MirrorInv
<1>16. CASE \/ PushEvent \/ UNCHANGED bridge
            \/ \E m \in Makers : CreateAgent(m) \/ AgentConnected(m) \/ AgentClosed(m)
            \/ \E n \in AgentIds : DeleteAgent(n)
  <2>1. UNCHANGED <<clients, inbox, watching, roster, unsent, overtaken>>
    BY <1>16 DEF PushEvent, bridge, server, mirror, CreateAgent, AgentConnected, AgentClosed, DeleteAgent
  <2> QED BY <1>3, <2>1, SilentShows
<1> QED BY <1>4, <1>5, <1>6, <1>7, <1>8, <1>9, <1>11, <1>12, <1>13, <1>14, <1>15, <1>16
        DEF AnyStep, BridgeStep

LEMMA MirrorIsExact ==
  ASSUME BridgeTypes, MirrorInv
  PROVE  MirrorExact
<1> SUFFICES ASSUME watching, inbox = <<>>, NEW u \in Users PROVE Right(u, clients[u])
  BY DEF MirrorExact, Right
<1> QED BY DEF MirrorInv, ShownRight
=============================================================================
