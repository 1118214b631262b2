----------------------------- MODULE AgentBridge -----------------------------
(***************************************************************************)
(* src/src/bin/agent_bridge.rs: a Socket.IO client that observes one room, *)
(* mirrors it, logs its events for REST clients to poll, and hosts one     *)
(* Socket.IO connection per agent that a REST client (a maker) created.    *)
(*                                                                         *)
(* The callbacks of the observer run one after the other on its socket's   *)
(* task and overlap with REST handlers.  A callback changes the mirror     *)
(* under one lock and logs the event under two others; push_event is one   *)
(* action, for nobody else pushes once the REST service is up.             *)
(*                                                                         *)
(* The server is reduced to what it sends to the room of the observer      *)
(* (Presence has its handlers): writers of presence_transition emit what   *)
(* they change, while its readers, moves and auth, read a position, and    *)
(* emit it later and in any order.  The observer is in a room only when an *)
(* operator has it emit join-space (POST .../command/emit); whether an     *)
(* agent is, and so is heard, is the server's choice.  Users are avatars   *)
(* of browsers that have a name or a model (those that have none are not   *)
(* announced); an agent's would be one more.  Positions are numbers, in    *)
(* the order the avatar took them; names, rotations and last_chat (200     *)
(* messages get_state returns besides) are left out.                       *)
(***************************************************************************)
EXTENDS Integers, Sequences, FiniteSets

CONSTANTS
    Users,      \* avatars of browsers
    Makers,     \* REST clients; each creates one agent and names it
    Nobody,     \* no registry entry
    NoEvent,    \* no callback is running
    Window,     \* length of the event log, 2000 in the code
    MaxPos,     \* bound on the position number of an avatar
    MaxEvents   \* bound on the events the server sends to the observer

VARIABLES
    roster, unsent, watching, link, inbox, sent, overtaken,
        \* the server: position of each avatar in the room, events of readers
        \* of presence_transition that are still to be emitted, whether the
        \* observer is in the room, the agents' connections, events on their
        \* way to the observer, and their number so far; history: avatars
        \* whose position emitted last was not the newest when it went out
    clients, pending, log, nextId, upto,
        \* WorldState.clients, the event whose callback is between its two
        \* steps, events, next_event_id; history: the id of the newest event
        \* that the mirror reflects
    registry, nextAgent, making, given,
        \* agents, next_agent_id, and per maker how far its agent is and the id it
        \* was given
    restarted
        \* history: the bridge process was restarted

server  == <<roster, unsent, watching, link, inbox, sent, overtaken>>
mirror  == <<clients, pending, log, nextId, upto>>
agents  == <<registry, nextAgent, making, given>>
bridge  == <<server, mirror, agents, restarted>>

ASSUME BridgeAssumption ==
    /\ Users \cap Makers = {} /\ Nobody \notin Users \cup Makers
    /\ IsFiniteSet(Makers)
    /\ Window \in Nat \ {0} /\ MaxPos \in Nat /\ MaxEvents \in Nat

Absent   == -1
Empty    == [u \in Users |-> Absent]
AgentIds == 1..Cardinality(Makers)

\* What the server emits, as far as the callbacks tell it apart: the map of an
\* "existing clients", the id and position of "new user", "delete" and "move",
\* the author of a "chat message"; "raw" is an error or unusable payload.
Event == [kind : {"existing", "new", "delete", "move", "chat", "raw"},
          id : Users \cup Makers \cup {Nobody}, pos : Absent..MaxPos,
          map : [Users -> Absent..MaxPos]]

\* Those that readers of presence_transition emit.
PositionEvent == [kind : {"new", "move"}, id : Users, pos : 0..MaxPos, map : {Empty}]

ASSUME NoEventAssumption == NoEvent \notin Event

Happens(k, i, p) == [kind |-> k, id |-> i, pos |-> p, map |-> Empty]
Existing(m)      == [kind |-> "existing", id |-> Nobody, pos |-> Absent, map |-> m]

\* An entry of the log: all that its readers in the repository tell apart is
\* who said something.  The first one is "bridge_started".
Entry(i, e) == [id |-> i, by |-> IF e.kind = "chat" THEN e.id ELSE Nobody]
Started     == [id |-> 1, by |-> Nobody]

BridgeTypes ==
    /\ roster \in [Users -> Absent..MaxPos] /\ clients \in [Users -> Absent..MaxPos]
    /\ unsent \subseteq PositionEvent /\ overtaken \subseteq Users
    /\ watching \in BOOLEAN /\ restarted \in BOOLEAN
    /\ link \in [Makers -> {"down", "up"}]
    /\ inbox \in Seq(Event)
    /\ sent \in 0..MaxEvents
    /\ pending \in Event \cup {NoEvent}
    /\ log \in Seq([id : Nat, by : Users \cup Makers \cup {Nobody}])
    /\ Len(log) \in 1..Window
    /\ \A i \in 1..Len(log) : log[i].id = nextId - 1 - Len(log) + i
    /\ nextId \in Nat /\ upto \in Nat
    /\ registry \in [AgentIds -> Makers \cup {Nobody}]
    /\ nextAgent \in 1..Cardinality(Makers) + 1
    /\ making \in [Makers -> {"none", "connecting", "done", "failed"}]
    /\ given \in [Makers -> AgentIds \cup {0}]

\* main up to the point where REST requests are served.
Init ==
    /\ roster = Empty /\ unsent = {} /\ overtaken = {}
    /\ watching = FALSE /\ inbox = <<>> /\ sent = 0
    /\ link = [m \in Makers |-> "down"]
    /\ clients = Empty /\ pending = NoEvent
    /\ log = <<Started>> /\ nextId = 2 /\ upto = 1
    /\ registry = [n \in AgentIds |-> Nobody] /\ nextAgent = 1
    /\ making = [m \in Makers |-> "none"] /\ given = [m \in Makers |-> 0]
    /\ restarted = FALSE

-----------------------------------------------------------------------------
(* The server and its users *)

\* The server emits e to the room, and so to the observer if it is there.
Emits(e) == inbox' = IF watching THEN Append(inbox, e) ELSE inbox

\* One more event of MaxEvents for the observer, or for the room it may be in.
\* Departures are not counted: the bound never keeps an avatar in the room.
Counted    == sent < MaxEvents /\ sent' = sent + 1
RoomCounts == IF watching THEN Counted ELSE sent' = sent

\* presence_transition has no readers that still have to emit.
CanWrite == unsent = {}

\* A named avatar joins the room: under the write lock.
Arrive(u) ==
    /\ CanWrite
    /\ roster[u] = Absent
    /\ roster' = [roster EXCEPT ![u] = 0]
    /\ RoomCounts
    /\ Emits(Happens("new", u, 0))
    /\ UNCHANGED <<unsent, watching, link, overtaken, mirror, agents, restarted>>

\* A move, or a step of the motion loop: the record has the new position, and
\* the event is still to be emitted.
Moves(u) ==
    /\ roster[u] \in 0..MaxPos - 1
    /\ roster' = [roster EXCEPT ![u] = @ + 1]
    /\ Counted
    /\ unsent' = unsent \cup {Happens("move", u, roster[u] + 1)}
    /\ UNCHANGED <<watching, link, inbox, overtaken, mirror, agents, restarted>>

\* auth: the position is read, and a "new user" with it is still to be emitted.
Renews(u) ==
    /\ roster[u] # Absent
    /\ Counted
    /\ unsent' = unsent \cup {Happens("new", u, roster[u])}
    /\ UNCHANGED <<roster, watching, link, inbox, overtaken, mirror, agents, restarted>>

\* A reader emits what it read, whatever others emitted since.
Delivers(e) ==
    /\ Emits(e)
    /\ unsent' = unsent \ {e}
    /\ overtaken' = IF e.pos = roster[e.id] THEN overtaken \ {e.id} ELSE overtaken \cup {e.id}
    /\ UNCHANGED <<roster, watching, link, sent, mirror, agents, restarted>>

\* set user data: "new user" again, under the write lock.
Renamed(u) ==
    /\ CanWrite
    /\ roster[u] # Absent
    /\ RoomCounts
    /\ Emits(Happens("new", u, roster[u]))
    /\ overtaken' = overtaken \ {u}
    /\ UNCHANGED <<roster, unsent, watching, link, mirror, agents, restarted>>

\* leave-space, a supersede or a disconnect: under the write lock.
Depart(u) ==
    /\ CanWrite
    /\ roster[u] # Absent
    /\ roster' = [roster EXCEPT ![u] = Absent]
    /\ Emits(Happens("delete", u, Absent))
    /\ overtaken' = overtaken \ {u}
    /\ UNCHANGED <<unsent, watching, link, sent, mirror, agents, restarted>>

\* A user says something, or the server reports an error to the observer.
UserChats(u) ==
    /\ roster[u] # Absent
    /\ RoomCounts
    /\ Emits(Happens("chat", u, Absent))
    /\ UNCHANGED <<roster, unsent, watching, link, overtaken, mirror, agents, restarted>>

ServerError ==
    /\ Counted
    /\ inbox' = Append(inbox, Happens("raw", Nobody, Absent))
    /\ UNCHANGED <<roster, unsent, watching, link, overtaken, mirror, agents, restarted>>

\* The operator has the observer emit join-space or leave-space; a join is
\* answered with a snapshot, also when the observer is there already.
Watch ==
    /\ CanWrite
    /\ Counted
    /\ watching' = TRUE
    /\ inbox' = Append(inbox, Existing(roster))
    /\ overtaken' = {}
    /\ UNCHANGED <<roster, unsent, link, mirror, agents, restarted>>

Unwatch ==
    /\ CanWrite
    /\ watching /\ watching' = FALSE
    /\ UNCHANGED <<roster, unsent, link, inbox, sent, overtaken, mirror, agents, restarted>>

-----------------------------------------------------------------------------
(* The callbacks of the observer *)

\* Mutant: a snapshot is merged into the mirror.
MutantApplied(e) ==
    CASE e.kind = "existing"       -> [u \in Users |-> IF e.map[u] = Absent THEN clients[u] ELSE e.map[u]]
      [] e.kind \in {"new", "move"} -> [clients EXCEPT ![e.id] = e.pos]
      [] e.kind = "delete"         -> [clients EXCEPT ![e.id] = Absent]
      [] OTHER                     -> clients

\* What a callback makes of the mirror: replace it, insert, update the entry
\* (or create it), remove.
Applied(e) ==
    CASE e.kind = "existing"       -> e.map
      [] e.kind \in {"new", "move"} -> [clients EXCEPT ![e.id] = e.pos]
      [] e.kind = "delete"         -> [clients EXCEPT ![e.id] = Absent]
      [] OTHER                     -> clients

\* Mutants: the log is one entry short, and it is not bounded.
MutantBounded(s) == IF Len(s) >= Window THEN Tail(s) ELSE s
MutantUnbounded(s) == s

\* The bound on the log.
Bounded(s) == IF Len(s) > Window THEN Tail(s) ELSE s

\* Mutant: the event is logged before the mirror knows of it.
MutantCallback ==
    /\ pending = NoEvent /\ inbox # <<>>
    /\ pending' = Head(inbox) /\ inbox' = Tail(inbox)
    /\ log' = Bounded(Append(log, Entry(nextId, Head(inbox))))
    /\ nextId' = nextId + 1
    /\ UNCHANGED <<roster, unsent, watching, link, sent, overtaken, clients, upto, agents, restarted>>

\* The first step of a callback, under the lock of the mirror.
Callback ==
    /\ pending = NoEvent /\ inbox # <<>>
    /\ pending' = Head(inbox) /\ inbox' = Tail(inbox)
    /\ clients' = Applied(Head(inbox))
    /\ upto' = nextId
    /\ UNCHANGED <<roster, unsent, watching, link, sent, overtaken, log, nextId, agents, restarted>>

\* The second step: a new id, the end of the log, and its bound.
PushEvent ==
    /\ pending # NoEvent
    /\ pending' = NoEvent
    /\ log' = Bounded(Append(log, Entry(nextId, pending)))
    /\ nextId' = nextId + 1
    /\ UNCHANGED <<server, clients, upto, agents, restarted>>

\* Mutant: the newest entries, not the oldest, when there are too many.
MutantGetEvents(after, limit) ==
    {log[i] : i \in {j \in 1..Len(log) :
        /\ log[j].id > after
        /\ Cardinality({k \in j + 1..Len(log) : log[k].id > after}) < limit}}

\* Mutant: the limit is applied before the filter.
MutantGetEventsStuck(after, limit) ==
    {log[i] : i \in {j \in 1..Len(log) : j <= limit /\ log[j].id > after}}

\* The answer of GET /api/v1/events: going through the log, every entry with
\* an id above after, until there are limit of them.
GetEvents(after, limit) ==
    {log[i] : i \in {j \in 1..Len(log) :
        /\ log[j].id > after
        /\ Cardinality({k \in 1..j - 1 : log[k].id > after}) < limit}}

-----------------------------------------------------------------------------
(* The registry of agents *)

\* Mutant: the id is counted when the agent is inserted.
MutantCreateAgent(m) ==
    /\ making[m] = "none" /\ making' = [making EXCEPT ![m] = "connecting"]
    /\ given' = [given EXCEPT ![m] = nextAgent]
    /\ UNCHANGED <<server, mirror, registry, nextAgent, restarted>>

\* POST /api/v1/agents: take an id, then connect.
CreateAgent(m) ==
    /\ making[m] = "none" /\ making' = [making EXCEPT ![m] = "connecting"]
    /\ given' = [given EXCEPT ![m] = nextAgent]
    /\ nextAgent' = nextAgent + 1
    /\ UNCHANGED <<server, mirror, registry, restarted>>

\* connect_agent_socket fails, and the id is used up; or the agent is
\* inserted.
AgentConnected(m) ==
    /\ making[m] = "connecting"
    /\ \/ /\ making' = [making EXCEPT ![m] = "failed"]
          /\ UNCHANGED <<link, registry>>
       \/ /\ making' = [making EXCEPT ![m] = "done"]
          /\ link' = [link EXCEPT ![m] = "up"]
          /\ registry' = [registry EXCEPT ![given[m]] = m]
    /\ UNCHANGED <<roster, unsent, watching, inbox, sent, overtaken, mirror, nextAgent, given, restarted>>

\* DELETE /api/v1/agents/n: first out of the registry, ...
DeleteAgent(n) ==
    /\ registry[n] # Nobody
    /\ registry' = [registry EXCEPT ![n] = Nobody]
    /\ UNCHANGED <<server, mirror, nextAgent, making, given, restarted>>

\* ... then disconnected.  What takes longer than 800 ms may never happen.
AgentClosed(m) ==
    /\ link[m] = "up" /\ \A n \in AgentIds : registry[n] # m
    /\ link' = [link EXCEPT ![m] = "down"]
    /\ UNCHANGED <<roster, unsent, watching, inbox, sent, overtaken, mirror, agents, restarted>>

\* The connection of m emits a chat message, the handle taken from the
\* registry before; the server drops what comes too often or from no room.
AgentChats(m) ==
    /\ \/ link[m] = "up" /\ RoomCounts /\ Emits(Happens("chat", m, Absent))
       \/ UNCHANGED <<sent, inbox>>
    /\ UNCHANGED <<roster, unsent, watching, link, overtaken, mirror, agents, restarted>>

-----------------------------------------------------------------------------
\* The process is stopped and started again; all its connections go down.
Restart ==
    /\ ~ restarted /\ restarted' = TRUE
    /\ watching' = FALSE /\ inbox' = <<>>
    /\ link' = [m \in Makers |-> "down"]
    /\ clients' = Empty /\ pending' = NoEvent
    /\ log' = <<Started>> /\ nextId' = 2 /\ upto' = 1
    /\ registry' = [n \in AgentIds |-> Nobody] /\ nextAgent' = 1
    /\ making' = [m \in Makers |-> "none"]
    /\ UNCHANGED <<roster, unsent, sent, overtaken, given>>

\* One step of the server, the bridge or its other clients.
BridgeStep(others) ==
    \/ \E u \in Users : \/ Arrive(u) \/ Moves(u) \/ Renews(u) \/ Renamed(u)
                         \/ Depart(u) \/ UserChats(u)
    \/ \E e \in unsent : Delivers(e)
    \/ ServerError \/ Watch \/ Unwatch
    \/ Callback \/ PushEvent
    \/ \E m \in others : CreateAgent(m)
    \/ \E m \in Makers : AgentConnected(m) \/ AgentClosed(m)
    \/ \E n \in AgentIds : DeleteAgent(n)

-----------------------------------------------------------------------------
\* Once everything the server sent is applied, the mirror is the room the
\* observer is in: it shows who is there and nobody else (a late position
\* brings no avatar back that has left), a snapshot replaces what was there
\* before, and an avatar is shown where it is, unless the event that says so is
\* still to be emitted, or an older position was emitted after it, which the
\* callbacks of "move" and "new user" do not notice; even then the position is
\* one the avatar had since it came.
MirrorExact ==
    watching /\ inbox = <<>> =>
        \A u \in Users :
            \/ clients[u] = roster[u]
            \/ /\ clients[u] \in 0..roster[u] - 1
               /\ \/ u \in overtaken
                  \/ \E e \in unsent : e.id = u /\ e.pos = roster[u]
=============================================================================
