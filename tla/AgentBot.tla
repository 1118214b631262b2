------------------------------- MODULE AgentBot ------------------------------
(***************************************************************************)
(* src/src/bin/agent_bot.rs composed with the bridge: a REST client that   *)
(* creates one agent, then polls events from a cursor, reads the state and *)
(* decides what its agent says.  Any request may fail; the loop is         *)
(* sequential, so a request that is not answered stops it.                 *)
(*                                                                         *)
(* Times are choices here (how long ago it last spoke or asked the LLM),   *)
(* and so are distances; walking (POST .../goto) changes nothing the bot   *)
(* or the bridge looks at and is left out.                                 *)
(***************************************************************************)
EXTENDS AgentBridge

CONSTANTS
    Bot,    \* the maker this program is
    Limit   \* events per poll, 200 in the code

VARIABLES
    bpc,      \* program counter; "off" once main has returned an error
    cursor,   \* last_event_id
    fresh,    \* saw_new_chat: chat of others in this poll
    view,     \* the users it read of, and the id of the newest event in that
    greeted,  \* users it has greeted
    handle,   \* the connection a command of its is about to use
    taken,    \* history: ids of the events it was given
    deaf      \* history: its cursor when the bridge was restarted

bot  == <<bpc, cursor, fresh, view, greeted, handle, taken, deaf>>
vars == <<bridge, bot>>

ASSUME BotAssumption == Bot \in Makers /\ Limit \in Nat \ {0}

NoView == [users |-> {}, upto |-> 0]   \* between two iterations of the loop

\* Where a chat command is answered to.
After == [hello |-> "poll", greet |-> "think", say |-> "poll"]

BotTypes ==
    /\ bpc \in {"new", "create", "wait", "poll", "state", "decide", "think", "off"} \cup DOMAIN After
    /\ cursor \in Nat /\ deaf \in Nat /\ taken \subseteq Nat
    /\ fresh \in BOOLEAN
    /\ view \in [users : SUBSET Users, upto : Nat]
    /\ greeted \subseteq Users
    /\ handle \in Makers \cup {Nobody}

\* The type invariant of the bridge and the bot; it says too that the log is
\* one stretch of consecutive ids that ends below next_event_id.
TypeOK == BridgeTypes /\ BotTypes

BotInit ==
    /\ Init
    /\ bpc = "new" /\ cursor = 0 /\ fresh = FALSE
    /\ view = NoView
    /\ greeted = {} /\ handle = Nobody /\ taken = {} /\ deaf = 0

-----------------------------------------------------------------------------
Goes(to) == bpc' = to

\* wait_ready succeeds and POST /api/v1/agents is sent.
BotCreates ==
    /\ bpc = "new" /\ Goes("create")
    /\ CreateAgent(Bot)
    /\ UNCHANGED <<cursor, fresh, view, greeted, handle, taken, deaf>>

\* It is answered; an error ends the program.
BotCreated ==
    /\ bpc = "create"
    /\ \/ making[Bot] = "done" /\ Goes("wait")
       \/ making[Bot] = "failed" /\ Goes("off")
    /\ UNCHANGED <<bridge, cursor, fresh, view, greeted, handle, taken, deaf>>

\* set_user_data and wait_for_nickname; the wait may time out, and either
\* way the greeting follows, if one is set.
BotWaited ==
    /\ bpc = "wait"
    /\ Goes("hello") \/ Goes("poll")
    /\ UNCHANGED <<bridge, cursor, fresh, view, greeted, handle, taken, deaf>>

\* get_events; the cursor moves to the largest id.
BotPolls ==
    LET events == GetEvents(cursor, Limit)
        ids    == {e.id : e \in events} IN
    /\ bpc = "poll" /\ Goes("state")
    /\ cursor' = IF ids = {} THEN cursor ELSE CHOOSE n \in ids : \A k \in ids : n >= k
    /\ taken' = taken \cup ids
    /\ fresh' = \E e \in events : e.by \notin {Nobody, Bot}
    /\ UNCHANGED <<bridge, view, greeted, handle, deaf>>

\* get_state; if it fails the chat of this poll is forgotten.
BotLooks ==
    /\ bpc = "state"
    /\ \/ /\ Goes("decide") /\ UNCHANGED fresh
          /\ view' = [users |-> {u \in Users : clients[u] # Absent}, upto |-> upto]
       \/ Goes("poll") /\ fresh' = FALSE /\ UNCHANGED view
    /\ UNCHANGED <<bridge, cursor, greeted, handle, taken, deaf>>

\* Greet somebody near by, unless it spoke a short while ago.
BotGreets ==
    /\ bpc = "decide"
    /\ \/ \E u \in view.users \ greeted : Goes("greet") /\ greeted' = greeted \cup {u}
       \/ Goes("think") /\ UNCHANGED greeted
    /\ UNCHANGED <<bridge, cursor, fresh, view, handle, taken, deaf>>

\* Ask the LLM if there was chat (with AGENT_LLM_TICK_MS set, also if not),
\* and say what it answers; or not, for any of several reasons.
BotThinks ==
    /\ bpc = "think"
    /\ Goes("say") \/ Goes("poll")
    /\ fresh' = FALSE /\ view' = NoView
    /\ UNCHANGED <<bridge, cursor, greeted, handle, taken, deaf>>

\* with_agent: look the agent up and take its connection; 404 if it is gone.
\* The bot does not look at the answer.
BotCommands ==
    /\ bpc \in DOMAIN After /\ handle = Nobody
    /\ handle' = registry[given[Bot]]
    /\ IF handle' = Nobody THEN Goes(After[bpc]) ELSE UNCHANGED bpc
    /\ UNCHANGED <<bridge, cursor, fresh, view, greeted, taken, deaf>>

BotSpeaks ==
    /\ bpc \in DOMAIN After /\ handle # Nobody
    /\ AgentChats(handle)
    /\ handle' = Nobody /\ Goes(After[bpc])
    /\ UNCHANGED <<cursor, fresh, view, greeted, taken, deaf>>

\* The bridge is restarted: a request of the bot's that is running fails.
BotSurvives ==
    /\ Restart
    /\ Goes(CASE bpc = "create"            -> "off"
              [] bpc \in DOMAIN After      -> After[bpc]
              [] OTHER                     -> bpc)
    /\ handle' = Nobody /\ deaf' = cursor
    /\ UNCHANGED <<cursor, fresh, view, greeted, taken>>

BotStep ==
    \/ BotCreated \/ BotWaited \/ BotPolls \/ BotLooks \/ BotGreets \/ BotThinks
    \/ BotCommands \/ BotSpeaks

Next ==
    \/ BridgeStep(Makers \ {Bot}) /\ UNCHANGED bot
    \/ BotCreates \/ BotStep \/ BotSurvives

Spec == BotInit /\ [][Next]_vars

-----------------------------------------------------------------------------
\* Whatever the bot was told of in events is in the state it reads after them:
\* a callback changes the mirror before it logs the event, so an id the bot
\* has passed is never of an event the mirror does not show.
StateCoversEvents ==
    bpc \in {"decide", "greet", "think"} => cursor <= view.upto \/ deaf > 0

\* No event is passed over: what is in the log below the cursor was given to
\* the bot, unless a restarted bridge gave it an id the bot had already passed
\* before (the cursor outlives the bridge, and the numbering begins again).
NothingSkipped ==
    \A i \in 1..Len(log) : log[i].id \in (deaf + 1)..cursor => log[i].id \in taken

\* The bot commands its own avatar: overlapping creates never get one id, and
\* an id is not used again while the bridge runs; after a restart it is, and
\* the bot then commands whatever agent has it.
OwnAvatar == handle \in {Nobody, Bot} \/ restarted

\* An event the bot has not read is dropped only when Window newer ones are
\* logged: a bot that is not further behind loses nothing.
UnreadKept ==
    [][\A i \in 1..Len(log) :
         /\ log[i].id > cursor /\ restarted' = restarted
         /\ \A j \in 1..Len(log') : log'[j].id # log[i].id
         => nextId' - 1 - log[i].id >= Window]_vars

\* A poll returns something whenever there is something newer than the cursor,
\* so that with a limit per poll the bot still gets to the end of the log.
PollAdvances == [][BotPolls /\ cursor < nextId - 1 => cursor' > cursor]_vars
=============================================================================
