----------------------------- MODULE WorldAgent ------------------------------
(***************************************************************************)
(* src/src/bin/world_agent.rs: a program with an avatar of its own.  It    *)
(* connects, follows the room through callbacks, and in a loop takes what  *)
(* its select! offers (a message of a callback, an answer of the LLM, the  *)
(* ticker) and then decides what to do.  When the server goes away it      *)
(* waits, each time longer, and connects again.                            *)
(*                                                                         *)
(* One pass of the loop is one action.  Time is counted in ticks of its    *)
(* ticker, and ages are not counted past the largest the code compares.    *)
(* Walking ("goto" and its timers) changes nothing that the rest of the    *)
(* program looks at and is left out, as are ctrl-c, which ends the         *)
(* program, and avatars without a name, which it ignores.                  *)
(*                                                                         *)
(* The server may stop and start, and tells a connection that is in a room *)
(* of the avatars there.  The program never emits join-space: it counts on *)
(* a server that puts every connection in a room (RoomOnConnect) and shows *)
(* it its own avatar there once that has a name.  The server of this       *)
(* repository does not.                                                    *)
(***************************************************************************)
EXTENDS Integers, Sequences, FiniteSets

CONSTANTS
    Me,             \* the id of the program's connection
    Twins,          \* connections of other programs, or of an earlier session
                    \* of this one, with the same nickname
    People,         \* other connections
    None,           \* no connection
    RoomOnConnect,  \* whether the server puts a connection in a room
    Greeting,       \* AGENT_GREETING is set
    ReplyToAll,     \* AGENT_REPLY_TO_ALL
    MinChat,        \* AGENT_MIN_CHAT_INTERVAL_MS, in ticks
    LlmGap,         \* 1500 ms, in ticks
    LlmTick,        \* AGENT_LLM_TICK_MS, in ticks; 0 for never
    Base, Longest,  \* reconnect-base-ms, reconnect-max-ms
    MaxOrphans      \* bound on LLM calls of ended sessions

VARIABLES
    up, link, known,
        \* the server runs; the connection is "up", "lost" (and not noticed) or
        \* "down"; the server has the user data
    live, backoff,
        \* run_session is past connect_socket; backoff_ms
    s, world, heard, ctrl,
        \* the session: its local variables, the ids in WorldState.clients, the
        \* newest chat message not looked at, what is in rx_ctrl
    llm, calls, answers, orphans
        \* an LLM is configured; its running calls, the answers in rx_brain, the
        \* running calls of sessions that have ended

net  == <<up, link, known>>
mind == <<calls, answers>>
vars == <<net, live, backoff, s, world, heard, ctrl, llm, mind, orphans>>

Ids   == {Me} \cup Twins \cup People
Namesakes == {Me} \cup Twins
Aged  == 1 + IF LlmGap > LlmTick THEN LlmGap ELSE LlmTick

ASSUME WorldAgentAssumption ==
    /\ Me \notin Twins \cup People /\ Twins \cap People = {} /\ None \notin Ids
    /\ "disconnected" \notin Twins
    /\ MinChat \in Nat /\ LlmGap \in Nat /\ LlmTick \in Nat /\ MaxOrphans \in Nat
    /\ Base \in Nat \ {0} /\ Longest \in Nat /\ Base <= Longest
    /\ {RoomOnConnect, Greeting, ReplyToAll} \subseteq BOOLEAN

\* self_id, its age, resent_user_data, spawned, greeting_sent, greeted, the age of
\* last_sent_chat_ms and of last_llm_ms, llm_in_flight.  History: the age of
\* the last chat message it really sent, and whether one followed another
\* sooner than MinChat.
Session == [self : Namesakes \cup {None}, age : 0..Aged, resent : BOOLEAN,
            spawned : BOOLEAN, hello : BOOLEAN, greeted : SUBSET Ids, talk : 0..MinChat,
            thought : 0..Aged, busy : BOOLEAN, quiet : 0..MinChat, hasty : BOOLEAN]

NewSession == [self |-> None, age |-> 0, resent |-> FALSE,
               spawned |-> FALSE, hello |-> FALSE, greeted |-> {}, talk |-> MinChat,
               thought |-> Aged, busy |-> FALSE, quiet |-> MinChat, hasty |-> FALSE]

TypeOK ==
    /\ {up, known, live, llm} \subseteq BOOLEAN /\ link \in {"up", "lost", "down"}
    /\ backoff \in Base..Longest
    /\ s \in Session /\ world \subseteq Ids
    /\ heard \in {"nothing", "chatter", "address"}
    /\ ctrl \subseteq Twins \cup {"disconnected"}
    /\ calls \in Nat /\ answers \in Seq({"ok", "error"}) /\ orphans \in 0..MaxOrphans

\* Mutant: the channel of the callbacks outlives a session.
MutantFresh ==
    /\ s' = NewSession /\ world' = {} /\ heard' = "nothing"
    /\ calls' = 0 /\ answers' = <<>> /\ UNCHANGED ctrl

\* What run_session creates: local variables, a WorldState, channels.
Fresh ==
    /\ s' = NewSession /\ world' = {} /\ heard' = "nothing"
    /\ calls' = 0 /\ answers' = <<>> /\ ctrl' = {}

Init ==
    /\ up \in BOOLEAN /\ link = "down" /\ known = FALSE
    /\ live = FALSE /\ backoff = Base
    /\ s = NewSession /\ world = {} /\ heard = "nothing" /\ ctrl = {}
    /\ llm \in BOOLEAN /\ calls = 0 /\ answers = <<>> /\ orphans = 0

-----------------------------------------------------------------------------
(* The reconnect loop of main *)

\* connect_socket; the user data it sends may be lost.
Connect ==
    /\ ~ live /\ up
    /\ live' = TRUE /\ link' = "up" /\ known' \in BOOLEAN
    /\ Fresh
    /\ UNCHANGED <<up, backoff, llm, orphans>>

\* Mutant: the wait doubles without limit.
MutantConnectFails ==
    /\ ~ live /\ ~ up
    /\ backoff' = 2 * backoff
    /\ UNCHANGED <<net, live, s, world, heard, ctrl, llm, mind, orphans>>

ConnectFails ==
    /\ ~ live /\ ~ up
    /\ backoff' = IF 2 * backoff < Longest THEN 2 * backoff ELSE Longest
    /\ UNCHANGED <<net, live, s, world, heard, ctrl, llm, mind, orphans>>

\* A Disconnected ends run_session.  An LLM call goes on without a receiver,
\* an answer not taken is dropped.
EndSession ==
    /\ "disconnected" \in ctrl
    /\ live' = FALSE /\ link' = "down" /\ known' = FALSE /\ backoff' = Base
    /\ orphans' = orphans + calls
    /\ Fresh
    /\ UNCHANGED <<up, llm>>

-----------------------------------------------------------------------------
(* The decision that ends a pass of the loop, t being the session before it *)

Sends(t) == [t EXCEPT !.talk = 0, !.quiet = 0, !.hasty = @ \/ t.quiet < MinChat]
MaySay(t) == t.talk >= MinChat

\* Its own avatar, as find_self_client finds it: by the name.
Seen == world \cap Namesakes

Discover(t, me) == IF t.self = None /\ Seen # {} THEN [t EXCEPT !.self = me] ELSE t

\* Mutant: the user data is not sent again.
MutantResends(t) == FALSE
Resends(t) == ~ t.resent /\ Seen = {} /\ t.age > LlmGap

Spawn(t) == [t EXCEPT !.spawned = @ \/ Seen # {}]

\* AGENT_GREETING, once the program sees itself.
Greet(t, ok) ==
    IF Seen = {} \/ t.hello \/ (Greeting /\ ~(MaySay(t) /\ ok)) THEN t
    ELSE [(IF Greeting THEN Sends(t) ELSE t) EXCEPT !.hello = TRUE]

\* Mutant: it does not skip itself.
MutantNearby(t) == IF Seen = {} THEN {} ELSE world

\* Who can be the nearest avatar: none if the program does not see itself.
Nearby(t) == IF Seen = {} THEN {} ELSE world \ {t.self}

\* A greeting of somebody near by, who is the nearest avatar, or nobody.
GreetNearby(t, who, ok) ==
    IF who = None \/ who \in t.greeted \/ ~ MaySay(t) \/ ~ ok THEN t
    ELSE [Sends(t) EXCEPT !.greeted = @ \cup {who}]

\* The LLM is asked because of chat, or because it has not been for a while.
OnChat(t)    == heard # "nothing" /\ t.thought > LlmGap /\ (ReplyToAll \/ heard = "address")
WantsLlm(t)  == /\ Seen # {} /\ ~ t.busy
                /\ OnChat(t) \/ (LlmTick > 0 /\ t.thought > LlmTick)

\* Without an LLM, what addresses the program is answered at once.
Reply(t, ok) ==
    IF ~ llm /\ Seen # {} /\ OnChat(t) /\ heard = "address" /\ MaySay(t) /\ ok
    THEN Sends(t) ELSE t

\* The choices are: which namesake it takes for itself, who is nearest and
\* within 3 m, and, on a connection that is lost, whether an emit reports it.
Decide(t) ==
    \E me \in IF Seen = {} THEN {None} ELSE Seen,
       ok \in IF link = "up" THEN {TRUE} ELSE BOOLEAN :
    LET t1 == Greet(Spawn(Discover(t, me)), ok) IN
    \E who \in Nearby(t1) \cup {None} :
    LET t2 == Reply(GreetNearby(t1, who, ok), ok)
        resends == Resends(t)
        asks == llm /\ WantsLlm(t2) IN
    /\ s' = [t2 EXCEPT !.resent = @ \/ resends,
                       !.busy = @ \/ asks,
                       !.thought = IF asks THEN 0 ELSE @]
    /\ known' = (known \/ (resends /\ link = "up"))
    /\ calls' = IF asks THEN calls + 1 ELSE calls
    /\ heard' = "nothing"

-----------------------------------------------------------------------------
(* The branches of select!, but for the one that ends the session *)

Older(t) == [t EXCEPT !.age     = IF @ < Aged THEN @ + 1 ELSE @,
                      !.talk    = IF @ < MinChat THEN @ + 1 ELSE @,
                      !.quiet   = IF @ < MinChat THEN @ + 1 ELSE @,
                      !.thought = IF @ < Aged THEN @ + 1 ELSE @]

Tick ==
    /\ live /\ Decide(Older(s))
    /\ UNCHANGED <<up, link, live, backoff, world, ctrl, llm, answers, orphans>>

\* IdentifiedSelf.
Identified(i) ==
    /\ i \in ctrl /\ ctrl' = ctrl \ {i}
    /\ Decide([s EXCEPT !.self = IF @ = None THEN i ELSE @])
    /\ UNCHANGED <<up, link, live, backoff, world, llm, answers, orphans>>

\* Mutant: a chat message of the LLM does not count for the pace.
MutantLlmSays(t) == [Sends(t) EXCEPT !.talk = t.talk]
LlmSays(t) == Sends(t)

\* LlmResult with an action: perhaps say something (that is not empty, nor
\* what was said last).
Answered ==
    /\ answers # <<>> /\ Head(answers) = "ok" /\ answers' = Tail(answers)
    /\ LET t == [s EXCEPT !.busy = FALSE, !.thought = 0] IN
       \/ Decide(t)
       \/ MaySay(t) /\ Decide(LlmSays(t))
    /\ UNCHANGED <<up, link, live, backoff, world, ctrl, llm, orphans>>

\* Mutant: an error leaves llm_in_flight as it is.
MutantRefused ==
    /\ answers # <<>> /\ Head(answers) = "error" /\ answers' = Tail(answers)
    /\ s' = [s EXCEPT !.thought = 0]
    /\ UNCHANGED <<net, live, backoff, world, heard, ctrl, llm, calls, orphans>>

\* LlmResult with an error: the pass of the loop ends there.
Refused ==
    /\ answers # <<>> /\ Head(answers) = "error" /\ answers' = Tail(answers)
    /\ s' = [s EXCEPT !.busy = FALSE, !.thought = 0]
    /\ UNCHANGED <<net, live, backoff, world, heard, ctrl, llm, calls, orphans>>

-----------------------------------------------------------------------------
(* The LLM, a call of which may take any time *)

Thinks ==
    /\ calls > 0 /\ calls' = calls - 1
    /\ \E a \in {"ok", "error"} : answers' = Append(answers, a)
    /\ UNCHANGED <<net, live, backoff, s, world, heard, ctrl, llm, orphans>>

\* Mutant: an answer to an earlier session reaches this one.
MutantThoughtInVain ==
    /\ orphans > 0 /\ orphans' = orphans - 1
    /\ answers' = IF live THEN Append(answers, "ok") ELSE answers
    /\ UNCHANGED <<net, live, backoff, s, world, heard, ctrl, llm, calls>>

\* The answer to a session that has ended: its receiver is gone.
ThoughtInVain ==
    /\ orphans > 0 /\ orphans' = orphans - 1
    /\ UNCHANGED <<net, live, backoff, s, world, heard, ctrl, llm, mind>>

-----------------------------------------------------------------------------
(* The server, and the callbacks of what it emits *)

Stops ==
    /\ up /\ orphans < MaxOrphans
    /\ up' = FALSE /\ link' = IF link = "up" THEN "lost" ELSE link
    /\ UNCHANGED <<known, live, backoff, s, world, heard, ctrl, llm, mind, orphans>>

Starts ==
    /\ ~ up /\ up' = TRUE
    /\ UNCHANGED <<link, known, live, backoff, s, world, heard, ctrl, llm, mind, orphans>>

\* The callback of "disconnect".
Noticed ==
    /\ link = "lost" /\ ctrl' = ctrl \cup {"disconnected"}
    /\ UNCHANGED <<net, live, backoff, s, world, heard, llm, mind, orphans>>

InRoom == RoomOnConnect /\ link = "up"
Callback == InRoom /\ UNCHANGED <<net, live, backoff, s, llm, mind, orphans>>

\* "existing clients" replaces the map.
Existing(w) ==
    /\ (Me \in world => Me \in w) /\ (Me \in w => known)
    /\ world' = w /\ Callback /\ UNCHANGED <<heard, ctrl>>

\* "new user" is emitted to others than the one it is about.
NewUser(i) ==
    /\ i # Me /\ world' = world \cup {i}
    /\ ctrl' = IF i \in Twins THEN ctrl \cup {i} ELSE ctrl
    /\ Callback /\ UNCHANGED heard

\* A "move" inserts whom it is about.
Moved(i) ==
    /\ (i = Me => known) /\ world' = world \cup {i}
    /\ Callback /\ UNCHANGED <<heard, ctrl>>

Delete(i) ==
    /\ i \in world \ {Me} /\ world' = world \ {i}
    /\ Callback /\ UNCHANGED <<heard, ctrl>>

\* "chat message" of somebody with another name; only the last one counts.
ChatMessage ==
    /\ heard' \in {"chatter", "address"}
    /\ Callback /\ UNCHANGED <<world, ctrl>>

SeesMe == Existing(world \cup {Me})

-----------------------------------------------------------------------------
Pass == Tick \/ (\E i \in Twins : Identified(i)) \/ Answered \/ Refused

Next ==
    \/ Connect \/ ConnectFails \/ EndSession \/ Pass
    \/ Thinks \/ ThoughtInVain
    \/ Stops \/ Starts \/ Noticed
    \/ \E w \in SUBSET Ids : Existing(w)
    \/ \E i \in Ids : NewUser(i) \/ Moved(i) \/ Delete(i)
    \/ ChatMessage

\* select! takes each branch that stays ready at some time; what is assumed of
\* others is that an LLM call ends, that a lost connection is noticed, and
\* that a server which puts the program in a room shows it there.
Spec ==
    /\ Init /\ [][Next]_vars
    /\ WF_vars(Connect) /\ WF_vars(EndSession)
    /\ WF_vars(Tick) /\ WF_vars(Answered) /\ WF_vars(Refused)
    /\ WF_vars(Thinks) /\ WF_vars(Noticed) /\ WF_vars(SeesMe)

-----------------------------------------------------------------------------
\* In a session no chat message follows another sooner than MinChat: the
\* greeting, the greeting of somebody near by, the reply and what the LLM says
\* share one pace.  (A new session starts it anew.)
ChatPaced == ~ s.hasty

\* llm_in_flight says exactly whether one call of this session is running or
\* its answer waits; there are never two, and no answer to an earlier session.
BusyExact ==
    /\ s.busy = (calls + Len(answers) > 0)
    /\ calls + Len(answers) <= 1

\* It greets itself as if it were somebody else only if it took a namesake for
\* itself before.
NotItself == Me \in s.greeted => s.self \in Twins

\* The LLM can always be asked again: a failed call does not silence it.
BrainFreed == s.busy ~> ~ s.busy

\* Restarts of the server are survived.
Reconnects == <>[]up => <>[](live /\ link = "up")

\* Put in a room by the server, it gets its name and model to it, also when the
\* user data it sent first was lost, and spawns as a character; unless a
\* namesake comes into view, which it takes for itself: then it does not send
\* its user data again, and its avatar may stay without a name.
Spawns ==
    live /\ link = "up" ~> \/ s.spawned /\ known
                           \/ link # "up"
                           \/ world \cap Twins # {}
=============================================================================
