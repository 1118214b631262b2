-------------------------- MODULE WorldAgentProofs ---------------------------
(* The world agent: its types, the pace of its chat, its LLM flag and whom  *)
(* it greets, for any number of namesakes and any intervals.                *)
EXTENDS WorldAgent, TLAPS

USE WorldAgentAssumption DEF WorldAgentAssumption

LEMMA AgedType == Aged \in Nat /\ Aged >= 1 + LlmGap
  BY DEF Aged

\* A session in order: the code's clock of its chat is the true one, nothing
\* came too soon, and it has greeted itself only as a namesake's double.
Orderly(t) ==
    /\ t \in Session
    /\ t.talk = t.quiet /\ ~ t.hasty
    /\ Me \in t.greeted => t.self \in Twins

\* The flag against what is running, for calls c and answers a.
FlagExact(t, c, a) == t.busy = (c + Len(a) > 0) /\ c + Len(a) <= 1

\* What the connection, the report of its loss and the orphans have to do with
\* each other: the server stops only while there is room for one orphan more.
LinkInv ==
    /\ "disconnected" \in ctrl => link = "lost"
    /\ link = "lost" => orphans < MaxOrphans

Inv == TypeOK /\ Orderly(s) /\ BusyExact /\ LinkInv

-----------------------------------------------------------------------------
(* The stages of a decision keep a session in order, and none but the last  *)
(* changes the flag.                                                        *)

LEMMA NewOrderly == Orderly(NewSession) /\ ~ NewSession.busy
<1>1. NewSession \in Session
  BY AgedType DEF NewSession, Session
<1> QED BY <1>1 DEF Orderly, NewSession

LEMMA SendsOrderly ==
  ASSUME NEW t, Orderly(t), MaySay(t)
  PROVE  Orderly(Sends(t)) /\ Sends(t).busy = t.busy /\ Sends(t).self = t.self
<1>1. ~ (t.quiet < MinChat) /\ ~ t.hasty
  BY DEF Orderly, MaySay, Session
<1>2. (t.hasty \/ t.quiet < MinChat) = FALSE
  BY <1>1
<1>3. Sends(t) = [t EXCEPT !.talk = 0, !.quiet = 0, !.hasty = FALSE]
  BY <1>2 DEF Sends
<1>4. Sends(t) \in Session
  <2>1. t \in Session /\ 0 \in 0..MinChat /\ FALSE \in BOOLEAN
    BY DEF Orderly
  <2>2. [t EXCEPT !.talk = 0, !.quiet = 0, !.hasty = FALSE] \in Session
    BY <2>1 DEF Session
  <2> QED BY <2>2, <1>3
<1>5. /\ Sends(t).talk = 0 /\ Sends(t).quiet = 0 /\ Sends(t).hasty = FALSE
      /\ Sends(t).self = t.self /\ Sends(t).greeted = t.greeted /\ Sends(t).busy = t.busy
  BY <1>3 DEF Orderly, Session
<1> QED BY <1>4, <1>5 DEF Orderly

LEMMA DiscoverOrderly ==
  ASSUME NEW t, Orderly(t), NEW me \in Namesakes
  PROVE  /\ Orderly(Discover(t, me)) /\ Discover(t, me).busy = t.busy
         /\ Seen # {} => Discover(t, me).self \in Namesakes
  BY DEF Orderly, Discover, Session, Namesakes, Ids

LEMMA SpawnOrderly ==
  ASSUME NEW t, Orderly(t)
  PROVE  Orderly(Spawn(t)) /\ Spawn(t).busy = t.busy /\ Spawn(t).self = t.self
  BY DEF Orderly, Spawn, Session

LEMMA GreetOrderly ==
  ASSUME NEW t, Orderly(t), NEW ok \in BOOLEAN
  PROVE  Orderly(Greet(t, ok)) /\ Greet(t, ok).busy = t.busy /\ Greet(t, ok).self = t.self
<1>1. ASSUME NEW u, Orderly(u)
      PROVE  /\ Orderly([u EXCEPT !.hello = TRUE]) /\ [u EXCEPT !.hello = TRUE].busy = u.busy
             /\ [u EXCEPT !.hello = TRUE].self = u.self
  BY <1>1 DEF Orderly, Session
<1>2. CASE Greet(t, ok) = t
  BY <1>2
<1>3. CASE Greeting /\ MaySay(t) /\ Greet(t, ok) = [Sends(t) EXCEPT !.hello = TRUE]
  BY <1>1, <1>3, SendsOrderly
<1>4. CASE Greet(t, ok) = [t EXCEPT !.hello = TRUE]
  BY <1>1, <1>4
<1> QED BY <1>2, <1>3, <1>4 DEF Greet

LEMMA GreetNearbyOrderly ==
  ASSUME NEW t, Orderly(t), NEW ok \in BOOLEAN, NEW who \in Nearby(t) \cup {None},
         world \subseteq Ids, Seen # {} => t.self \in Namesakes
  PROVE  Orderly(GreetNearby(t, who, ok)) /\ GreetNearby(t, who, ok).busy = t.busy
<1>1. CASE GreetNearby(t, who, ok) = t
  BY <1>1
<1>2. CASE /\ who # None /\ MaySay(t)
           /\ GreetNearby(t, who, ok) = [Sends(t) EXCEPT !.greeted = @ \cup {who}]
  <2>1. who \in Ids /\ who # t.self /\ t.self \in Namesakes
    BY <1>2 DEF Nearby, Seen
  <2>2. Orderly(Sends(t)) /\ Sends(t).busy = t.busy /\ Sends(t).self = t.self
    BY <1>2, SendsOrderly
  <2> QED BY <1>2, <2>1, <2>2 DEF Orderly, Session, Namesakes, Ids
<1> QED BY <1>1, <1>2 DEF GreetNearby

LEMMA ReplyOrderly ==
  ASSUME NEW t, Orderly(t), NEW ok \in BOOLEAN
  PROVE  Orderly(Reply(t, ok)) /\ Reply(t, ok).busy = t.busy
  BY SendsOrderly DEF Reply

\* What a decision notes of a resend r and of a question q to the LLM.
Noted(t, r, q) == [t EXCEPT !.resent = @ \/ r, !.busy = @ \/ q,
                            !.thought = IF q THEN 0 ELSE @]

LEMMA NotedOrderly ==
  ASSUME NEW t, Orderly(t), NEW r \in BOOLEAN, NEW q \in BOOLEAN
  PROVE  Orderly(Noted(t, r, q)) /\ Noted(t, r, q).busy = (t.busy \/ q)
<1>1. t.resent \in BOOLEAN /\ t.busy \in BOOLEAN /\ t.thought \in 0..Aged
  BY DEF Orderly, Session
<1>2. PICK r1 \in BOOLEAN, q1 \in BOOLEAN, n \in 0..Aged :
        /\ r1 = (t.resent \/ r) /\ q1 = (t.busy \/ q)
        /\ n = IF q THEN 0 ELSE t.thought
  BY <1>1, AgedType
<1> DEFINE u == Noted(t, r, q)
<1>3. u = [t EXCEPT !.resent = r1, !.busy = q1, !.thought = n]
  BY <1>2 DEF Noted
<1> HIDE DEF u
<1>4. u \in Session /\ u.busy = q1
  BY <1>3 DEF Orderly, Session
<1>5. u.talk = t.talk /\ u.quiet = t.quiet /\ u.hasty = t.hasty
      /\ u.greeted = t.greeted /\ u.self = t.self
  BY <1>3 DEF Orderly, Session
<1>6. Orderly(u) /\ u.busy = (t.busy \/ q)
  BY <1>2, <1>4, <1>5 DEF Orderly
<1> QED BY <1>6 DEF u

\* A decision leaves the session in order and the flag exact, if a are the
\* answers that wait then.
LEMMA DecideKeeps ==
  ASSUME NEW t, Orderly(t), world \subseteq Ids, known \in BOOLEAN, calls \in Nat,
         NEW a \in Seq({"ok", "error"}), FlagExact(t, calls, a), Decide(t)
  PROVE  /\ Orderly(s') /\ known' \in BOOLEAN /\ calls' \in Nat /\ heard' = "nothing"
         /\ FlagExact(s', calls', a)
<1>1. PICK me \in IF Seen = {} THEN {None} ELSE Seen,
           ok \in IF link = "up" THEN {TRUE} ELSE BOOLEAN :
        LET t1 == Greet(Spawn(Discover(t, me)), ok) IN
        \E who \in Nearby(t1) \cup {None} :
        LET t2 == Reply(GreetNearby(t1, who, ok), ok)
            asks == llm /\ WantsLlm(t2) IN
        /\ s' = [t2 EXCEPT !.resent = @ \/ Resends(t), !.busy = @ \/ asks,
                           !.thought = IF asks THEN 0 ELSE @]
        /\ known' = (known \/ (Resends(t) /\ link = "up"))
        /\ calls' = IF asks THEN calls + 1 ELSE calls
        /\ heard' = "nothing"
  BY DEF Decide
<1> DEFINE t0 == Discover(t, me)
           t1 == Greet(Spawn(t0), ok)
<1>2. Orderly(t0) /\ t0.busy = t.busy /\ (Seen # {} => t0.self \in Namesakes)
  <2>1. CASE Seen = {}
    BY <2>1 DEF Discover
  <2>2. CASE Seen # {}
    <3>1. me \in Namesakes
      BY <2>2 DEF Seen
    <3> QED BY <3>1, DiscoverOrderly
  <2> QED BY <2>1, <2>2
<1>3. Orderly(t1) /\ t1.busy = t.busy /\ (Seen # {} => t1.self \in Namesakes)
  BY <1>2, SpawnOrderly, GreetOrderly
<1>4. PICK who \in Nearby(t1) \cup {None} :
        LET t2 == Reply(GreetNearby(t1, who, ok), ok)
            asks == llm /\ WantsLlm(t2) IN
        /\ s' = [t2 EXCEPT !.resent = @ \/ Resends(t), !.busy = @ \/ asks,
                           !.thought = IF asks THEN 0 ELSE @]
        /\ known' = (known \/ (Resends(t) /\ link = "up"))
        /\ calls' = IF asks THEN calls + 1 ELSE calls
        /\ heard' = "nothing"
  BY <1>1
<1> DEFINE t2 == Reply(GreetNearby(t1, who, ok), ok)
           asks == llm /\ WantsLlm(t2)
<1>5. Orderly(t2) /\ t2.busy = t.busy
  <2>1. Orderly(GreetNearby(t1, who, ok)) /\ GreetNearby(t1, who, ok).busy = t.busy
    BY <1>3, GreetNearbyOrderly
  <2> QED BY <2>1, ReplyOrderly
<1>6. asks => ~ t.busy
  BY <1>5 DEF WantsLlm
<1> HIDE DEF t2, asks
<1>7. /\ s' = Noted(t2, Resends(t), asks)
      /\ calls' = IF asks THEN calls + 1 ELSE calls
      /\ known' \in BOOLEAN /\ heard' = "nothing"
  BY <1>4 DEF t2, asks, Noted
<1>8. Resends(t) \in BOOLEAN /\ asks \in BOOLEAN
  BY DEF Resends, asks, WantsLlm
<1>9. Orderly(s') /\ s'.busy = (t2.busy \/ asks)
  <2>1. PICK r \in BOOLEAN, q \in BOOLEAN : r = Resends(t) /\ q = asks
    BY <1>8
  <2>2. /\ Orderly(Noted(t2, r, q))
        /\ Noted(t2, r, q).busy = (t2.busy \/ q)
    <3>1. Orderly(t2)
      BY <1>5
    <3>2. Orderly(Noted(t2, r, q))
      BY <3>1, NotedOrderly
    <3>3. Noted(t2, r, q).busy = (t2.busy \/ q)
      BY <3>1, NotedOrderly
    <3> QED BY <3>2, <3>3
  <2>3. s' = Noted(t2, r, q)
    BY <1>7, <2>1
  <2> QED BY <2>1, <2>2, <2>3
<1>10. FlagExact(s', calls', a) /\ calls' \in Nat
  <2>1. CASE asks
    <3>1. t.busy = FALSE /\ calls + Len(a) = 0 /\ Len(a) \in Nat
      BY <2>1, <1>6 DEF FlagExact, Orderly, Session
    <3>2. s'.busy = TRUE
      BY <2>1, <1>9
    <3>3. calls' = calls + 1
      BY <2>1, <1>7
    <3>4. calls' + Len(a) = 1 /\ calls' \in Nat
      BY <3>1, <3>3
    <3>5. (calls' + Len(a) > 0) = TRUE /\ calls' + Len(a) <= 1
      BY <3>4
    <3> QED BY <3>2, <3>4, <3>5 DEF FlagExact
  <2>2. CASE ~ asks
    <3>1. s'.busy = t.busy
      BY <2>2, <1>5, <1>9 DEF Orderly, Session
    <3> QED BY <2>2, <3>1, <1>7 DEF FlagExact
  <2> QED BY <2>1, <2>2
<1> QED BY <1>7, <1>9, <1>10

-----------------------------------------------------------------------------
(* One lemma per kind of step                                               *)

\* A pass of the loop that decides from the session t.
LEMMA PassKeeps ==
  ASSUME Inv, NEW t, Orderly(t), FlagExact(t, calls, answers'), Decide(t),
         answers' \in Seq({"ok", "error"}), ctrl' \subseteq ctrl,
         UNCHANGED <<up, link, live, backoff, world, llm, orphans>>
  PROVE  Inv'
<1>1. world \subseteq Ids /\ known \in BOOLEAN /\ calls \in Nat
  BY DEF Inv, TypeOK
<1>2. /\ Orderly(s') /\ known' \in BOOLEAN /\ calls' \in Nat /\ heard' = "nothing"
      /\ FlagExact(s', calls', answers')
  BY <1>1, DecideKeeps
<1>3. TypeOK'
  BY <1>2 DEF Inv, TypeOK, Orderly
<1>4. BusyExact'
  BY <1>2 DEF BusyExact, FlagExact
<1>5. LinkInv'
  BY DEF Inv, LinkInv
<1>6. Orderly(s)'
  BY <1>2 DEF Orderly
<1> QED BY <1>3, <1>4, <1>5, <1>6 DEF Inv

LEMMA OlderOrderly ==
  ASSUME NEW t, Orderly(t)
  PROVE  Orderly(Older(t)) /\ Older(t).busy = t.busy
<1>1. t \in Session /\ t.talk = t.quiet /\ ~ t.hasty
  BY DEF Orderly
<1>2. t.age \in 0..Aged /\ t.thought \in 0..Aged /\ t.talk \in 0..MinChat
  BY <1>1 DEF Session
<1>3. PICK n \in 0..Aged, m \in 0..Aged, k \in 0..MinChat :
        /\ n = IF t.age < Aged THEN t.age + 1 ELSE t.age
        /\ m = IF t.thought < Aged THEN t.thought + 1 ELSE t.thought
        /\ k = IF t.talk < MinChat THEN t.talk + 1 ELSE t.talk
  BY <1>2, AgedType
<1>4. Older(t) = [t EXCEPT !.age = n, !.talk = k, !.quiet = k, !.thought = m]
  BY <1>1, <1>3 DEF Older
<1>5. [t EXCEPT !.age = n, !.talk = k, !.quiet = k, !.thought = m] \in Session
  BY <1>1 DEF Session
<1>6. /\ Older(t).talk = k /\ Older(t).quiet = k /\ Older(t).hasty = t.hasty
      /\ Older(t).greeted = t.greeted /\ Older(t).self = t.self
      /\ Older(t).busy = t.busy
  BY <1>1, <1>4 DEF Session
<1> QED BY <1>1, <1>4, <1>5, <1>6 DEF Orderly

LEMMA TickKeeps ==
  ASSUME Inv, Tick
  PROVE  Inv'
<1>1. Orderly(Older(s)) /\ Older(s).busy = s.busy
  BY OlderOrderly DEF Inv
<1>2. FlagExact(Older(s), calls, answers)
  BY <1>1 DEF Inv, BusyExact, FlagExact
<1>3. answers' = answers /\ answers \in Seq({"ok", "error"})
  BY DEF Inv, TypeOK, Tick
<1>4. Decide(Older(s)) /\ ctrl' \subseteq ctrl
      /\ UNCHANGED <<up, link, live, backoff, world, llm, orphans>>
  BY DEF Tick
<1> QED BY <1>1, <1>2, <1>3, <1>4, PassKeeps

LEMMA IdentifiedKeeps ==
  ASSUME Inv, NEW i \in Twins, Identified(i)
  PROVE  Inv'
<1> DEFINE t == [s EXCEPT !.self = IF @ = None THEN i ELSE @]
<1>1. Orderly(t) /\ t.busy = s.busy
  BY DEF Inv, Orderly, Session, Namesakes, Ids
<1>2. Decide(t) /\ ctrl' \subseteq ctrl /\ answers' = answers
      /\ UNCHANGED <<up, link, live, backoff, world, llm, orphans>>
  BY DEF Identified
<1> HIDE DEF t
<1>3. FlagExact(t, calls, answers) /\ answers \in Seq({"ok", "error"})
  BY <1>1 DEF Inv, TypeOK, BusyExact, FlagExact
<1> QED BY <1>1, <1>2, <1>3, PassKeeps

\* The answer taken was the only one, and no call ran.
LEMMA TakesAnswer ==
  ASSUME Inv, answers # <<>>, answers' = Tail(answers)
  PROVE  calls = 0 /\ answers' = <<>> /\ s.busy = TRUE
<1>1. answers \in Seq({"ok", "error"}) /\ calls \in Nat /\ calls + Len(answers) <= 1
      /\ s.busy = (calls + Len(answers) > 0)
  BY DEF Inv, TypeOK, BusyExact
<1>2. Len(answers) \in Nat /\ Len(answers) # 0
  BY <1>1
<1>3. calls = 0 /\ Len(answers) = 1
  <2>1. calls \in Nat /\ calls + Len(answers) <= 1
    BY <1>1
  <2>2. \A c, n \in Nat : c + n <= 1 /\ n # 0 => c = 0 /\ n = 1
    OBVIOUS
  <2> QED BY <2>1, <2>2, <1>2
<1>4. Tail(answers) \in Seq({"ok", "error"}) /\ Len(Tail(answers)) = 0
  BY <1>1, <1>3
<1>5. Tail(answers) = <<>>
  BY <1>4
<1>6. (calls + Len(answers) > 0) = TRUE
  BY <1>3
<1> QED BY <1>1, <1>3, <1>5, <1>6

LEMMA FreedOrderly ==
  ASSUME Orderly(s)
  PROVE  LET t == [s EXCEPT !.busy = FALSE, !.thought = 0]
         IN  Orderly(t) /\ t.busy = FALSE
<1>1. s \in Session /\ 0 \in 0..Aged /\ FALSE \in BOOLEAN
  BY AgedType DEF Orderly
<1>2. [s EXCEPT !.busy = FALSE, !.thought = 0] \in Session
  BY <1>1 DEF Session
<1> QED BY <1>1, <1>2 DEF Orderly, Session

LEMMA AnsweredKeeps ==
  ASSUME Inv, Answered
  PROVE  Inv'
<1> DEFINE t == [s EXCEPT !.busy = FALSE, !.thought = 0]
<1>1. Orderly(t) /\ t.busy = FALSE
  BY FreedOrderly DEF Inv
<1>2. calls = 0 /\ answers' = <<>> /\ ctrl' \subseteq ctrl
      /\ UNCHANGED <<up, link, live, backoff, world, llm, orphans>>
  BY TakesAnswer DEF Answered
<1>3. Decide(t) \/ (MaySay(t) /\ Decide(LlmSays(t)))
  BY DEF Answered
<1>4. ASSUME NEW u, u.busy = FALSE
      PROVE  FlagExact(u, calls, answers')
  <2>1. calls + Len(answers') = 0
    BY <1>2
  <2>2. (calls + Len(answers') > 0) = FALSE /\ calls + Len(answers') <= 1
    BY <2>1
  <2>3. u.busy = (calls + Len(answers') > 0)
    BY <1>4, <2>2
  <2> QED BY <2>2, <2>3 DEF FlagExact
<1>5. answers' \in Seq({"ok", "error"})
  BY <1>2
<1> HIDE DEF t
<1>6. CASE Decide(t)
  BY <1>1, <1>2, <1>4, <1>5, <1>6, PassKeeps
<1>7. CASE MaySay(t) /\ Decide(LlmSays(t))
  <2>1. Orderly(LlmSays(t)) /\ LlmSays(t).busy = FALSE
    BY <1>1, <1>7, SendsOrderly DEF LlmSays
  <2> QED BY <2>1, <1>2, <1>4, <1>5, <1>7, PassKeeps
<1> QED BY <1>3, <1>6, <1>7

LEMMA RefusedKeeps ==
  ASSUME Inv, Refused
  PROVE  Inv'
<1>1. calls = 0 /\ answers' = <<>> /\ calls' = calls
      /\ s' = [s EXCEPT !.busy = FALSE, !.thought = 0]
      /\ UNCHANGED <<up, link, known, live, backoff, world, heard, ctrl, llm, orphans>>
  BY TakesAnswer DEF Refused, net
<1>2. Orderly(s') /\ s'.busy = FALSE
  BY <1>1, FreedOrderly DEF Inv
<1>3. TypeOK'
  BY <1>1, <1>2 DEF Inv, TypeOK, Orderly
<1>4. calls' + Len(answers') = 0
  BY <1>1
<1>5. (calls' + Len(answers') > 0) = FALSE /\ calls' + Len(answers') <= 1
  BY <1>4
<1>6. s'.busy = (calls' + Len(answers') > 0)
  BY <1>2, <1>5
<1>7. BusyExact'
  BY <1>5, <1>6 DEF BusyExact
<1>8. Orderly(s)' /\ LinkInv'
  BY <1>1, <1>2 DEF Orderly, Inv, LinkInv
<1> QED BY <1>3, <1>7, <1>8 DEF Inv
\* A call of this session ends: its answer takes its place.
LEMMA ThinksKeeps ==
  ASSUME Inv, Thinks
  PROVE  Inv'
<1>1. PICK r \in {"ok", "error"} : answers' = Append(answers, r)
  BY DEF Thinks
<1>2. /\ calls \in Nat /\ calls > 0 /\ calls' = calls - 1
      /\ answers \in Seq({"ok", "error"}) /\ calls + Len(answers) <= 1
      /\ s.busy = (calls + Len(answers) > 0)
  BY DEF Inv, TypeOK, BusyExact, Thinks
<1>3. /\ UNCHANGED <<up, link, known, live, backoff, s, world, heard, ctrl, llm, orphans>>
  BY DEF Thinks, net
<1>4. answers' \in Seq({"ok", "error"}) /\ Len(answers') = Len(answers) + 1
      /\ Len(answers) \in Nat
  BY <1>1, <1>2
<1>5. calls' \in Nat /\ calls' + Len(answers') = calls + Len(answers)
  BY <1>2, <1>4
<1>6. TypeOK'
  BY <1>3, <1>4, <1>5 DEF Inv, TypeOK
<1>7. BusyExact'
  BY <1>2, <1>3, <1>5 DEF BusyExact
<1>8. Orderly(s)' /\ LinkInv'
  BY <1>3 DEF Inv, Orderly, LinkInv
<1> QED BY <1>6, <1>7, <1>8 DEF Inv

\* What begins and ends a session: everything of it is new.
LEMMA FreshKeeps ==
  ASSUME Fresh
  PROVE  /\ Orderly(s)' /\ BusyExact' /\ s' \in Session /\ world' \subseteq Ids
         /\ heard' = "nothing" /\ ctrl' = {} /\ calls' \in Nat
         /\ answers' \in Seq({"ok", "error"})
<1>1. s' = NewSession /\ world' = {} /\ heard' = "nothing" /\ calls' = 0
      /\ answers' = <<>> /\ ctrl' = {}
  BY DEF Fresh
<1>2. Orderly(NewSession) /\ NewSession \in Session /\ NewSession.busy = FALSE
  BY NewOrderly DEF Orderly, NewSession
<1>3. Orderly(s)'
  BY <1>1, <1>2 DEF Orderly
<1>4. calls' + Len(answers') = 0
  BY <1>1
<1>5. (calls' + Len(answers') > 0) = FALSE /\ calls' + Len(answers') <= 1
  BY <1>4
<1>6. s'.busy = (calls' + Len(answers') > 0)
  BY <1>1, <1>2, <1>5
<1>7. BusyExact'
  BY <1>5, <1>6 DEF BusyExact
<1> QED BY <1>1, <1>2, <1>3, <1>7

LEMMA ConnectKeeps ==
  ASSUME Inv, Connect
  PROVE  Inv'
<1>1. UNCHANGED <<up, backoff, llm, orphans>> /\ live' = TRUE /\ link' = "up"
      /\ known' \in BOOLEAN /\ Fresh
  BY DEF Connect
<1>2. TypeOK'
  BY <1>1, FreshKeeps DEF Inv, TypeOK
<1>3. LinkInv'
  BY <1>1, FreshKeeps DEF LinkInv
<1> QED BY <1>1, <1>2, <1>3, FreshKeeps DEF Inv

LEMMA ConnectFailsKeeps ==
  ASSUME Inv, ConnectFails
  PROVE  Inv'
<1>1. backoff' \in Base..Longest
  BY DEF Inv, TypeOK, ConnectFails
<1>2. UNCHANGED <<up, link, known, live, s, world, heard, ctrl, llm, calls, answers, orphans>>
  BY DEF ConnectFails, net, mind
<1> QED BY <1>1, <1>2 DEF Inv, TypeOK, Orderly, BusyExact, LinkInv

\* There is room for the one call that goes on: the connection was lost.
LEMMA EndSessionKeeps ==
  ASSUME Inv, EndSession
  PROVE  Inv'
<1>1. UNCHANGED <<up, llm>> /\ live' = FALSE /\ link' = "down" /\ known' = FALSE
      /\ backoff' = Base /\ orphans' = orphans + calls /\ Fresh
      /\ "disconnected" \in ctrl
  BY DEF EndSession
<1>2. orphans \in Nat /\ orphans < MaxOrphans
  BY <1>1 DEF Inv, TypeOK, LinkInv
<1>3. calls \in Nat /\ calls <= 1
  <2>1. calls \in Nat /\ answers \in Seq({"ok", "error"}) /\ calls + Len(answers) <= 1
    BY DEF Inv, TypeOK, BusyExact
  <2>2. Len(answers) \in Nat
    BY <2>1
  <2>3. \A c, n \in Nat : c + n <= 1 => c <= 1
    OBVIOUS
  <2> QED BY <2>1, <2>2, <2>3
<1>4. orphans' \in 0..MaxOrphans
  <2>1. \A o, c \in Nat : o < MaxOrphans /\ c <= 1 => o + c \in 0..MaxOrphans
    OBVIOUS
  <2> QED BY <1>1, <1>2, <1>3, <2>1
<1>5. TypeOK'
  <2>1. {up', known', live', llm'} \subseteq BOOLEAN
    BY <1>1 DEF Inv, TypeOK
  <2>2. backoff' \in Base..Longest /\ link' \in {"up", "lost", "down"}
    BY <1>1
  <2> QED BY <2>1, <2>2, <1>1, <1>4, FreshKeeps DEF TypeOK
<1>6. LinkInv'
  BY <1>1, FreshKeeps DEF LinkInv
<1> QED BY <1>1, <1>5, <1>6, FreshKeeps DEF Inv

\* The end of an orphan, the server and the report of a lost connection.
LEMMA OutsideKeeps ==
  ASSUME Inv, ThoughtInVain \/ Stops \/ Starts \/ Noticed
  PROVE  Inv'
<1>1. UNCHANGED <<known, live, backoff, s, world, heard, llm, calls, answers>>
  BY DEF ThoughtInVain, Stops, Starts, Noticed, net, mind
<1>2. CASE ThoughtInVain
  <2>1. orphans' \in 0..MaxOrphans /\ orphans' < orphans /\ orphans \in Nat
    BY <1>2 DEF Inv, TypeOK, ThoughtInVain
  <2> QED BY <1>1, <1>2, <2>1 DEF Inv, TypeOK, Orderly, BusyExact, LinkInv, ThoughtInVain, net
<1>3. CASE Stops
  BY <1>1, <1>3 DEF Inv, TypeOK, Orderly, BusyExact, LinkInv, Stops
<1>4. CASE Starts
  BY <1>1, <1>4 DEF Inv, TypeOK, Orderly, BusyExact, LinkInv, Starts
<1>5. CASE Noticed
  BY <1>1, <1>5 DEF Inv, TypeOK, Orderly, BusyExact, LinkInv, Noticed, net
<1> QED BY <1>2, <1>3, <1>4, <1>5

\* The callbacks of the room.
Room ==
    \/ \E w \in SUBSET Ids : Existing(w)
    \/ \E i \in Ids : NewUser(i) \/ Moved(i) \/ Delete(i)
    \/ ChatMessage

LEMMA RoomKeeps ==
  ASSUME Inv, Room
  PROVE  Inv'
<1>1. UNCHANGED <<up, link, known, live, backoff, s, llm, calls, answers, orphans>>
  BY DEF Room, Existing, NewUser, Moved, Delete, ChatMessage, Callback, net, mind
<1> DEFINE Kept == /\ world' \subseteq Ids
                   /\ heard' \in {"nothing", "chatter", "address"}
                   /\ ctrl' \subseteq Twins \cup {"disconnected"}
                   /\ "disconnected" \in ctrl' => link = "lost"
<1>2. Kept
  <2>1. ASSUME NEW w \in SUBSET Ids, Existing(w)
        PROVE  Kept
    BY <2>1 DEF Inv, TypeOK, LinkInv, Existing
  <2>2. ASSUME NEW i \in Ids, Moved(i) \/ Delete(i)
        PROVE  Kept
    BY <2>2 DEF Inv, TypeOK, LinkInv, Moved, Delete
  <2>3. ASSUME NEW i \in Ids, NewUser(i)
        PROVE  Kept
    BY <2>3 DEF Inv, TypeOK, LinkInv, NewUser
  <2>4. CASE ChatMessage
    BY <2>4 DEF Inv, TypeOK, LinkInv, ChatMessage
  <2> QED BY <2>1, <2>2, <2>3, <2>4 DEF Room
<1> QED BY <1>1, <1>2 DEF Inv, TypeOK, Orderly, BusyExact, LinkInv
-----------------------------------------------------------------------------
(* The theorems                                                             *)

LEMMA InitInv == Init => Inv
<1> SUFFICES ASSUME Init PROVE Inv
  OBVIOUS
<1>1. Orderly(s) /\ s.busy = FALSE
  BY NewOrderly DEF Init, NewSession
<1>2. calls = 0 /\ answers = <<>> /\ ctrl = {} /\ link = "down"
  BY DEF Init
<1>3. calls + Len(answers) = 0
  BY <1>2
<1>4. (calls + Len(answers) > 0) = FALSE /\ calls + Len(answers) <= 1
  BY <1>3
<1>5. s.busy = (calls + Len(answers) > 0)
  BY <1>1, <1>4
<1>6. BusyExact /\ LinkInv
  BY <1>2, <1>4, <1>5 DEF BusyExact, LinkInv
<1>7. TypeOK
  <2>1. {up, known, live, llm} \subseteq BOOLEAN
    BY DEF Init
  <2>2. backoff \in Base..Longest /\ orphans \in 0..MaxOrphans
    BY DEF Init
  <2>3. s \in Session /\ world \subseteq Ids /\ heard = "nothing"
    BY <1>1 DEF Init, Orderly
  <2>4. calls \in Nat /\ answers \in Seq({"ok", "error"})
    BY <1>2
  <2> QED BY <2>1, <2>2, <2>3, <2>4, <1>2 DEF TypeOK
<1> QED BY <1>1, <1>6, <1>7 DEF Inv

LEMMA NextInv == Inv /\ [Next]_vars => Inv'
<1> SUFFICES ASSUME Inv, [Next]_vars PROVE Inv'
  OBVIOUS
<1>1. CASE Connect
  BY <1>1, ConnectKeeps
<1>2. CASE ConnectFails
  BY <1>2, ConnectFailsKeeps
<1>3. CASE EndSession
  BY <1>3, EndSessionKeeps
<1>4. CASE Pass
  BY <1>4, TickKeeps, IdentifiedKeeps, AnsweredKeeps, RefusedKeeps DEF Pass
<1>5. CASE Thinks
  BY <1>5, ThinksKeeps
<1>6. CASE ThoughtInVain \/ Stops \/ Starts \/ Noticed
  BY <1>6, OutsideKeeps
<1>7. CASE Room
  BY <1>7, RoomKeeps
<1>8. CASE UNCHANGED vars
  BY <1>8 DEF Inv, TypeOK, Orderly, BusyExact, LinkInv, vars, net, mind
<1> QED BY <1>1, <1>2, <1>3, <1>4, <1>5, <1>6, <1>7, <1>8 DEF Next, Room

LEMMA InvHolds == Spec => []Inv
  BY InitInv, NextInv, PTL DEF Spec

\* Every variable keeps its type, and the wait between two attempts to connect
\* stays within the configured range, however often it doubles.
THEOREM WorldAgentTypes == Spec => []TypeOK
<1>1. Inv => TypeOK
  BY DEF Inv
<1> QED BY <1>1, InvHolds, PTL

\* Whichever of the four kinds of chat it is, MinChat passes between two.
THEOREM WorldAgentPaced == Spec => []ChatPaced
<1>1. Inv => ChatPaced
  BY DEF Inv, Orderly, ChatPaced
<1> QED BY <1>1, InvHolds, PTL

\* llm_in_flight is exact: over answers, errors, lost connections and calls
\* that outlive their session, it is set just while one call of this session
\* runs or its answer waits.
THEOREM WorldAgentFlag == Spec => []BusyExact
<1>1. Inv => BusyExact
  BY DEF Inv
<1> QED BY <1>1, InvHolds, PTL

\* The program greets its own avatar only after it took a namesake for itself.
THEOREM WorldAgentSelf == Spec => []NotItself
<1>1. Inv => NotItself
  BY DEF Inv, Orderly, NotItself
<1> QED BY <1>1, InvHolds, PTL
=============================================================================
