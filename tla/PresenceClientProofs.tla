------------------------- MODULE PresenceClientProofs -------------------------
(***************************************************************************)
(* What clients of Presence may rely on, for any number of sockets,        *)
(* handlers, rooms and tokens: which claim takes a socket into a room,     *)
(* which identity it is answered for, and what it displays.  As in         *)
(* PresenceProofs each invariant is preserved by QueuedNext.               *)
(***************************************************************************)
EXTENDS PresenceProofs

USE NamesAssumption, BoundAssumption, RequestsAssumption

-----------------------------------------------------------------------------
(* Motion *)

LEMMA StepMotion ==
  TypeOK /\ TaskInv /\ MotionInRoom /\ [QueuedNext]_vars => MotionInRoom'
<1> SUFFICES ASSUME TypeOK, TaskInv, MotionInRoom, [QueuedNext]_vars PROVE MotionInRoom'
  OBVIOUS
<1> USE DEF MotionInRoom, TypeOK, RecordTypes
<1>1. ASSUME NEW s \in Sockets, OnDisconnect(s) PROVE MotionInRoom'
  BY <1>1 DEF OnDisconnect
<1>2. ASSUME NEW t \in Tasks, JoinClaim(t) \/ Leave(t) PROVE MotionInRoom'
  BY <1>2 DEF JoinClaim, Leave, TaskInv
<1>3. ASSUME NEW t \in Tasks, JoinCommit(t) PROVE MotionInRoom'
  BY <1>3 DEF JoinCommit, TaskInv
<1>4. ASSUME NEW t \in Tasks, UserData(t) PROVE MotionInRoom'
  BY <1>4 DEF UserData
<1>5. ASSUME NEW t \in Tasks, Move(t) \/ Goto(t) PROVE MotionInRoom'
  BY <1>5 DEF Move, Goto, Present, TaskInv
<1>6. ASSUME Tick PROVE MotionInRoom'
  BY <1>6 DEF Tick, Walking
<1>7. ASSUME UNCHANGED <<moving, room>> PROVE MotionInRoom'
  BY <1>7
<1>8. ASSUME NEW t \in Tasks,
             \/ JoinOutdated(t) \/ JoinRefused(t) \/ JoinValidated(t) \/ JoinSuperseded(t)
             \/ Switch(t) \/ Evict(t) \/ Enter(t) \/ JoinWallet(t) \/ JoinAnswer(t)
      PROVE  UNCHANGED <<moving, room>>
  BY <1>8 DEF JoinOutdated, JoinRefused, JoinValidated, JoinSuperseded, Switch, Evict, Enter,
     JoinWallet, JoinAnswer, record
<1>9. ASSUME NEW t \in Tasks,
             \/ Detach(t) \/ AuthFailed(t) \/ Dropped(t) \/ LeaveOutdated(t) \/ UserGone(t) \/ Renew(t)
             \/ Authenticate(t) \/ Revalidate(t) \/ RoomChanged(t) \/ Publish(t)
             \/ Chat(t) \/ Say(t) \/ Moved(t)
      PROVE  UNCHANGED <<moving, room>>
  BY <1>9 DEF Detach, AuthFailed, Dropped, LeaveOutdated, UserGone, Renew, Authenticate,
     Revalidate, RoomChanged, Publish, Chat, Say, Moved, record
<1>10. ASSUME \/ \E s \in Sockets : Open(s) \/ Register(s) \/ GoDown(s)
              \/ \E t \in Tasks, s \in Sockets, q \in Requests : Spawn(t, s, q)
              \/ TickEmit \/ (\E x \in Tasks \cup Sockets : StandInLine(x)) \/ UNCHANGED vars
       PROVE  UNCHANGED <<moving, room>>
  BY <1>10 DEF Open, Register, GoDown, Spawn, TickEmit, StandInLine, vars, record
<1> QED
  BY <1>1, <1>2, <1>3, <1>4, <1>5, <1>6, <1>7, <1>8, <1>9, <1>10 DEF QueuedNext, Next, Handle, Join

\* MotionInRoom: a target set by goto is gone whenever its avatar leaves a
\* room, however it leaves it, so the motion loop never moves a ghost.
THEOREM WalkersAreInRooms == Spec => []MotionInRoom
<1>1. Init => MotionInRoom
  BY DEF Init, MotionInRoom
<1>2. TypeOK /\ TaskInv /\ MotionInRoom /\ [Next]_vars => TypeOK' /\ TaskInv' /\ MotionInRoom'
  BY StepTypes, StepMotion DEF QueuedNext
<1> QED BY <1>1, <1>2, InitTypes, PTL DEF Spec

-----------------------------------------------------------------------------
(* Claims.  The record's claim is the largest that was accepted, and it is  *)
(* compared for equality when the join commits.                             *)

ClaimInv == \A s \in Sockets : claim[s] = newest[s]

LEMMA StepClaim ==
  TypeOK /\ TaskInv /\ ClaimInv /\ [QueuedNext]_vars => ClaimInv'
<1> SUFFICES ASSUME TypeOK, TaskInv, ClaimInv, [QueuedNext]_vars PROVE ClaimInv'
  OBVIOUS
<1> USE DEF ClaimInv, TypeOK, RecordTypes, ClientTypes
<1>1. ASSUME NEW s \in Sockets, OnDisconnect(s) PROVE ClaimInv'
  BY <1>1 DEF OnDisconnect
<1>2. ASSUME NEW t \in Tasks, JoinClaim(t) \/ Leave(t) PROVE ClaimInv'
  <2>1. by[t] \in Sockets /\ req[t].claim \in Nat /\ req[t].claim >= claim[by[t]]
    BY <1>2 DEF JoinClaim, Leave, Noted, TaskInv, TaskTypes, Request
  <2>2. newest[by[t]] \in Nat /\ newest[by[t]] = claim[by[t]]
    BY <2>1
  <2>3. \A m, n \in Nat : n >= m => Later(m, n) = n
    BY DEF Later
  <2>4. Later(newest[by[t]], req[t].claim) = req[t].claim
    BY <2>1, <2>2, <2>3
  <2> QED BY <1>2, <2>1, <2>4 DEF JoinClaim, Leave
<1>3. ASSUME UNCHANGED <<claim, newest>> PROVE ClaimInv'
  BY <1>3
<1>4. ASSUME NEW t \in Tasks,
             \/ JoinOutdated(t) \/ JoinRefused(t) \/ JoinValidated(t) \/ JoinSuperseded(t)
             \/ JoinCommit(t) \/ Switch(t) \/ Evict(t) \/ Enter(t) \/ JoinWallet(t) \/ JoinAnswer(t)
      PROVE  UNCHANGED <<claim, newest>>
  BY <1>4 DEF JoinOutdated, JoinRefused, JoinValidated, JoinSuperseded, JoinCommit, Switch, Evict,
     Enter, JoinWallet, JoinAnswer, record, client
<1>5. ASSUME NEW t \in Tasks,
             \/ Detach(t) \/ AuthFailed(t) \/ Dropped(t) \/ LeaveOutdated(t) \/ UserData(t)
             \/ UserGone(t) \/ Renew(t)
             \/ Authenticate(t) \/ Revalidate(t) \/ RoomChanged(t) \/ Publish(t)
             \/ Chat(t) \/ Say(t) \/ Move(t) \/ Moved(t) \/ Goto(t)
      PROVE  UNCHANGED <<claim, newest>>
  BY <1>5 DEF Detach, AuthFailed, Dropped, LeaveOutdated, UserData, UserGone, Renew, Authenticate,
     Revalidate, RoomChanged, Publish, Chat, Say, Move, Moved, Goto, record, client
<1>6. ASSUME \/ \E s \in Sockets : Open(s) \/ Register(s) \/ GoDown(s)
             \/ \E t \in Tasks, s \in Sockets, q \in Requests : Spawn(t, s, q)
             \/ Tick \/ TickEmit \/ (\E x \in Tasks \cup Sockets : StandInLine(x)) \/ UNCHANGED vars
      PROVE  UNCHANGED <<claim, newest>>
  BY <1>6 DEF Open, Register, GoDown, Spawn, Tick, TickEmit, StandInLine, vars, record, client
<1> HIDE DEF ClaimInv, TypeOK, RecordTypes, ClientTypes
<1> QED BY <1>1, <1>2, <1>3, <1>4, <1>5, <1>6 DEF QueuedNext, Next, Handle, Join

\* The step commits the join-space that task t handles, and takes s into its room.
EnteredBy(t, s) ==
    /\ by[t] = s /\ pc[t] = "commit" /\ pc'[t] # "commit"
    /\ req[t].op = "join" /\ req[t].room = room'[s]
    /\ req[t].claim >= newest[s]

LEMMA EntersByClaim ==
  ASSUME TypeOK, TaskInv, ClaimInv, [QueuedNext]_vars,
         NEW s \in Sockets, room'[s] # room[s], room'[s] # NoRoom
  PROVE  /\ s \in known
         /\ \E t \in Tasks : EnteredBy(t, s)
<1> USE DEF TypeOK, RecordTypes
<1>1. PICK t \in Tasks : JoinCommit(t)
  <2>1. ~ \E x \in Sockets : Open(x) \/ OnDisconnect(x)
    BY DEF Open, OnDisconnect
  <2>2. ~ \E t \in Tasks : JoinClaim(t) \/ Leave(t)
    BY DEF JoinClaim, Leave
  <2>3. ~ \E t \in Tasks : UserData(t)
    BY DEF UserData
  <2> QED BY <2>1, <2>2, <2>3, RoomChanges
<1>2. s = by[t]
  BY <1>1 DEF JoinCommit
<1>3. s \in known /\ req[t].claim = claim[s] /\ req[t].op = "join"
  BY <1>1, <1>2 DEF JoinCommit, ClaimIsCurrent, TaskInv
<1>4. pc[t] = "commit" /\ pc'[t] \in {"switch", "evict", "enter"}
  BY <1>1 DEF JoinCommit, Proceed, TaskTypes
<1>5. room'[s] = req[t].room
  BY <1>1, <1>2, <1>3 DEF JoinCommit
<1>6. req[t].claim >= newest[s]
  BY <1>3 DEF ClaimInv, ClientTypes
<1> QED BY <1>2, <1>3, <1>4, <1>5, <1>6 DEF EnteredBy

\* NewestClaimWins: a socket enters a room only by the commit of a join-space
\* for that room, whose claim no join-space or leave-space accepted on the
\* connection meanwhile outranks, however long the lookup between the two
\* phases of the join took.
THEOREM NewestClaimEnters == Spec => NewestClaimWins
<1>1. Init => ClaimInv
  BY DEF Init, ClaimInv
<1>2. TypeOK /\ TaskInv /\ ClaimInv /\ [Next]_vars => TypeOK' /\ TaskInv' /\ ClaimInv'
  BY StepTypes, StepClaim DEF QueuedNext
<1>3. TypeOK /\ TaskInv /\ ClaimInv /\ [Next]_vars =>
        [\A s \in Sockets :
           room'[s] # room[s] /\ room'[s] # NoRoom =>
              /\ s \in known
              /\ \E t \in Tasks : EnteredBy(t, s)]_vars
  BY EntersByClaim DEF QueuedNext
<1> QED BY <1>1, <1>2, <1>3, InitTypes, PTL DEF Spec, NewestClaimWins, EnteredBy

-----------------------------------------------------------------------------
(* Identity.  The nonce a client was sent serves once, so a connection that *)
(* has a wallet keeps it.                                                   *)

WalletInv ==
    \A s \in Sockets :
        /\ conn[s] = "new" => /\ wallet[s] = NoWallet /\ told[s] = {}
                              /\ \A t \in Tasks : by[t] # s
        /\ wallet[s] # NoWallet => nonce[s] # 1

IdleInv == \A t \in Tasks : pc[t] = "idle" => who[t] = NoWallet /\ by[t] = Nobody

IdentityInv == WalletInv /\ IdleInv /\ OneIdentity

\* Every action but these leaves wallets and what they are compared with alone.
LEMMA IdentityChanges ==
  ASSUME TypeOK, TaskInv, IdleInv, [QueuedNext]_vars
  PROVE  \/ \E s \in Sockets : Open(s) \/ OnDisconnect(s)
         \/ \E t \in Tasks, s \in Sockets, q \in Requests : Spawn(t, s, q)
         \/ \E t \in Tasks : Authenticate(t) \/ JoinCommit(t) \/ JoinWallet(t) \/ JoinAnswer(t) \/ Publish(t)
         \/ /\ UNCHANGED <<known, wallet, nonce, told>> /\ \A s \in Sockets : conn'[s] = "new" => conn[s] = "new"
            /\ \A t \in Tasks : \/ pc'[t] = "idle" /\ by'[t] = Nobody /\ who'[t] = NoWallet
                                \/ pc[t] # "idle" /\ pc'[t] # "idle" /\ by'[t] = by[t] /\ who'[t] = who[t]
<1> DEFINE Calm ==
      /\ UNCHANGED <<known, wallet, nonce, told>> /\ \A s \in Sockets : conn'[s] = "new" => conn[s] = "new"
      /\ \A t \in Tasks : \/ pc'[t] = "idle" /\ by'[t] = Nobody /\ who'[t] = NoWallet
                          \/ pc[t] # "idle" /\ pc'[t] # "idle" /\ by'[t] = by[t] /\ who'[t] = who[t]
<1> USE DEF TypeOK, LockTypes, TaskTypes, IdleInv, record, lock, local, client, Proceed, Return
<1>1. ASSUME NEW t \in Tasks, JoinClaim(t) \/ JoinOutdated(t) \/ JoinRefused(t) PROVE Calm
  BY <1>1 DEF JoinClaim, JoinOutdated, JoinRefused
<1>2. ASSUME NEW t \in Tasks, JoinValidated(t) \/ JoinSuperseded(t) \/ Switch(t) PROVE Calm
  BY <1>2 DEF JoinValidated, JoinSuperseded, Switch
<1>3. ASSUME NEW t \in Tasks, Evict(t) \/ Enter(t) \/ Detach(t) PROVE Calm
  BY <1>3 DEF Evict, Enter, Detach
<1>4. ASSUME NEW t \in Tasks, AuthFailed(t) \/ Dropped(t) \/ Leave(t) \/ LeaveOutdated(t) PROVE Calm
  <2>1. CASE AuthFailed(t) \/ Dropped(t)
    BY <2>1 DEF AuthFailed, Dropped
  <2>2. CASE Leave(t) \/ LeaveOutdated(t)
    BY <2>2 DEF Leave, LeaveOutdated
  <2> QED BY <1>4, <2>1, <2>2
<1>5. ASSUME NEW t \in Tasks, UserData(t) \/ UserGone(t) \/ Renew(t) PROVE Calm
  BY <1>5 DEF UserData, UserGone, Renew
<1>6. ASSUME NEW t \in Tasks, Revalidate(t) \/ RoomChanged(t) PROVE Calm
  BY <1>6 DEF Revalidate, RoomChanged
<1>7. ASSUME NEW t \in Tasks, Chat(t) \/ Say(t) \/ Goto(t) PROVE Calm
  BY <1>7 DEF Chat, Say, Goto
<1>8. ASSUME NEW t \in Tasks, Move(t) \/ Moved(t) PROVE Calm
  BY <1>8 DEF Move, Moved
<1>9. ASSUME NEW s \in Sockets, Register(s) \/ GoDown(s) PROVE Calm
  BY <1>9 DEF Register, GoDown
<1>10. CASE Tick \/ TickEmit \/ (\E x \in Tasks \cup Sockets : StandInLine(x)) \/ UNCHANGED vars
  BY <1>10 DEF Tick, TickEmit, StandInLine, vars
<1> QED BY <1>1, <1>2, <1>3, <1>4, <1>5, <1>6, <1>7, <1>8, <1>9, <1>10 DEF QueuedNext, Next, Handle, Join

LEMMA AuthenticateIdentity ==
  ASSUME TypeOK, TaskInv, IdentityInv, NEW t \in Tasks, Authenticate(t)
  PROVE  IdentityInv'
<1> DEFINE s == by[t]
           w == req[t].wallet
<1> USE DEF TypeOK, RecordTypes, TaskTypes, ClientTypes, IdentityInv
<1>1. /\ s \in Sockets /\ s \in known /\ nonce[s] = 1 /\ wallet[s] = NoWallet /\ conn[s] # "new"
      /\ w \in Wallets
  BY DEF Authenticate, WalletInv, TaskInv, Request
<1>2. /\ wallet' = [wallet EXCEPT ![s] = w] /\ nonce'[s] = 2
      /\ UNCHANGED <<conn, known, told>>
      /\ \A x \in Sockets : x # s => nonce'[x] = nonce[x]
  BY <1>1 DEF Authenticate, Rotated, client
<1>3. \A u \in Tasks : u # t => by'[u] = by[u] /\ who'[u] = who[u] /\ pc'[u] = pc[u]
  BY DEF Authenticate, Return, Proceed
<1>4. \/ pc'[t] = "idle" /\ who'[t] = NoWallet /\ by'[t] = Nobody
      \/ pc'[t] = "resolve" /\ who'[t] = w /\ by'[t] = s
  BY DEF Authenticate, Return, Proceed
<1>5. WalletInv'
  BY <1>1, <1>2, <1>3, <1>4 DEF WalletInv
<1>6. IdleInv'
  BY <1>3, <1>4 DEF IdleInv
<1>7. ASSUME NEW x \in known', NEW answer \in told'[x] PROVE answer[2] \in {NoWallet, wallet'[x]}
  BY <1>1, <1>2, <1>7 DEF OneIdentity
<1>8. ASSUME NEW x \in known', NEW u \in Tasks, by'[u] = x PROVE who'[u] \in {NoWallet, wallet'[x]}
  <2>1. CASE u = t
    BY <1>1, <1>2, <1>4, <1>8, <2>1
  <2>2. CASE u # t
    <3>1. by[u] = x /\ who'[u] = who[u] /\ x \in known /\ x \in Sockets
      BY <1>2, <1>3, <1>8, <2>2
    <3>2. who[u] \in {NoWallet, wallet[x]}
      BY <3>1 DEF OneIdentity
    <3> QED BY <1>1, <1>2, <3>1, <3>2
  <2> QED BY <2>1, <2>2
<1> QED BY <1>5, <1>6, <1>7, <1>8 DEF OneIdentity

\* An answer is given for the wallet its handler holds.
LEMMA AnswerIdentity ==
  ASSUME TypeOK, TaskInv, IdentityInv, NEW t \in Tasks, JoinAnswer(t) \/ Publish(t)
  PROVE  IdentityInv'
<1> USE DEF TypeOK, RecordTypes, TaskTypes, ClientTypes, IdentityInv
<1>1. by[t] \in Sockets /\ conn[by[t]] # "new"
  BY DEF JoinAnswer, Publish, TaskInv, WalletInv
<1>2. PICK r : told' = [told EXCEPT ![by[t]] = IF by[t] \in known \/ pc[t] = "publish"
                                               THEN @ \cup {<<r, who[t]>>} ELSE @]
  <2>1. CASE JoinAnswer(t)
    <3>1. told' = [told EXCEPT ![by[t]] = IF by[t] \in known THEN @ \cup {<<req[t].room, who[t]>>} ELSE @]
          /\ pc[t] # "publish"
      BY <2>1 DEF JoinAnswer
    <3> QED BY <3>1
  <2>2. CASE Publish(t)
    <3>1. told' = [told EXCEPT ![by[t]] = @ \cup {<<here[t], who[t]>>}] /\ pc[t] = "publish"
      BY <2>2 DEF Publish
    <3> QED BY <3>1
  <2> QED BY <2>1, <2>2
<1>3. UNCHANGED <<conn, known, wallet, nonce>>
      /\ \A u \in Tasks : IF u = t THEN pc'[u] = "idle" /\ by'[u] = Nobody /\ who'[u] = NoWallet
                          ELSE pc'[u] = pc[u] /\ by'[u] = by[u] /\ who'[u] = who[u]
  BY DEF JoinAnswer, Publish, Return, record
<1>4. WalletInv' /\ IdleInv'
  BY <1>1, <1>2, <1>3 DEF WalletInv, IdleInv
<1>5. ASSUME NEW x \in known', NEW answer \in told'[x] PROVE answer[2] \in {NoWallet, wallet'[x]}
  <2>1. x \in Sockets /\ x \in known
    BY <1>3
  <2>2. answer \in told[x] \/ (x = by[t] /\ answer = <<r, who[t]>>)
    BY <1>1, <1>2, <2>1
  <2> QED BY <1>3, <2>1, <2>2 DEF OneIdentity
<1>6. ASSUME NEW x \in known', NEW u \in Tasks, by'[u] = x PROVE who'[u] \in {NoWallet, wallet'[x]}
  BY <1>3, <1>6 DEF OneIdentity
<1> QED BY <1>4, <1>5, <1>6 DEF OneIdentity

LEMMA StepIdentity ==
  TypeOK /\ TaskInv /\ IdentityInv /\ [QueuedNext]_vars => IdentityInv'
<1> SUFFICES ASSUME TypeOK, TaskInv, IdentityInv, [QueuedNext]_vars PROVE IdentityInv'
  OBVIOUS
<1> USE DEF TypeOK, RecordTypes, LockTypes, TaskTypes, ClientTypes, IdentityInv
<1>1. ASSUME NEW s \in Sockets, Open(s) PROVE IdentityInv'
  <2>1. /\ conn[s] = "new" /\ conn' = [conn EXCEPT ![s] = "opening"] /\ known' = known \cup {s}
        /\ nonce' = [nonce EXCEPT ![s] = 1] /\ UNCHANGED <<wallet, pc, by, who, told>>
    BY <1>1 DEF Open, local, client
  <2>2. wallet[s] = NoWallet /\ told[s] = {} /\ \A t \in Tasks : by[t] # s
    BY <2>1 DEF WalletInv
  <2>3. WalletInv' /\ IdleInv'
    BY <2>1, <2>2 DEF WalletInv, IdleInv
  <2>4. OneIdentity'
    BY <2>1, <2>2 DEF OneIdentity
  <2> QED BY <2>3, <2>4
<1>2. ASSUME NEW s \in Sockets, OnDisconnect(s) PROVE IdentityInv'
  <2>1. /\ conn' = [conn EXCEPT ![s] = "closed"] /\ known' = known \ {s}
        /\ wallet' = [wallet EXCEPT ![s] = NoWallet] /\ nonce' = [nonce EXCEPT ![s] = 0]
        /\ told' = [told EXCEPT ![s] = {}] /\ UNCHANGED <<pc, by, who>>
    BY <1>2 DEF OnDisconnect, local
  <2>2. WalletInv' /\ IdleInv'
    BY <2>1 DEF WalletInv, IdleInv
  <2>3. OneIdentity'
    BY <2>1 DEF OneIdentity
  <2> QED BY <2>2, <2>3
<1>3. ASSUME NEW t \in Tasks, NEW s \in Sockets, NEW q \in Requests, Spawn(t, s, q) PROVE IdentityInv'
  <2>1. /\ conn[s] = "up" /\ who[t] = NoWallet /\ by' = [by EXCEPT ![t] = s] /\ pc'[t] # "idle"
        /\ UNCHANGED <<conn, known, wallet, nonce, told, who>>
        /\ \A u \in Tasks : u # t => pc'[u] = pc[u]
    BY <1>3 DEF Spawn, IdleInv, record, client, FirstPC, Request, Ops
  <2>2. WalletInv' /\ IdleInv'
    BY <2>1 DEF WalletInv, IdleInv
  <2>3. OneIdentity'
    BY <2>1 DEF OneIdentity
  <2> QED BY <2>2, <2>3
<1>4. ASSUME NEW t \in Tasks, JoinCommit(t) PROVE IdentityInv'
  <2>1. /\ told' = [told EXCEPT ![by[t]] = {}] /\ pc'[t] # "idle"
        /\ UNCHANGED <<conn, known, wallet, nonce, by, who>>
        /\ \A u \in Tasks : u # t => pc'[u] = pc[u]
    BY <1>4 DEF JoinCommit, Proceed
  <2>2. WalletInv' /\ IdleInv'
    BY <2>1 DEF WalletInv, IdleInv
  <2>3. OneIdentity'
    BY <2>1 DEF OneIdentity
  <2> QED BY <2>2, <2>3
<1>5. ASSUME NEW t \in Tasks, JoinWallet(t) PROVE IdentityInv'
  <2>1. /\ who' = [who EXCEPT ![t] = wallet[by[t]]] /\ pc'[t] # "idle"
        /\ UNCHANGED <<conn, known, wallet, nonce, told, by>>
        /\ \A u \in Tasks : u # t => pc'[u] = pc[u]
    BY <1>5 DEF JoinWallet, Proceed, record, client
  <2>2. WalletInv' /\ IdleInv'
    BY <2>1 DEF WalletInv, IdleInv
  <2>3. OneIdentity'
    BY <2>1 DEF OneIdentity
  <2> QED BY <2>2, <2>3
<1>6. ASSUME /\ UNCHANGED <<known, wallet, nonce, told>>
             /\ \A s \in Sockets : conn'[s] = "new" => conn[s] = "new",
             \A t \in Tasks : \/ pc'[t] = "idle" /\ by'[t] = Nobody /\ who'[t] = NoWallet
                              \/ pc[t] # "idle" /\ pc'[t] # "idle" /\ by'[t] = by[t] /\ who'[t] = who[t]
      PROVE  IdentityInv'
  <2>1. WalletInv' /\ IdleInv'
    BY <1>6 DEF WalletInv, IdleInv
  <2>2. OneIdentity'
    BY <1>6 DEF OneIdentity
  <2> QED BY <2>1, <2>2
<1>7. IdleInv
  OBVIOUS
<1> HIDE DEF TypeOK, IdentityInv
<1> QED BY <1>1, <1>2, <1>3, <1>4, <1>5, <1>6, <1>7, IdentityChanges, AuthenticateIdentity, AnswerIdentity

LEMMA InitIdentity == Init => IdentityInv
  BY DEF Init, IdentityInv, WalletInv, IdleInv, OneIdentity

\* OneIdentity: every access answer on a connection, and every handler of it,
\* is for the one wallet it proved: the nonce is used up by the first proof.
THEOREM OneWalletPerConnection == Spec => []OneIdentity
<1>1. TypeOK /\ TaskInv /\ IdentityInv /\ [Next]_vars => TypeOK' /\ TaskInv' /\ IdentityInv'
  BY StepTypes, StepIdentity DEF QueuedNext
<1>2. IdentityInv => OneIdentity
  BY DEF IdentityInv
<1> QED BY <1>1, <1>2, InitTypes, InitIdentity, PTL DEF Spec

-----------------------------------------------------------------------------
(* Access answers.  Whichever of a join and an authentication comes second  *)
(* sees what the other one did, and its handler holds the right answer.     *)

\* The task t will tell s its access in the room it is in, for its wallet.
WillTell(t, s) ==
    /\ by[t] = s
    /\ \/ /\ pc[t] \in {"switch", "enter", "wallet"} \/ (pc[t] = "evict" /\ req[t].op = "join")
          /\ req[t].room = room[s]
       \/ pc[t] = "answer" /\ req[t].room = room[s] /\ who[t] = wallet[s]
       \/ pc[t] \in {"resolve", "publish"} /\ here[t] = room[s] /\ who[t] = wallet[s]

Told(s) == <<room[s], wallet[s]>> \in told[s]

AccessInv ==
    \A s \in known : room[s] # NoRoom /\ wallet[s] # NoWallet => Told(s) \/ \E t \in Tasks : WillTell(t, s)

\* s has the room and wallet it had, and was told what it was told.
Stays(s) == s \in known /\ room'[s] = room[s] /\ wallet'[s] = wallet[s] /\ told[s] \subseteq told'[s]

LEMMA AccessFrame ==
  ASSUME AccessInv, NEW t \in Tasks,
         \A u \in Tasks \ {t} : /\ pc'[u] = pc[u] /\ by'[u] = by[u] /\ req'[u] = req[u]
                                /\ here'[u] = here[u] /\ who'[u] = who[u],
         \A s \in known' : \/ room'[s] = NoRoom \/ WillTell(t, s)'
                           \/ Stays(s) /\ (~ WillTell(t, s) \/ Told(s)')
  PROVE  AccessInv'
<1> SUFFICES ASSUME NEW s \in known', room'[s] # NoRoom, wallet'[s] # NoWallet, ~ Told(s)',
                    ~ WillTell(t, s)'
             PROVE  \E u \in Tasks : WillTell(u, s)'
  BY DEF AccessInv
<1>1. Stays(s) /\ ~ WillTell(t, s)
  OBVIOUS
<1>2. ~ Told(s)
  BY <1>1 DEF Stays, Told
<1>3. PICK u \in Tasks : WillTell(u, s)
  BY <1>1, <1>2 DEF AccessInv, Stays
<1>4. WillTell(u, s)'
  BY <1>1, <1>3 DEF Stays, WillTell
<1> QED BY <1>4

\* No handler moves.
LEMMA AccessRest ==
  ASSUME AccessInv, UNCHANGED <<pc, by, req, here, who>>,
         \A s \in known' : room'[s] = NoRoom \/ Stays(s)
  PROVE  AccessInv'
<1> SUFFICES ASSUME NEW s \in known', Stays(s), room'[s] # NoRoom, wallet'[s] # NoWallet
             PROVE  Told(s)' \/ \E u \in Tasks : WillTell(u, s)'
  BY DEF AccessInv
<1>1. Told(s) \/ \E u \in Tasks : WillTell(u, s)
  BY DEF AccessInv, Stays
<1> QED BY <1>1 DEF Stays, Told, WillTell

LEMMA AuthenticateAccess ==
  ASSUME TypeOK, TaskInv, AccessInv, NEW t \in Tasks, Authenticate(t) PROVE AccessInv'
<1> USE DEF TypeOK, RecordTypes, TaskTypes
<1>1. \A u \in Tasks \ {t} : /\ pc'[u] = pc[u] /\ by'[u] = by[u] /\ req'[u] = req[u]
                             /\ here'[u] = here[u] /\ who'[u] = who[u]
  BY DEF Authenticate, Return, Proceed
<1>2. ASSUME NEW s \in known', room'[s] # NoRoom PROVE WillTell(t, s)' \/ (Stays(s) /\ ~ WillTell(t, s))
  <2>1. pc[t] = "auth" /\ known' = known /\ room' = room /\ told' = told
    BY DEF Authenticate, client
  <2>2. CASE s = by[t]
    <3>1. /\ pc'[t] = "resolve" /\ by'[t] = s /\ here'[t] = room[s]
          /\ who'[t] = req[t].wallet /\ wallet'[s] = req[t].wallet
      BY <1>2, <2>1, <2>2 DEF Authenticate, Proceed
    <3> QED BY <2>1, <3>1 DEF WillTell
  <2>3. CASE s # by[t]
    BY <2>1, <2>3 DEF Authenticate, Stays, WillTell
  <2> QED BY <2>2, <2>3
<1> QED BY <1>1, <1>2, AccessFrame

LEMMA JoinCommitAccess ==
  ASSUME TypeOK, TaskInv, AccessInv, NEW t \in Tasks, JoinCommit(t) PROVE AccessInv'
<1> USE DEF TypeOK, RecordTypes, TaskTypes, ClientTypes
<1>1. \A u \in Tasks \ {t} : /\ pc'[u] = pc[u] /\ by'[u] = by[u] /\ req'[u] = req[u]
                             /\ here'[u] = here[u] /\ who'[u] = who[u]
  BY DEF JoinCommit, Proceed
<1>2. ASSUME NEW s \in known', room'[s] # NoRoom PROVE WillTell(t, s)' \/ (Stays(s) /\ ~ WillTell(t, s))
  <2>1. pc[t] = "commit" /\ known' = known /\ wallet' = wallet /\ by' = by /\ req' = req
        /\ req[t].op = "join" /\ pc'[t] \in {"switch", "evict", "enter"}
    BY DEF JoinCommit, Proceed, TaskInv
  <2>2. CASE s = by[t]
    <3>1. room'[s] = req[t].room
      BY <2>1, <2>2 DEF JoinCommit
    <3> QED BY <2>1, <2>2, <3>1 DEF WillTell
  <2>3. CASE s # by[t]
    <3>1. room'[s] = room[s] /\ told'[s] = told[s]
      BY <1>2, <2>1, <2>3 DEF JoinCommit
    <3> QED BY <2>1, <2>3, <3>1 DEF Stays, WillTell
  <2> QED BY <2>2, <2>3
<1> QED BY <1>1, <1>2, AccessFrame

LEMMA AnswerAccess ==
  ASSUME TypeOK, TaskInv, AccessInv, NEW t \in Tasks, JoinAnswer(t) \/ Publish(t) PROVE AccessInv'
<1> USE DEF TypeOK, RecordTypes, TaskTypes, ClientTypes
<1>1. \A u \in Tasks \ {t} : /\ pc'[u] = pc[u] /\ by'[u] = by[u] /\ req'[u] = req[u]
                             /\ here'[u] = here[u] /\ who'[u] = who[u]
  BY DEF JoinAnswer, Publish, Return
<1>2. ASSUME NEW s \in known' PROVE Stays(s) /\ (~ WillTell(t, s) \/ Told(s)')
  <2>1. UNCHANGED <<known, room, wallet>> /\ s \in known
    BY <1>2 DEF JoinAnswer, Publish, record
  <2>2. told[s] \subseteq told'[s]
    <3>1. DOMAIN told = Sockets /\ s \in Sockets
      BY <2>1
    <3> HIDE DEF TypeOK
    <3>2. CASE JoinAnswer(t)
      BY <2>1, <3>1, <3>2 DEF JoinAnswer
    <3>3. CASE Publish(t)
      BY <2>1, <3>1, <3>3 DEF Publish
    <3> QED BY <3>2, <3>3
  <2>3. ASSUME WillTell(t, s) PROVE Told(s)'
    BY <2>1, <2>3 DEF JoinAnswer, Publish, WillTell, Told
  <2> QED BY <2>1, <2>2, <2>3 DEF Stays
<1> QED BY <1>1, <1>2, AccessFrame

LEMMA StepAccess ==
  TypeOK /\ TaskInv /\ UniqueInv /\ AccessInv /\ [QueuedNext]_vars => AccessInv'
<1> SUFFICES ASSUME TypeOK, TaskInv, UniqueInv, AccessInv, [QueuedNext]_vars PROVE AccessInv'
  OBVIOUS
<1> USE DEF TypeOK, RecordTypes, TaskTypes, ClientTypes, record, lock, local, client, Proceed, Return
<1>1. ASSUME NEW s \in Sockets, Open(s) PROVE AccessInv'
  <2>1. \A x \in known' : room'[x] = NoRoom \/ Stays(x)
    BY <1>1 DEF Open, UniqueInv, PresentIsKnown, Stays
  <2> QED BY <1>1, <2>1, AccessRest DEF Open
<1>2. ASSUME NEW s \in Sockets, OnDisconnect(s) PROVE AccessInv'
  <2>1. \A x \in known' : Stays(x)
    BY <1>2 DEF OnDisconnect, Stays
  <2> QED BY <1>2, <2>1, AccessRest DEF OnDisconnect
<1>3. CASE \/ \E s \in Sockets : Register(s) \/ GoDown(s)
           \/ Tick \/ TickEmit \/ (\E x \in Tasks \cup Sockets : StandInLine(x)) \/ UNCHANGED vars
  <2>1. UNCHANGED <<known, room, wallet, told, pc, by, req, here, who>>
    BY <1>3 DEF Register, GoDown, Tick, TickEmit, StandInLine, vars
  <2> QED BY <2>1, AccessRest DEF Stays
<1> DEFINE Alone(t) ==
      \A u \in Tasks \ {t} : /\ pc'[u] = pc[u] /\ by'[u] = by[u] /\ req'[u] = req[u]
                             /\ here'[u] = here[u] /\ who'[u] = who[u]
           Fine(t) ==
      \A s \in known' : \/ room'[s] = NoRoom \/ WillTell(t, s)'
                        \/ Stays(s) /\ (~ WillTell(t, s) \/ Told(s)')
<1>4. ASSUME NEW t \in Tasks, NEW s \in Sockets, NEW q \in Requests, Spawn(t, s, q)
      PROVE  Alone(t) /\ Fine(t)
  BY <1>4 DEF Spawn, Stays, WillTell
<1>5. ASSUME NEW t \in Tasks, JoinClaim(t) \/ JoinOutdated(t) \/ JoinRefused(t) \/ JoinValidated(t)
      PROVE  Alone(t) /\ Fine(t)
  BY <1>5 DEF JoinClaim, JoinOutdated, JoinRefused, JoinValidated, Stays, WillTell
<1>6. ASSUME NEW t \in Tasks, \/ JoinSuperseded(t) \/ Detach(t) \/ LeaveOutdated(t) \/ UserGone(t)
                             \/ AuthFailed(t) \/ Dropped(t)
      PROVE  Alone(t) /\ Fine(t)
  <2>1. CASE JoinSuperseded(t) \/ Detach(t) \/ LeaveOutdated(t) \/ UserGone(t)
    BY <2>1 DEF JoinSuperseded, Detach, LeaveOutdated, UserGone, Stays, WillTell
  <2>2. CASE AuthFailed(t) \/ Dropped(t)
    BY <2>2 DEF AuthFailed, Dropped, Stays, WillTell
  <2> QED BY <1>6, <2>1, <2>2
<1>7. ASSUME NEW t \in Tasks, Switch(t) \/ Evict(t) \/ Enter(t) PROVE Alone(t) /\ Fine(t)
  BY <1>7 DEF Switch, Evict, Enter, Stays, WillTell, TaskInv
<1>8. ASSUME NEW t \in Tasks, JoinWallet(t) PROVE Alone(t) /\ Fine(t)
  BY <1>8 DEF JoinWallet, Stays, WillTell, TaskInv
<1>9. ASSUME NEW t \in Tasks, Leave(t) PROVE Alone(t) /\ Fine(t)
  BY <1>9 DEF Leave, Stays, WillTell, TaskInv
<1>10. ASSUME NEW t \in Tasks, UserData(t) PROVE Alone(t) /\ Fine(t)
  BY <1>10 DEF UserData, Stays, WillTell, TaskInv
<1>11. ASSUME NEW t \in Tasks, Renew(t) \/ Revalidate(t) \/ RoomChanged(t) PROVE Alone(t) /\ Fine(t)
  BY <1>11 DEF Renew, Revalidate, RoomChanged, Stays, WillTell
<1>12. ASSUME NEW t \in Tasks, Chat(t) \/ Say(t) \/ Goto(t) PROVE Alone(t) /\ Fine(t)
  BY <1>12 DEF Chat, Say, Goto, Stays, WillTell
<1>13. ASSUME NEW t \in Tasks, Move(t) \/ Moved(t) PROVE Alone(t) /\ Fine(t)
  BY <1>13 DEF Move, Moved, Stays, WillTell
<1>14. ASSUME NEW t \in Tasks, Alone(t) /\ Fine(t) PROVE AccessInv'
  BY <1>14, AccessFrame
<1> HIDE DEF TypeOK, Alone, Fine
<1> QED BY <1>1, <1>2, <1>3, <1>4, <1>5, <1>6, <1>7, <1>8, <1>9, <1>10, <1>11, <1>12, <1>13, <1>14,
           AuthenticateAccess, JoinCommitAccess, AnswerAccess DEF QueuedNext, Next, Handle, Join

\* AccessAnswered: no order of join-space and authentication leaves a
\* connection in a room with a wallet and without an answer for the two, once
\* its handlers are done.
THEOREM AccessIsAnswered == Spec => []AccessAnswered
<1>1. Init => UniqueInv /\ AccessInv
  BY DEF Init, UniqueInv, PresentIsKnown, UniquePresence, AccessInv
<1>2. TypeOK /\ TaskInv /\ UniqueInv /\ AccessInv /\ [Next]_vars
        => TypeOK' /\ TaskInv' /\ UniqueInv' /\ AccessInv'
  BY StepTypes, StepUnique, StepAccess DEF QueuedNext
<1>3. AccessInv => AccessAnswered
  BY DEF AccessInv, AccessAnswered, Answering, WillTell, Told
<1> QED BY <1>1, <1>2, <1>3, InitTypes, PTL DEF Spec

-----------------------------------------------------------------------------
(* What receivers display.  Outside of transitions a receiver sees exactly  *)
(* its room; inside one, the task that holds the lock knows who is still    *)
(* seen, who is not seen yet, and whose view it is about to replace.        *)

Sees(o, x) == shown[o][x] # Gone

\* o is about to get the snapshot of its new room.
Arriving(o) ==
    /\ writer \in Tasks /\ o = by[writer] /\ req[writer].op = "join"
    /\ pc[writer] \in {"switch", "evict", "enter"}

\* The room of x is about to be told of x.
Coming(x) == writer \in Tasks /\ x = by[writer] /\ pc[writer] \in {"switch", "evict", "enter", "renew"}

\* The room of o is about to be told that x is gone.
Leaving(x, o) ==
    /\ writer \in Tasks
    /\ \/ pc[writer] \in {"detach", "left", "switch"} /\ x = by[writer] /\ room[o] = here[writer]
       \/ pc[writer] \in {"switch", "evict"} /\ x \in dups[writer] /\ room[o] = Target(writer)

SeesRight(o, x) ==
    /\ Sees(o, x) => room[x] = room[o] \/ Leaving(x, o)
    /\ room[x] = room[o] /\ named[x] => Sees(o, x) \/ Coming(x)

RosterInv ==
    \A o, x \in Sockets : o # x /\ room[o] # NoRoom /\ ~ Arriving(o) => SeesRight(o, x)

\* The steps that change nothing of this, nor what is about to be emitted.
Quiet ==
    /\ UNCHANGED <<writer, room, named, shown, overtaken, sseq, batch>>
    /\ writer \in Tasks => /\ pc'[writer] = pc[writer] /\ by'[writer] = by[writer]
                           /\ req'[writer] = req[writer] /\ here'[writer] = here[writer]
                           /\ dups'[writer] = dups[writer]
    /\ \A t \in Tasks : pc[t] \in {"moved", "publish"} \/ pc'[t] \in {"moved", "publish"}
                            => pc'[t] = pc[t] /\ by'[t] = by[t] /\ num'[t] = num[t]

Loud(t) ==
    \/ JoinClaim(t) \/ JoinCommit(t) \/ Switch(t) \/ Evict(t) \/ Enter(t) \/ Detach(t) \/ Leave(t)
    \/ UserData(t) \/ Renew(t) \/ Revalidate(t) \/ Publish(t) \/ Move(t) \/ Moved(t)

LEMMA QuietSteps ==
  ASSUME TypeOK, TaskInv, LockInv, [QueuedNext]_vars
  PROVE  \/ Quiet \/ (\E s \in Sockets : OnDisconnect(s)) \/ (\E t \in Tasks : Loud(t)) \/ Tick \/ TickEmit
<1> USE DEF Quiet, LockInv, WriterPCs, TypeOK, TaskTypes, record, lock, local, client, Proceed, Return
<1>1. ASSUME NEW s \in Sockets, Open(s) \/ Register(s) \/ GoDown(s) PROVE Quiet
  BY <1>1 DEF Open, Register, GoDown
<1>2. ASSUME NEW t \in Tasks, NEW s \in Sockets, NEW q \in Requests, Spawn(t, s, q) PROVE Quiet
  BY <1>2 DEF Spawn, FirstPC, Ops, Request
<1>3. ASSUME NEW t \in Tasks, JoinOutdated(t) \/ JoinSuperseded(t) PROVE Quiet
  BY <1>3 DEF JoinOutdated, JoinSuperseded
<1>4. ASSUME NEW t \in Tasks, JoinRefused(t) \/ JoinValidated(t) PROVE Quiet
  BY <1>4 DEF JoinRefused, JoinValidated
<1>5. ASSUME NEW t \in Tasks, JoinWallet(t) \/ JoinAnswer(t) PROVE Quiet
  BY <1>5 DEF JoinWallet, JoinAnswer
<1>6. ASSUME NEW t \in Tasks, AuthFailed(t) \/ Dropped(t) \/ LeaveOutdated(t) \/ UserGone(t) PROVE Quiet
  <2>1. CASE AuthFailed(t) \/ Dropped(t)
    BY <2>1 DEF AuthFailed, Dropped
  <2>2. CASE LeaveOutdated(t) \/ UserGone(t)
    BY <2>2 DEF LeaveOutdated, UserGone
  <2> QED BY <1>6, <2>1, <2>2
<1>7. ASSUME NEW t \in Tasks, Authenticate(t) PROVE Quiet
  BY <1>7 DEF Authenticate
<1>8. ASSUME NEW t \in Tasks, RoomChanged(t) \/ Chat(t) PROVE Quiet
  BY <1>8 DEF RoomChanged, Chat
<1>9. ASSUME NEW t \in Tasks, Say(t) \/ Goto(t) PROVE Quiet
  BY <1>9 DEF Say, Goto
<1>10. CASE (\E x \in Tasks \cup Sockets : StandInLine(x)) \/ UNCHANGED vars
  BY <1>10 DEF StandInLine, vars
<1> QED BY <1>1, <1>2, <1>3, <1>4, <1>5, <1>6, <1>7, <1>8, <1>9, <1>10 DEF QueuedNext, Next, Handle, Join, Loud

\* Display and Erase, one entry of a view at a time.
LEMMA DisplayAt ==
  ASSUME NEW view \in Views, NEW R, NEW s \in Sockets, NEW n, NEW o \in Sockets, NEW x \in Sockets
  PROVE  Display(view, R, s, n)[o][x] = IF o \in R /\ x = s THEN n ELSE view[o][x]
  BY DEF Display, Views

LEMMA EraseAt ==
  ASSUME NEW view \in Views, NEW R, NEW D, NEW o \in Sockets, NEW x \in Sockets
  PROVE  Erase(view, R, D)[o][x] = IF o \in R /\ x \in D THEN Gone ELSE view[o][x]
  BY DEF Erase, Views

\* Who hears what is sent to a room between transitions.
LEMMA FreeReceivers ==
  ASSUME TypeOK, AdapterInv, NoWriter, NEW o \in Sockets, NEW r \in Rooms
  PROVE  o \in Receivers(r) <=> room[o] = r
<1>1. joined[o] = Home(o) /\ room[o] \in Rooms \cup {NoRoom}
  BY DEF AdapterInv, TypeOK, RecordTypes
<1> QED BY <1>1 DEF Receivers, Home

LEMMA QuietRoster ==
  ASSUME RosterInv, Quiet PROVE RosterInv'
<1> SUFFICES ASSUME NEW o \in Sockets, NEW x \in Sockets, o # x, room'[o] # NoRoom, ~ Arriving(o)'
             PROVE  SeesRight(o, x)'
  BY DEF RosterInv
<1>1. room[o] # NoRoom /\ ~ Arriving(o)
  BY DEF Quiet, Arriving
<1>2. SeesRight(o, x)
  BY <1>1 DEF RosterInv
<1> QED BY <1>2 DEF SeesRight, Sees, Leaving, Coming, Quiet, Target

\* Nobody arrives, comes or leaves while the lock has no writer.
LEMMA CalmRoster ==
  ASSUME RosterInv, NoWriter, NEW o \in Sockets, NEW x \in Sockets, o # x, room[o] # NoRoom
  PROVE  /\ Sees(o, x) => room[x] = room[o]
         /\ room[x] = room[o] /\ named[x] => Sees(o, x)
  BY DEF RosterInv, SeesRight, NoWriter, Arriving, Leaving, Coming

LEMMA OnDisconnectRoster ==
  ASSUME TypeOK, AdapterInv, RosterInv, NEW s \in Sockets, OnDisconnect(s) PROVE RosterInv'
<1>1. NoWriter /\ NoWriter' /\ shown \in Views /\ room[s] \in Rooms \cup {NoRoom}
  BY DEF OnDisconnect, CanWrite, Unlocked, NoWriter, TypeOK, ClientTypes, RecordTypes, Views
<1>2. \A x \in Sockets : /\ room'[x] = IF x = s THEN NoRoom ELSE room[x]
                         /\ named'[x] => named[x] /\ x # s
  BY DEF OnDisconnect, TypeOK, RecordTypes
<1> SUFFICES ASSUME NEW o \in Sockets, NEW x \in Sockets, o # x, room'[o] # NoRoom PROVE SeesRight(o, x)'
  BY DEF RosterInv
<1>3. o # s /\ room'[o] = room[o] /\ room[o] # NoRoom
  BY <1>2
<1>4. /\ Sees(o, x) => room[x] = room[o]
      /\ room[x] = room[o] /\ named[x] => Sees(o, x)
  BY <1>1, <1>3, CalmRoster
<1>5. CASE x # s
  <2>1. shown'[o][x] = shown[o][x]
    BY <1>1, <1>5, EraseAt DEF OnDisconnect
  <2> QED BY <1>2, <1>3, <1>4, <1>5, <2>1 DEF SeesRight, Sees
<1>6. CASE x = s
  <2>1. CASE room[s] = NoRoom
    BY <1>2, <1>3, <1>4, <1>6, <2>1 DEF SeesRight, Sees, OnDisconnect
  <2>2. CASE room[s] # NoRoom
    <3>1. shown'[o][x] = IF o \in Receivers(room[s]) THEN Gone ELSE shown[o][x]
      BY <1>1, <1>6, <2>2, EraseAt DEF OnDisconnect
    <3>2. o \in Receivers(room[s]) <=> room[o] = room[s]
      BY <1>1, <2>2, FreeReceivers
    <3> QED BY <1>2, <1>3, <1>4, <1>6, <3>1, <3>2 DEF SeesRight, Sees
  <2> QED BY <2>1, <2>2
<1> QED BY <1>5, <1>6

\* The record of s names no room any more, and its room is not told yet.
LEMMA WithdrawRoster ==
  ASSUME TypeOK, RosterInv, NoWriter, NEW t \in Tasks, by[t] \in Sockets,
         UNCHANGED <<by, named, shown>>, room' = [room EXCEPT ![by[t]] = NoRoom],
         writer' = t, here'[t] = room[by[t]], pc'[t] \in {"detach", "left"}
  PROVE  RosterInv'
<1>1. \A x \in Sockets : room'[x] = IF x = by[t] THEN NoRoom ELSE room[x]
  BY DEF TypeOK, RecordTypes
<1> SUFFICES ASSUME NEW o \in Sockets, NEW x \in Sockets, o # x, room'[o] # NoRoom PROVE SeesRight(o, x)'
  BY DEF RosterInv
<1>2. o # by[t] /\ room'[o] = room[o] /\ room[o] # NoRoom
  BY <1>1
<1>3. /\ Sees(o, x) => room[x] = room[o]
      /\ room[x] = room[o] /\ named[x] => Sees(o, x)
  BY <1>2, CalmRoster
<1>4. CASE x = by[t]
  BY <1>1, <1>2, <1>3, <1>4 DEF SeesRight, Sees, Leaving
<1>5. CASE x # by[t]
  BY <1>1, <1>2, <1>3, <1>5 DEF SeesRight, Sees
<1> QED BY <1>4, <1>5

\* Nothing changes but the record of s, which had no room before.
LEMMA SameRoster ==
  ASSUME RosterInv, NoWriter, NoWriter', UNCHANGED <<room, named, shown>>
  PROVE  RosterInv'
<1> SUFFICES ASSUME NEW o \in Sockets, NEW x \in Sockets, o # x, room'[o] # NoRoom PROVE SeesRight(o, x)'
  BY DEF RosterInv
<1> QED BY CalmRoster DEF SeesRight, Sees

LEMMA ClaimRoster ==
  ASSUME TypeOK, TaskInv, RosterInv, NEW t \in Tasks, JoinClaim(t) \/ Leave(t) PROVE RosterInv'
<1> USE DEF TypeOK, TaskTypes, RecordTypes
<1>1. NoWriter /\ by[t] \in Sockets /\ UNCHANGED <<named, shown>>
  BY DEF JoinClaim, Leave, CanWrite, Unlocked, NoWriter, TaskInv
<1>2. CASE writer' = t
  <2>1. /\ room' = [room EXCEPT ![by[t]] = NoRoom] /\ here'[t] = room[by[t]] /\ by' = by
        /\ pc'[t] \in {"detach", "left"}
    BY <1>1, <1>2 DEF JoinClaim, Leave, Proceed, Return, NoWriter
  <2> QED BY <1>1, <1>2, <2>1, WithdrawRoster
<1>3. CASE writer' # t
  <2>1. UNCHANGED <<room, writer>>
    BY <1>3 DEF JoinClaim, Leave
  <2> QED BY <1>1, <2>1, SameRoster DEF NoWriter
<1> QED BY <1>2, <1>3

\* The writer's receivers, who are all but the sockets it is moving.
LEMMA DetachRoster ==
  ASSUME TypeOK, TaskInv, LockInv, AdapterInv, RosterInv, NEW t \in Tasks, Detach(t) PROVE RosterInv'
<1>1. /\ writer = t /\ NoWriter' /\ by[t] \in Sockets /\ UNCHANGED <<room, named>> /\ shown \in Views
      /\ pc[t] \in {"detach", "left"} /\ room[by[t]] = NoRoom
  BY DEF Detach, LockInv, WriterPCs, TaskInv, AdapterInv, Progress, record, NoWriter, TypeOK,
     ClientTypes, Views
<1> SUFFICES ASSUME NEW o \in Sockets, NEW x \in Sockets, o # x, room'[o] # NoRoom PROVE SeesRight(o, x)'
  BY DEF RosterInv
<1>2. o # by[t] /\ ~ Arriving(o) /\ ~ Coming(x) /\ room[o] # NoRoom
  BY <1>1 DEF Arriving, Coming
<1>3. SeesRight(o, x)
  BY <1>2 DEF RosterInv
<1>4. shown'[o][x] = IF o \in Receivers(here[t]) /\ x = by[t] THEN Gone ELSE shown[o][x]
  BY <1>1, <1>2, EraseAt DEF Detach
<1>5. joined[o] = Home(o)
  BY <1>1, <1>2 DEF AdapterInv, Midway
<1>6. room[o] = here[t] => o \in Receivers(here[t])
  BY <1>2, <1>5 DEF Home, Receivers
<1>7. CASE x = by[t]
  BY <1>1, <1>2, <1>3, <1>4, <1>6, <1>7 DEF SeesRight, Sees, Leaving
<1>8. CASE x # by[t]
  BY <1>1, <1>2, <1>3, <1>4, <1>8 DEF SeesRight, Sees, Leaving
<1> QED BY <1>7, <1>8

LEMMA JoinCommitRoster ==
  ASSUME TypeOK, TaskInv, RosterInv, NEW t \in Tasks, JoinCommit(t) PROVE RosterInv'
<1> DEFINE s == by[t]
           r == req[t].room
           D == Duplicates(s, r, ClaimedToken(t))
<1> USE DEF TypeOK, TaskTypes, RecordTypes
<1>1. /\ NoWriter /\ writer' = t /\ s \in Sockets /\ UNCHANGED <<named, shown, by, req>>
      /\ req[t].op = "join" /\ r \in Rooms /\ here'[t] = room[s] /\ dups'[t] = D
      /\ \A x \in D : room[x] = r
      /\ pc'[t] = IF room[s] \notin {NoRoom, r} THEN "switch"
                  ELSE IF D # {} THEN "evict" ELSE "enter"
  BY DEF JoinCommit, CanWrite, Unlocked, NoWriter, TaskInv, Proceed, Duplicates
<1>2. \A x \in Sockets : room'[x] = IF x = s THEN r ELSE IF x \in D THEN NoRoom ELSE room[x]
  BY DEF JoinCommit
<1> HIDE DEF D
<1> SUFFICES ASSUME NEW o \in Sockets, NEW x \in Sockets, o # x, room'[o] # NoRoom, ~ Arriving(o)'
             PROVE  SeesRight(o, x)'
  BY DEF RosterInv
<1>3. o # s /\ o \notin D /\ room'[o] = room[o] /\ room[o] # NoRoom
  BY <1>1, <1>2 DEF Arriving
<1>4. /\ Sees(o, x) => room[x] = room[o]
      /\ room[x] = room[o] /\ named[x] => Sees(o, x)
  BY <1>1, <1>3, CalmRoster
<1>5. CASE x = s
  BY <1>1, <1>2, <1>3, <1>4, <1>5 DEF SeesRight, Sees, Leaving, Coming
<1>6. CASE x # s /\ x \in D
  BY <1>1, <1>2, <1>3, <1>4, <1>6 DEF SeesRight, Sees, Leaving, Target
<1>7. CASE x # s /\ x \notin D
  BY <1>1, <1>2, <1>3, <1>4, <1>7 DEF SeesRight, Sees
<1> QED BY <1>5, <1>6, <1>7

LEMMA SwitchRoster ==
  ASSUME TypeOK, TaskInv, LockInv, AdapterInv, RosterInv, NEW t \in Tasks, Switch(t) PROVE RosterInv'
<1>1. /\ writer = t /\ writer' = t /\ by[t] \in Sockets /\ shown \in Views
      /\ UNCHANGED <<room, named, by, req, here, dups>> /\ pc[t] = "switch" /\ req[t].op = "join"
      /\ \A d \in dups[t] : room[d] = NoRoom
      /\ pc'[t] = IF dups[t] # {} THEN "evict" ELSE "enter"
  BY DEF Switch, LockInv, WriterPCs, TaskInv, AdapterInv, Progress, record, lock, local, TypeOK,
     ClientTypes, TaskTypes, Views, Proceed
<1> SUFFICES ASSUME NEW o \in Sockets, NEW x \in Sockets, o # x, room'[o] # NoRoom, ~ Arriving(o)'
             PROVE  SeesRight(o, x)'
  BY DEF RosterInv
<1>2. o # by[t] /\ ~ Arriving(o) /\ o \notin dups[t] /\ room[o] # NoRoom
  BY <1>1 DEF Arriving
<1>3. SeesRight(o, x)
  BY <1>2 DEF RosterInv
<1>4. shown'[o][x] = IF o \in Receivers(here[t]) /\ x = by[t] THEN Gone ELSE shown[o][x]
  BY <1>1, <1>2, EraseAt DEF Switch
<1>5. joined[o] = Home(o)
  BY <1>1, <1>2 DEF AdapterInv, Midway
<1>6. room[o] = here[t] => o \in Receivers(here[t])
  BY <1>2, <1>5 DEF Home, Receivers
<1>7. CASE x = by[t]
  BY <1>1, <1>2, <1>3, <1>4, <1>6, <1>7 DEF SeesRight, Sees, Leaving, Coming, Target
<1>8. CASE x # by[t]
  BY <1>1, <1>2, <1>3, <1>4, <1>8 DEF SeesRight, Sees, Leaving, Coming, Target
<1> QED BY <1>7, <1>8

LEMMA EvictRoster ==
  ASSUME TypeOK, TaskInv, LockInv, AdapterInv, RosterInv, NEW t \in Tasks, Evict(t) PROVE RosterInv'
<1>1. /\ writer = t /\ writer' = t /\ by[t] \in Sockets /\ shown \in Views
      /\ UNCHANGED <<room, named, by, req, here, dups>> /\ pc[t] = "evict"
      /\ \A d \in dups[t] : room[d] = NoRoom
      /\ pc'[t] = IF req[t].op = "join" THEN "enter" ELSE "renew"
  BY DEF Evict, LockInv, WriterPCs, TaskInv, AdapterInv, Progress, record, lock, local, TypeOK,
     ClientTypes, TaskTypes, Views, Proceed
<1> SUFFICES ASSUME NEW o \in Sockets, NEW x \in Sockets, o # x, room'[o] # NoRoom, ~ Arriving(o)'
             PROVE  SeesRight(o, x)'
  BY DEF RosterInv
<1>2. ~ Arriving(o) /\ o \notin dups[t] /\ room[o] # NoRoom /\ ~ (o = by[t] /\ req[t].op = "join")
  BY <1>1 DEF Arriving
<1>3. SeesRight(o, x)
  BY <1>2 DEF RosterInv
<1>4. shown'[o][x] = IF o \in Receivers(Target(t)) \ dups[t] /\ x \in dups[t] THEN Gone ELSE shown[o][x]
  BY <1>1, <1>2, EraseAt DEF Evict
<1>5. joined[o] = Home(o)
  BY <1>1, <1>2 DEF AdapterInv, Midway
<1>6. room[o] = Target(t) => o \in Receivers(Target(t))
  BY <1>2, <1>5 DEF Home, Receivers
<1>7. CASE x \in dups[t]
  BY <1>1, <1>2, <1>3, <1>4, <1>6, <1>7 DEF SeesRight, Sees, Leaving
<1>8. CASE x \notin dups[t]
  BY <1>1, <1>2, <1>3, <1>4, <1>8 DEF SeesRight, Sees, Leaving, Coming
<1> QED BY <1>7, <1>8

LEMMA EnterRoster ==
  ASSUME TypeOK, TaskInv, UniqueInv, LockInv, AdapterInv, RosterInv, NEW t \in Tasks, Enter(t)
  PROVE  RosterInv'
<1> DEFINE s == by[t]
           r == req[t].room
           snapshot == [x \in Sockets |-> IF x \in Members(r) THEN sseq[x] ELSE Gone]
           others == IF named[s] THEN Receivers(r) \ {s} ELSE {}
           view == [shown EXCEPT ![s] = snapshot]
<1>1. /\ writer = t /\ NoWriter' /\ s \in Sockets /\ UNCHANGED <<room, named, known>>
      /\ pc[t] = "enter" /\ room[s] = r /\ r \in Rooms
      /\ shown' = Display(view, others, s, sseq[s])
  BY DEF Enter, LockInv, WriterPCs, TaskInv, AdapterInv, Progress, record, NoWriter
<1>2. view \in Views /\ \A x \in Sockets : sseq[x] \in 0..MaxSeq /\ snapshot[x] \in Gone..MaxSeq
  BY <1>1 DEF TypeOK, ClientTypes, RecordTypes, Views, Gone
<1>3. ASSUME NEW o \in Sockets, NEW x \in Sockets
      PROVE  shown'[o][x] = IF o \in others /\ x = s THEN sseq[s] ELSE view[o][x]
  <2> HIDE DEF view, others
  <2>1. Display(view, others, s, sseq[s])[o][x] =
           IF o \in others /\ x = s THEN sseq[s] ELSE view[o][x]
    BY <1>1, <1>2, DisplayAt
  <2> QED BY <1>1, <2>1
<1>4. \A o, x \in Sockets : view[o][x] = IF o = s THEN snapshot[x] ELSE shown[o][x]
  BY <1>1 DEF TypeOK, ClientTypes
<1>5. s \notin others
  OBVIOUS
<1> HIDE DEF view
<1> SUFFICES ASSUME NEW o \in Sockets, NEW x \in Sockets, o # x, room'[o] # NoRoom PROVE SeesRight(o, x)'
  BY DEF RosterInv
<1>6. CASE o = s
  <2>1. shown'[o][x] = IF x \in Members(r) THEN sseq[x] ELSE Gone
    BY <1>3, <1>4, <1>5, <1>6
  <2>2. x \in Members(r) <=> room[x] = room[o]
    BY <1>1, <1>6 DEF Members, UniqueInv, PresentIsKnown
  <2>3. sseq[x] # Gone
    BY <1>2 DEF Gone
  <2> QED BY <1>1, <2>1, <2>2, <2>3 DEF SeesRight, Sees
<1>7. CASE o # s
  <2>1. ~ Arriving(o) /\ room[o] # NoRoom /\ ~ Leaving(x, o)
    BY <1>1, <1>7 DEF Arriving, Leaving
  <2>2. SeesRight(o, x)
    BY <2>1 DEF RosterInv
  <2>3. joined[o] = Home(o)
    BY <1>1, <1>7 DEF AdapterInv, Midway
  <2>4. o \in Receivers(r) <=> room[o] = r
    BY <1>1, <2>1, <2>3 DEF Home, Receivers
  <2>5. CASE x # s
    <3>1. shown'[o][x] = shown[o][x]
      BY <1>3, <1>4, <1>7, <2>5
    <3> QED BY <1>1, <2>1, <2>2, <2>5, <3>1 DEF SeesRight, Sees, Coming
  <2>6. CASE x = s
    <3>2. sseq[x] # Gone
      BY <1>2 DEF Gone
    <3>3. shown'[o][x] = IF named[s] /\ room[o] = r THEN sseq[x] ELSE shown[o][x]
      BY <1>3, <1>4, <1>7, <2>4, <2>6
    <3> QED BY <1>1, <2>1, <2>2, <2>6, <3>2, <3>3 DEF SeesRight, Sees
  <2> QED BY <2>5, <2>6
<1> QED BY <1>6, <1>7

LEMMA RenewRoster ==
  ASSUME TypeOK, TaskInv, LockInv, GhostInv, AdapterInv, RosterInv, NEW t \in Tasks, Renew(t)
  PROVE  RosterInv'
<1> DEFINE s == by[t]
<1>1. /\ writer = t /\ NoWriter' /\ s \in Sockets /\ UNCHANGED <<room, named>>
      /\ pc[t] = "renew" /\ room[s] = here[t] /\ here[t] \in Rooms
      /\ shown' = Display(shown, Receivers(here[t]) \ {s}, s, sseq[s])
      /\ shown \in Views
  BY DEF Renew, LockInv, WriterPCs, TaskInv, GhostInv, AboutToTell, record, NoWriter, TypeOK,
     ClientTypes, Views
<1> SUFFICES ASSUME NEW o \in Sockets, NEW x \in Sockets, o # x, room'[o] # NoRoom PROVE SeesRight(o, x)'
  BY DEF RosterInv
<1>2. ~ Arriving(o) /\ room[o] # NoRoom /\ ~ Leaving(x, o) /\ joined[o] = Home(o)
  BY <1>1 DEF Arriving, Leaving, AdapterInv, Midway
<1>3. SeesRight(o, x)
  BY <1>2 DEF RosterInv
<1>4. o \in Receivers(here[t]) <=> room[o] = here[t]
  BY <1>1, <1>2 DEF Home, Receivers
<1>5. shown'[o][x] = IF o \in Receivers(here[t]) \ {s} /\ x = s THEN sseq[s] ELSE shown[o][x]
  BY <1>1, DisplayAt
<1>6. CASE x # s
  BY <1>1, <1>2, <1>3, <1>5, <1>6 DEF SeesRight, Sees, Coming
<1>7. CASE x = s
  <2>1. sseq[s] \in 0..MaxSeq
    BY <1>1 DEF TypeOK, RecordTypes
  <2>2. sseq[s] # Gone
    BY <2>1 DEF Gone
  <2> QED BY <1>1, <1>2, <1>3, <1>4, <1>5, <1>7, <2>2 DEF SeesRight, Sees
<1> QED BY <1>6, <1>7

\* A reader of the lock tells a room, or a part of it, of an avatar in it.
LEMMA TellRoster ==
  ASSUME TypeOK, AdapterInv, RosterInv, NoWriter, NoWriter', UNCHANGED <<room, named>>,
         NEW s \in Sockets, NEW n \in 0..MaxSeq, room[s] \in Rooms,
         NEW R \in SUBSET Receivers(room[s]), shown' = Display(shown, R, s, n)
  PROVE  RosterInv'
<1> SUFFICES ASSUME NEW o \in Sockets, NEW x \in Sockets, o # x, room'[o] # NoRoom PROVE SeesRight(o, x)'
  BY DEF RosterInv
<1>1. /\ Sees(o, x) => room[x] = room[o]
      /\ room[x] = room[o] /\ named[x] => Sees(o, x)
  BY CalmRoster
<1>2. shown'[o][x] = IF o \in R /\ x = s THEN n ELSE shown[o][x]
  BY DisplayAt DEF TypeOK, ClientTypes, Views
<1>3. o \in R => room[o] = room[s]
  BY FreeReceivers
<1>5. n # Gone
  BY DEF Gone
<1> QED BY <1>1, <1>2, <1>3, <1>5 DEF SeesRight, Sees

LEMMA PublishRoster ==
  ASSUME TypeOK, TaskInv, LockInv, GhostInv, AdapterInv, RosterInv, NEW t \in Tasks, Publish(t) \/ Moved(t)
  PROVE  RosterInv'
<1>1. /\ NoWriter /\ NoWriter' /\ by[t] \in Sockets /\ UNCHANGED <<room, named>>
      /\ room[by[t]] = here[t] /\ here[t] \in Rooms /\ num[t] \in 0..MaxSeq
  BY DEF Publish, Moved, LockInv, ReaderPCs, TaskInv, GhostInv, AboutToTell, record, NoWriter, TypeOK,
     TaskTypes, LockTypes
<1>2. \E R \in SUBSET Receivers(here[t]) : shown' = Display(shown, R, by[t], num[t])
  BY DEF Publish, Moved
<1> QED BY <1>1, <1>2, TellRoster

LEMMA TickEmitRoster ==
  ASSUME TypeOK, LockInv, GhostInv, AdapterInv, RosterInv, TickEmit PROVE RosterInv'
<1>1. PICK u \in batch : shown' = Display(shown, Receivers(u.room), u.id, u.seq)
  BY DEF TickEmit
<1>2. u.id \in Sockets /\ u.seq \in 0..MaxSeq /\ u.room \in Rooms
  BY DEF TypeOK, LockTypes
<1>3. NoWriter /\ NoWriter' /\ UNCHANGED <<room, named>> /\ room[u.id] = u.room
  BY DEF TickEmit, LockInv, GhostInv, record, NoWriter, TypeOK, LockTypes
<1> QED BY <1>1, <1>2, <1>3, TellRoster

\* The steps of the lock's readers that emit nothing.
LEMMA ReaderRoster ==
  ASSUME RosterInv, Tick \/ (\E t \in Tasks : Revalidate(t) \/ Move(t)) PROVE RosterInv'
<1>1. NoWriter /\ NoWriter' /\ UNCHANGED <<room, named, shown>>
  BY DEF Tick, Revalidate, Move, CanRead, NoWriter, record, client
<1> QED BY <1>1, SameRoster

LEMMA UserDataRoster ==
  ASSUME TypeOK, TaskInv, RosterInv, NEW t \in Tasks, UserData(t) PROVE RosterInv'
<1> DEFINE s == by[t]
           D == UserDuplicates(s, IF req[t].token = KeepToken THEN token[s] ELSE req[t].token)
<1> USE DEF TypeOK, TaskTypes, RecordTypes
<1>1. /\ NoWriter /\ s \in Sockets /\ shown' = shown /\ req[t].op = "user"
      /\ \A x \in D : x # s /\ room[x] = room[s] /\ room[s] # NoRoom
  <2>1. NoWriter /\ s \in Sockets /\ shown' = shown /\ req[t].op = "user"
    BY DEF UserData, CanWrite, Unlocked, NoWriter, TaskInv, client
  <2>2. \A x \in D : x # s /\ room[x] = room[s] /\ room[s] # NoRoom
    BY DEF UserDuplicates, Duplicates
  <2> QED BY <2>1, <2>2
<1>2. /\ \A x \in Sockets : room'[x] = IF x \in D THEN NoRoom ELSE room[x]
      /\ \A x \in Sockets : x # s => named'[x] = named[x]
  BY DEF UserData
<1>3. IF room[s] = NoRoom THEN NoWriter'
      ELSE /\ writer' = t /\ by'[t] = s /\ req'[t].op = "user" /\ here'[t] = room[s] /\ dups'[t] = D
           /\ pc'[t] = IF D # {} THEN "evict" ELSE "renew"
  BY <1>1 DEF UserData, NoWriter, Proceed
<1> HIDE DEF D
<1> SUFFICES ASSUME NEW o \in Sockets, NEW x \in Sockets, o # x, room'[o] # NoRoom
             PROVE  SeesRight(o, x)'
  BY DEF RosterInv
<1>4. o \notin D /\ room'[o] = room[o] /\ room[o] # NoRoom
  BY <1>2
<1>5. /\ Sees(o, x) => room[x] = room[o]
      /\ room[x] = room[o] /\ named[x] => Sees(o, x)
  BY <1>1, <1>4, CalmRoster
<1>6. CASE x = s
  <2>1. room[s] # NoRoom => Coming(x)'
    BY <1>1, <1>3, <1>6 DEF Coming
  <2> QED BY <1>1, <1>2, <1>4, <1>5, <1>6, <2>1 DEF SeesRight, Sees
<1>7. CASE x \in D
  <2>1. room[o] = room[s] => Leaving(x, o)'
    BY <1>1, <1>3, <1>4, <1>7 DEF Leaving, Target
  <2> QED BY <1>1, <1>2, <1>4, <1>5, <1>7, <2>1 DEF SeesRight, Sees
<1>8. CASE x # s /\ x \notin D
  BY <1>1, <1>2, <1>4, <1>5, <1>8 DEF SeesRight, Sees
<1> QED BY <1>6, <1>7, <1>8

LEMMA StepRoster ==
  TypeOK /\ TaskInv /\ UniqueInv /\ LockInv /\ GhostInv /\ AdapterInv /\ RosterInv /\ [QueuedNext]_vars
    => RosterInv'
<1> SUFFICES ASSUME TypeOK, TaskInv, UniqueInv, LockInv, GhostInv, AdapterInv, RosterInv, [QueuedNext]_vars
             PROVE  RosterInv'
  OBVIOUS
<1> QED BY QuietSteps, QuietRoster, OnDisconnectRoster, ClaimRoster, DetachRoster, JoinCommitRoster,
           SwitchRoster, EvictRoster, EnterRoster, UserDataRoster, RenewRoster, PublishRoster,
           TickEmitRoster, ReaderRoster DEF Loud

LEMMA InitRoster ==
  Init => UniqueInv /\ LockInv /\ GhostInv /\ AdapterInv /\ RosterInv
  BY DEF Init, UniqueInv, PresentIsKnown, UniquePresence, LockInv, GhostInv, AboutToTell, WriterPCs,
     ReaderPCs, AdapterInv, Home, RosterInv

LEMMA RosterSuffices == TypeOK /\ UniqueInv /\ RosterInv => RosterExact
<1> SUFFICES ASSUME TypeOK, UniqueInv, RosterInv, NoWriter, NEW o \in Sockets, NEW x \in Sockets,
                    o # x, room[o] # NoRoom
             PROVE  /\ Sees(o, x) => x \in Members(room[o])
                    /\ x \in Members(room[o]) /\ named[x] => Sees(o, x)
  BY DEF RosterExact, Sees, Unlocked, TypeOK, RecordTypes, Members
<1> QED BY CalmRoster DEF UniqueInv, PresentIsKnown, Members

\* RosterExact: whatever joins, leaves, switches, evictions, renamings and
\* disconnects went before, a receiver displays between transitions no avatar
\* of another room, and every named one of its own.
THEOREM RosterIsExact == Spec => []RosterExact
<1>1. /\ TypeOK /\ TaskInv /\ UniqueInv /\ LockInv /\ GhostInv /\ AdapterInv /\ RosterInv /\ [Next]_vars
      => /\ TypeOK' /\ TaskInv' /\ UniqueInv' /\ LockInv' /\ GhostInv' /\ AdapterInv' /\ RosterInv'
  BY StepTypes, StepUnique, StepLock, StepGhost, StepAdapter, StepRoster DEF QueuedNext
<1> QED BY <1>1, RosterSuffices, InitTypes, InitRoster, PTL DEF Spec

-----------------------------------------------------------------------------
(* Positions.  A receiver may be behind only while the newest position is   *)
(* still to be emitted, by a move or by the motion loop, or after an older  *)
(* one was emitted; and nothing that is to be emitted is newer than the     *)
(* avatar's position.                                                       *)

\* Position n of s is still to be broadcast to its whole room.
Broadcasting(s, n) ==
    \/ \E u \in batch : u.id = s /\ u.seq = n
    \/ \E t \in Tasks : pc[t] = "moved" /\ by[t] = s /\ num[t] = n

\* Position n of s is still to be sent, in a broadcast or as a new user.
Emitting(s, n) ==
    Broadcasting(s, n) \/ \E t \in Tasks : pc[t] = "publish" /\ by[t] = s /\ num[t] = n

\* The newest position of s is still to be broadcast.
Underway(s) == Broadcasting(s, sseq[s])

EmitInv == \A s \in Sockets, n \in 0..MaxSeq : Emitting(s, n) => n <= sseq[s]

\* o displays s, its roommate.
Watches(o, s) ==
    o # s /\ room[o] # NoRoom /\ room[o] = room[s] /\ ~ Arriving(o) /\ Sees(o, s)

\* An avatar that comes from another room is not displayed before it enters.
Unseen(s) == \A o \in Sockets : o # s /\ room[o] = room[s] => ~ Sees(o, s)

SwitchInv == writer \in Tasks /\ pc[writer] = "switch" => Unseen(by[writer])

PositionInv ==
    /\ SwitchInv
    /\ \A o, s \in Sockets : Watches(o, s) =>
         shown[o][s] <= sseq[s] /\ (shown[o][s] = sseq[s] \/ Underway(s) \/ s \in overtaken)

\* Nobody emits while a task has the write lock, or nobody has the lock.
LEMMA SilentWriters ==
  ASSUME LockInv, readers = {}, NEW s, NEW n
  PROVE  ~ Emitting(s, n) /\ ~ Broadcasting(s, n)
  BY DEF LockInv, ReaderPCs, Emitting, Broadcasting

\* A step of a writer that leaves every view as it was, empties it or makes
\* it exact.
LEMMA WriterPositions ==
  ASSUME TypeOK, TypeOK', LockInv, LockInv', readers = {}, readers' = {}, EmitInv, PositionInv,
         SwitchInv',
         \A o, s \in Sockets : Watches(o, s)' =>
            \/ shown'[o][s] = sseq'[s]
            \/ /\ Watches(o, s) /\ shown'[o][s] = shown[o][s] /\ sseq'[s] = sseq[s]
               /\ s \in overtaken => s \in overtaken'
  PROVE  EmitInv' /\ PositionInv'
<1>1. EmitInv'
  <2>1. \A s \in Sockets, n \in 0..MaxSeq : ~ Emitting(s, n)'
    BY SilentWriters DEF LockInv, ReaderPCs, Emitting, Broadcasting
  <2> QED BY <2>1 DEF EmitInv
<1>2. PositionInv'
  <2> SUFFICES ASSUME NEW o \in Sockets, NEW s \in Sockets, Watches(o, s)'
               PROVE  /\ shown'[o][s] <= sseq'[s]
                      /\ shown'[o][s] = sseq'[s] \/ s \in overtaken'
    BY DEF PositionInv
  <2>1. CASE /\ Watches(o, s) /\ shown'[o][s] = shown[o][s] /\ sseq'[s] = sseq[s]
             /\ s \in overtaken => s \in overtaken'
    BY <2>1, SilentWriters DEF PositionInv, Underway
  <2>2. CASE shown'[o][s] = sseq'[s]
    BY <2>2 DEF TypeOK, RecordTypes
  <2> QED BY <2>1, <2>2
<1> QED BY <1>1, <1>2

LEMMA QuietPositions ==
  ASSUME EmitInv, PositionInv, Quiet PROVE EmitInv' /\ PositionInv'
<1>1. \A s, n : (Emitting(s, n) <=> Emitting(s, n)') /\ (Underway(s) <=> Underway(s)')
  BY DEF Quiet, Emitting, Broadcasting, Underway
<1>2. \A o, s : Watches(o, s)' => Watches(o, s)
  BY DEF Watches, Sees, Arriving, Quiet
<1>3. sseq' = sseq /\ shown' = shown /\ overtaken' = overtaken
  BY DEF Quiet
<1>4. EmitInv'
  BY <1>1, <1>3 DEF EmitInv
<1>5. SwitchInv'
  BY DEF PositionInv, SwitchInv, Unseen, Sees, Quiet
<1>6. PositionInv'
  BY <1>1, <1>2, <1>3, <1>5 DEF PositionInv
<1> QED BY <1>4, <1>6

\* The room of s is told position n of s.
LEMMA TellPositions ==
  ASSUME TypeOK, AdapterInv, EmitInv, PositionInv, NoWriter, NoWriter', UNCHANGED <<room, sseq>>,
         NEW s \in Sockets, NEW n \in 0..MaxSeq, room[s] \in Rooms, Emitting(s, n),
         NEW R \in SUBSET Receivers(room[s]), Receivers(room[s]) \ {s} \subseteq R,
         shown' = Display(shown, R, s, n), overtaken' = Overtaken(s, n),
         \A x \in Sockets, m \in 0..MaxSeq :
            /\ Emitting(x, m)' => Emitting(x, m)
            /\ Broadcasting(x, m) /\ <<x, m>> # <<s, n>> => Broadcasting(x, m)'
  PROVE  EmitInv' /\ PositionInv'
<1>1. n <= sseq[s] /\ \A x \in Sockets : sseq[x] \in 0..MaxSeq
  BY DEF EmitInv, TypeOK, RecordTypes
<1>2. EmitInv'
  BY DEF EmitInv
<1>3. ASSUME NEW o \in Sockets, NEW x \in Sockets
      PROVE  shown'[o][x] = IF o \in R /\ x = s THEN n ELSE shown[o][x]
  BY DisplayAt DEF TypeOK, ClientTypes, Views
<1>4. PositionInv'
  <2>1. SwitchInv'
    BY DEF SwitchInv, NoWriter
  <2> SUFFICES ASSUME NEW o \in Sockets, NEW x \in Sockets, Watches(o, x)'
               PROVE  /\ shown'[o][x] <= sseq[x]
                      /\ shown'[o][x] = sseq[x] \/ Underway(x)' \/ x \in overtaken'
    BY <2>1 DEF PositionInv
  <2>2. o # x /\ room[o] # NoRoom /\ room[o] = room[x] /\ ~ Arriving(o)
    BY DEF Watches, Arriving, NoWriter
  <2>3. CASE x # s
    <3>1. Watches(o, x) /\ shown'[o][x] = shown[o][x]
      BY <1>3, <2>2, <2>3 DEF Watches, Sees
    <3>2. Underway(x) => Underway(x)'
      <4>1. \A m \in 0..MaxSeq : Broadcasting(x, m) /\ m = sseq[x] => Underway(x)'
        BY <2>3 DEF Underway, Broadcasting
      <4> QED BY <1>1, <4>1 DEF Underway
    <3>3. x \in overtaken => x \in overtaken'
      BY <2>3 DEF Overtaken
    <3> QED BY <3>1, <3>2, <3>3 DEF PositionInv
  <2>4. CASE x = s
    <3>1. o \in R
      BY <2>2, <2>4, FreeReceivers
    <3>2. shown'[o][x] = n
      BY <1>3, <2>4, <3>1
    <3>3. n = sseq[s] \/ s \in overtaken'
      BY DEF Overtaken
    <3> QED BY <1>1, <2>4, <3>2, <3>3
  <2> QED BY <2>3, <2>4
<1> QED BY <1>2, <1>4

LEMMA MovedPositions ==
  ASSUME TypeOK, TaskInv, LockInv, GhostInv, AdapterInv, EmitInv, PositionInv,
         NEW t \in Tasks, Publish(t) \/ Moved(t)
  PROVE  EmitInv' /\ PositionInv'
<1> DEFINE s == by[t]
           n == num[t]
<1>1. /\ NoWriter /\ NoWriter' /\ s \in Sockets /\ UNCHANGED <<room, sseq, batch>>
      /\ room[s] = here[t] /\ here[t] \in Rooms /\ n \in 0..MaxSeq
  BY DEF Publish, Moved, LockInv, ReaderPCs, TaskInv, GhostInv, AboutToTell, record, NoWriter, TypeOK,
     TaskTypes, LockTypes
<1>2. PICK R \in SUBSET Receivers(room[s]) :
         Receivers(room[s]) \ {s} \subseteq R /\ shown' = Display(shown, R, s, n)
  BY <1>1 DEF Publish, Moved
<1>3. Emitting(s, n) /\ pc[t] \in {"publish", "moved"} /\ overtaken' = Overtaken(s, n)
  BY DEF Emitting, Broadcasting, Publish, Moved
<1>4. /\ pc'[t] = "idle"
      /\ \A u \in Tasks \ {t} : pc'[u] = pc[u] /\ by'[u] = by[u] /\ num'[u] = num[u]
  BY DEF Publish, Moved, Return, TypeOK, TaskTypes
<1>5. ASSUME NEW x \in Sockets, NEW m \in 0..MaxSeq
      PROVE  /\ Emitting(x, m)' => Emitting(x, m)
             /\ Broadcasting(x, m) /\ <<x, m>> # <<s, n>> => Broadcasting(x, m)'
  BY <1>1, <1>4 DEF Emitting, Broadcasting
<1> HIDE DEF s, n
<1> QED BY <1>1, <1>2, <1>3, <1>5, TellPositions

LEMMA TickEmitPositions ==
  ASSUME TypeOK, LockInv, GhostInv, AdapterInv, EmitInv, PositionInv, TickEmit
  PROVE  EmitInv' /\ PositionInv'
<1>1. PICK u \in batch : /\ shown' = Display(shown, Receivers(u.room), u.id, u.seq)
                         /\ overtaken' = Overtaken(u.id, u.seq) /\ batch' = batch \ {u}
  BY DEF TickEmit
<1>2. /\ u.id \in Sockets /\ u.seq \in 0..MaxSeq /\ u.room \in Rooms
      /\ batch \subseteq [id : Sockets, room : Rooms, seq : 0..MaxSeq]
  BY DEF TypeOK, LockTypes
<1>3. /\ NoWriter /\ NoWriter' /\ UNCHANGED <<room, sseq, pc, by, num>>
      /\ \A v \in batch : room[v.id] = v.room
  BY DEF TickEmit, LockInv, GhostInv, record, local, NoWriter, TypeOK, LockTypes
<1>4. Emitting(u.id, u.seq)
  BY DEF Emitting, Broadcasting
<1>5. ASSUME NEW x \in Sockets, NEW m \in 0..MaxSeq
      PROVE  /\ Emitting(x, m)' => Emitting(x, m)
             /\ Broadcasting(x, m) /\ <<x, m>> # <<u.id, u.seq>> => Broadcasting(x, m)'
  BY <1>1, <1>3 DEF Emitting, Broadcasting
<1>6. room[u.id] = u.room
  BY <1>3
<1> DEFINE s == u.id
           n == u.seq
<1>7. /\ s \in Sockets /\ n \in 0..MaxSeq /\ room[s] \in Rooms /\ Emitting(s, n)
      /\ shown' = Display(shown, Receivers(room[s]), s, n) /\ overtaken' = Overtaken(s, n)
      /\ \A x \in Sockets, m \in 0..MaxSeq :
            /\ Emitting(x, m)' => Emitting(x, m)
            /\ Broadcasting(x, m) /\ <<x, m>> # <<s, n>> => Broadcasting(x, m)'
  BY <1>1, <1>2, <1>4, <1>5, <1>6
<1> HIDE DEF s, n
<1> QED BY <1>3, <1>7, TellPositions

\* A new position is about to be broadcast.
LEMMA MovePositions ==
  ASSUME TypeOK, TaskInv, LockInv, EmitInv, PositionInv, NEW t \in Tasks, Move(t)
  PROVE  EmitInv' /\ PositionInv'
<1> DEFINE s == by[t]
<1>1. /\ s \in Sockets /\ NoWriter /\ NoWriter' /\ UNCHANGED <<room, shown, overtaken, batch, by>>
      /\ pc[t] = "move"
  BY DEF Move, TaskInv, CanRead, NoWriter, client
<1>2. sseq \in [Sockets -> 0..MaxSeq] /\ sseq' = [sseq EXCEPT ![s] = @ + 1]
  BY DEF Move, TypeOK, RecordTypes
<1>3. /\ pc'[t] = "moved" /\ num'[t] = sseq[s] + 1
      /\ \A u \in Tasks \ {t} : pc'[u] = pc[u] /\ num'[u] = num[u]
  BY DEF Move, Proceed, TypeOK, TaskTypes
<1>4. sseq'[s] = sseq[s] + 1 /\ Underway(s)'
  BY <1>1, <1>2, <1>3 DEF Underway, Broadcasting
<1>5. \A x \in Sockets : x # s => /\ sseq'[x] = sseq[x]
                                  /\ Underway(x) => Underway(x)'
                                  /\ \A m : Emitting(x, m)' => Emitting(x, m)
  BY <1>1, <1>2, <1>3 DEF Emitting, Broadcasting, Underway
<1>6. \A m : Emitting(s, m)' => m = sseq[s] + 1 \/ Emitting(s, m)
  BY <1>1, <1>3 DEF Emitting, Broadcasting
<1>7. EmitInv'
  <2> SUFFICES ASSUME NEW x \in Sockets, NEW m \in 0..MaxSeq, Emitting(x, m)' PROVE m <= sseq'[x]
    BY DEF EmitInv
  <2>1. CASE x = s
    <3>1. m = sseq[s] + 1 \/ m <= sseq[s]
      BY <1>1, <1>6, <2>1 DEF EmitInv
    <3> QED BY <1>1, <1>2, <1>4, <2>1, <3>1
  <2>2. CASE x # s
    BY <1>5, <2>2 DEF EmitInv
  <2> QED BY <2>1, <2>2
<1>8. PositionInv'
  <2>1. SwitchInv'
    BY <1>1 DEF SwitchInv, NoWriter
  <2> SUFFICES ASSUME NEW o \in Sockets, NEW x \in Sockets, Watches(o, x)'
               PROVE  /\ shown[o][x] <= sseq'[x]
                      /\ shown[o][x] = sseq'[x] \/ Underway(x)' \/ x \in overtaken
    BY <1>1, <2>1 DEF PositionInv
  <2>2. Watches(o, x)
    BY <1>1 DEF Watches, Sees, Arriving, NoWriter
  <2>3. shown[o][x] <= sseq[x] /\ (shown[o][x] = sseq[x] \/ Underway(x) \/ x \in overtaken)
    BY <2>2 DEF PositionInv
  <2>4. CASE x = s
    <3>1. shown[o][x] \in Gone..MaxSeq
      BY DEF TypeOK, ClientTypes
    <3> QED BY <1>1, <1>2, <1>4, <2>3, <2>4, <3>1 DEF Gone
  <2>5. CASE x # s
    BY <1>5, <2>3, <2>5
  <2> QED BY <2>4, <2>5
<1> QED BY <1>7, <1>8

LEMMA TickPositions ==
  ASSUME TypeOK, LockInv, EmitInv, PositionInv, Tick PROVE EmitInv' /\ PositionInv'
<1>1. NoWriter /\ NoWriter' /\ UNCHANGED <<room, shown, overtaken, pc, by, num>> /\ batch = {}
  BY DEF Tick, CanRead, NoWriter, client, local, LockInv
<1>2. /\ sseq \in [Sockets -> 0..MaxSeq] /\ Walking \subseteq Sockets
      /\ \A x \in Sockets : sseq'[x] = IF x \in Walking THEN sseq[x] + 1 ELSE sseq[x]
      /\ batch' = {[id |-> s, room |-> room[s], seq |-> sseq[s] + 1] : s \in Walking}
  BY DEF Tick, TypeOK, RecordTypes, Walking
<1>3. ASSUME NEW x \in Walking PROVE Underway(x)'
  <2>1. [id |-> x, room |-> room[x], seq |-> sseq[x] + 1] \in batch' /\ sseq'[x] = sseq[x] + 1
    BY <1>2
  <2> QED BY <2>1 DEF Underway, Broadcasting
<1>4. \A x \in Sockets : x \notin Walking =>
         (Underway(x) => Underway(x)') /\ \A m : Emitting(x, m)' => Emitting(x, m)
  BY <1>1, <1>2 DEF Emitting, Broadcasting, Underway
<1>5. \A x \in Walking : \A m : Emitting(x, m)' => m = sseq[x] + 1 \/ Emitting(x, m)
  BY <1>1, <1>2 DEF Emitting, Broadcasting
<1>6. EmitInv'
  <2> SUFFICES ASSUME NEW x \in Sockets, NEW m \in 0..MaxSeq, Emitting(x, m)' PROVE m <= sseq'[x]
    BY DEF EmitInv
  <2>1. CASE x \in Walking
    <3>1. m = sseq[x] + 1 \/ m <= sseq[x]
      BY <1>5, <2>1 DEF EmitInv
    <3> QED BY <1>2, <2>1, <3>1
  <2>2. CASE x \notin Walking
    BY <1>2, <1>4, <2>2 DEF EmitInv
  <2> QED BY <2>1, <2>2
<1>7. PositionInv'
  <2>1. SwitchInv'
    BY <1>1 DEF SwitchInv, NoWriter
  <2> SUFFICES ASSUME NEW o \in Sockets, NEW x \in Sockets, Watches(o, x)'
               PROVE  /\ shown[o][x] <= sseq'[x]
                      /\ shown[o][x] = sseq'[x] \/ Underway(x)' \/ x \in overtaken
    BY <1>1, <2>1 DEF PositionInv
  <2>2. Watches(o, x)
    BY <1>1 DEF Watches, Sees, Arriving, NoWriter
  <2>3. shown[o][x] <= sseq[x] /\ (shown[o][x] = sseq[x] \/ Underway(x) \/ x \in overtaken)
    BY <2>2 DEF PositionInv
  <2>4. CASE x \in Walking
    <3>1. shown[o][x] \in Gone..MaxSeq
      BY DEF TypeOK, ClientTypes
    <3> QED BY <1>2, <1>3, <2>3, <2>4, <3>1 DEF Gone
  <2>5. CASE x \notin Walking
    BY <1>2, <1>4, <2>3, <2>5
  <2> QED BY <2>4, <2>5
<1> QED BY <1>6, <1>7

LEMMA RevalidatePositions ==
  ASSUME TypeOK, TaskInv, EmitInv, PositionInv, NEW t \in Tasks, Revalidate(t)
  PROVE  EmitInv' /\ PositionInv'
<1>1. /\ NoWriter /\ NoWriter' /\ UNCHANGED <<room, shown, overtaken, sseq, batch, by>>
      /\ \A x \in Sockets : sseq[x] \in 0..MaxSeq
  BY DEF Revalidate, CanRead, NoWriter, client, record, TypeOK, RecordTypes
<1>2. /\ pc[t] = "resolve" /\ pc'[t] = "publish" /\ num'[t] = sseq[by[t]]
      /\ \A u \in Tasks \ {t} : pc'[u] = pc[u] /\ num'[u] = num[u]
  BY DEF Revalidate, Proceed, TypeOK, TaskTypes
<1>3. \A x, m : /\ Underway(x) <=> Underway(x)'
                /\ Emitting(x, m)' => Emitting(x, m) \/ m = sseq[x]
  BY <1>1, <1>2 DEF Emitting, Broadcasting, Underway
<1>4. EmitInv'
  BY <1>1, <1>3 DEF EmitInv
<1>5. SwitchInv'
  BY <1>1 DEF SwitchInv, NoWriter
<1>6. PositionInv'
  BY <1>1, <1>3, <1>5 DEF PositionInv, Watches, Sees, Arriving, NoWriter
<1> QED BY <1>4, <1>6

\* The writers' steps, by what they do to a view.
LEMMA ShrinkPositions ==
  ASSUME TypeOK, TypeOK', LockInv, LockInv', readers = {}, readers' = {}, EmitInv, PositionInv,
         SwitchInv',
         \A o \in Sockets : room'[o] \in {room[o], NoRoom} /\ (Arriving(o) => Arriving(o)' \/ room'[o] = NoRoom),
         \A o, x \in Sockets : /\ shown'[o][x] \in {shown[o][x], Gone}
                               /\ room'[x] # NoRoom => sseq'[x] = sseq[x]
                               /\ Watches(o, x)' /\ x \in overtaken => x \in overtaken'
  PROVE  EmitInv' /\ PositionInv'
<1>1. \A o, x \in Sockets : Watches(o, x)' =>
         /\ Watches(o, x) /\ shown'[o][x] = shown[o][x] /\ sseq'[x] = sseq[x]
         /\ x \in overtaken => x \in overtaken'
  BY DEF Watches, Sees
<1> QED BY <1>1, WriterPositions

LEMMA OnDisconnectPositions ==
  ASSUME TypeOK, TypeOK', LockInv, LockInv', EmitInv, PositionInv, NEW s \in Sockets, OnDisconnect(s)
  PROVE  EmitInv' /\ PositionInv'
<1>1. readers = {} /\ readers' = {} /\ shown \in Views /\ NoWriter /\ writer' = writer
  BY DEF OnDisconnect, CanWrite, Unlocked, TypeOK, ClientTypes, Views
<1>2. /\ \A o \in Sockets : room'[o] \in {room[o], NoRoom} /\ ~ Arriving(o)
      /\ \A x \in Sockets : room'[x] # NoRoom => sseq'[x] = sseq[x]
      /\ room'[s] = NoRoom /\ overtaken' = overtaken \ {s}
  BY <1>1 DEF OnDisconnect, TypeOK, RecordTypes, Arriving, NoWriter
<1>3. \A o, x \in Sockets : shown'[o][x] \in {shown[o][x], Gone}
  BY <1>1, EraseAt DEF OnDisconnect
<1>4. SwitchInv' /\ \A o, x \in Sockets : Watches(o, x)' /\ x \in overtaken => x \in overtaken'
  BY <1>1, <1>2 DEF SwitchInv, NoWriter, Watches
<1> HIDE DEF TypeOK
<1> QED BY <1>1, <1>2, <1>3, <1>4, ShrinkPositions

LEMMA WithdrawPositions ==
  ASSUME TypeOK, TypeOK', TaskInv, LockInv, LockInv', EmitInv, PositionInv,
         NEW t \in Tasks, JoinClaim(t) \/ Leave(t) \/ UserData(t)
  PROVE  EmitInv' /\ PositionInv'
<1>1. readers = {} /\ readers' = {} /\ UNCHANGED <<shown, overtaken, sseq>> /\ NoWriter
  BY DEF JoinClaim, Leave, UserData, CanWrite, Unlocked, client
<1>2. \A o \in Sockets : room'[o] \in {room[o], NoRoom} /\ ~ Arriving(o)
  BY <1>1 DEF JoinClaim, Leave, UserData, TypeOK, RecordTypes, Arriving, NoWriter
<1>3. NoWriter' \/ (writer' = t /\ pc'[t] # "switch")
  BY <1>1 DEF JoinClaim, Leave, UserData, TypeOK, TaskTypes, Proceed, NoWriter
<1>4. SwitchInv'
  BY <1>3 DEF SwitchInv, NoWriter
<1> HIDE DEF TypeOK
<1> QED BY <1>1, <1>2, <1>4, ShrinkPositions

LEMMA ErasePositions ==
  ASSUME TypeOK, TypeOK', TaskInv, LockInv, LockInv', AdapterInv, EmitInv, PositionInv,
         NEW t \in Tasks, Detach(t) \/ Switch(t) \/ Evict(t)
  PROVE  EmitInv' /\ PositionInv'
<1>1. /\ writer = t /\ readers = {} /\ readers' = {} /\ UNCHANGED <<room, sseq>> /\ shown \in Views
      /\ writer \in Tasks /\ writer # Nobody
  BY DEF Detach, Switch, Evict, LockInv, WriterPCs, lock, record, TypeOK, ClientTypes, Views
<1>2. \A o, x \in Sockets : shown'[o][x] \in {shown[o][x], Gone}
  <2>1. \E R, D : shown' = Erase(shown, R, D)
    BY DEF Detach, Switch, Evict
  <2> QED BY <1>1, <2>1, EraseAt
<1>3. \A o \in Sockets : Arriving(o) => Arriving(o)'
  <2>1. CASE Detach(t)
    BY <1>1, <2>1 DEF Detach, Arriving
  <2>2. CASE Switch(t) \/ Evict(t)
    BY <1>1, <2>2 DEF Switch, Evict, Arriving, lock, local, Proceed, TypeOK, TaskTypes
  <2> QED BY <2>1, <2>2
<1>4. SwitchInv'
  <2>1. CASE Detach(t)
    BY <2>1 DEF Detach, SwitchInv
  <2>2. CASE Switch(t) \/ Evict(t)
    BY <1>1, <2>2 DEF Switch, Evict, SwitchInv, lock, Proceed, TypeOK, TaskTypes
  <2> QED BY <2>1, <2>2
<1>5. ASSUME NEW o \in Sockets, NEW x \in Sockets, Watches(o, x)', x \in overtaken
      PROVE  x \in overtaken'
  <2>1. o # x /\ room[o] = room[x] /\ room[x] # NoRoom /\ Sees(o, x)
    BY <1>1, <1>2, <1>5 DEF Watches, Sees
  <2>2. CASE Detach(t)
    <3>1. room[by[t]] = NoRoom
      BY <1>1, <2>2 DEF Detach, AdapterInv, Progress
    <3> QED BY <1>5, <2>1, <2>2, <3>1 DEF Detach
  <2>3. CASE Switch(t)
    <3>1. Unseen(by[t])
      BY <1>1, <2>3 DEF Switch, PositionInv, SwitchInv
    <3> QED BY <1>5, <2>1, <2>3, <3>1 DEF Switch, Unseen
  <2>4. CASE Evict(t)
    <3>1. \A y \in dups[t] : room[y] = NoRoom
      BY <1>1, <2>4 DEF Evict, AdapterInv, Progress
    <3> QED BY <1>5, <2>1, <2>4, <3>1 DEF Evict
  <2> QED BY <2>2, <2>3, <2>4
<1> HIDE DEF TypeOK
<1> QED BY <1>1, <1>2, <1>3, <1>4, <1>5, ShrinkPositions

LEMMA JoinCommitPositions ==
  ASSUME TypeOK, TypeOK', TaskInv, LockInv, LockInv', RosterInv, EmitInv, PositionInv,
         NEW t \in Tasks, JoinCommit(t)
  PROVE  EmitInv' /\ PositionInv'
<1> DEFINE s == by[t]
           r == req[t].room
           D == Duplicates(s, r, ClaimedToken(t))
<1>1. /\ readers = {} /\ readers' = {} /\ NoWriter /\ writer' = t
      /\ UNCHANGED <<shown, overtaken, by, req>>
      /\ req[t].op = "join" /\ s \in Sockets /\ r \in Rooms /\ pc'[t] \in {"switch", "evict", "enter"}
  BY DEF JoinCommit, CanWrite, Unlocked, client, TaskInv, Proceed, TypeOK, TaskTypes
<1>2. \A x \in Sockets : room'[x] = IF x = s THEN r ELSE IF x \in D THEN NoRoom ELSE room[x]
  BY DEF JoinCommit
<1>3. \A x \in Sockets : x # s \/ room[x] = r => sseq'[x] = sseq[x]
  BY DEF JoinCommit, Renumbered, TypeOK, RecordTypes
<1> HIDE DEF D, TypeOK
<1>4. ASSUME NEW o \in Sockets, NEW x \in Sockets, Watches(o, x)'
      PROVE  Watches(o, x) /\ sseq'[x] = sseq[x]
  <2>1. o # x /\ o # s /\ o \notin D /\ room[o] = room'[o] /\ room[o] # NoRoom /\ room'[x] = room[o]
    BY <1>1, <1>2, <1>4 DEF Watches, Arriving
  <2>2. Sees(o, x) /\ ~ Arriving(o)
    BY <1>1, <1>4 DEF Watches, Sees, Arriving, NoWriter
  <2>3. room[x] = room[o]
    BY <1>1, <2>1, <2>2, CalmRoster
  <2> QED BY <1>2, <1>3, <2>1, <2>2, <2>3 DEF Watches
<1>5. SwitchInv'
  <2> SUFFICES ASSUME pc'[t] = "switch", NEW o \in Sockets, o # s, room'[o] = r PROVE ~ Sees(o, s)
    BY <1>1, <1>2 DEF SwitchInv, Unseen, Sees
  <2>1. room[s] # r
    BY DEF JoinCommit, Proceed, TypeOK, TaskTypes
  <2>2. room[o] = r
    BY <1>1, <1>2
  <2> QED BY <1>1, <2>1, <2>2, CalmRoster
<1> QED BY <1>1, <1>4, <1>5, WriterPositions

LEMMA EnterPositions ==
  ASSUME TypeOK, TypeOK', TaskInv, UniqueInv, LockInv, LockInv', AdapterInv, EmitInv, PositionInv,
         NEW t \in Tasks, Enter(t)
  PROVE  EmitInv' /\ PositionInv'
<1> DEFINE s == by[t]
           r == req[t].room
           snapshot == [x \in Sockets |-> IF x \in Members(r) THEN sseq[x] ELSE Gone]
           others == IF named[s] THEN Receivers(r) \ {s} ELSE {}
           view == [shown EXCEPT ![s] = snapshot]
<1>1. /\ writer = t /\ NoWriter' /\ s \in Sockets /\ UNCHANGED <<room, sseq, known>>
      /\ pc[t] = "enter" /\ room[s] = r /\ r \in Rooms
      /\ shown' = Display(view, others, s, sseq[s])
  BY DEF Enter, LockInv, WriterPCs, TaskInv, AdapterInv, Progress, record, NoWriter
<1>2. readers = {} /\ readers' = {}
  BY <1>1 DEF Enter, LockInv
<1>3. view \in Views /\ \A x \in Sockets : sseq[x] \in 0..MaxSeq
  BY <1>1 DEF TypeOK, ClientTypes, RecordTypes, Views, Gone
<1>4. ASSUME NEW o \in Sockets, NEW x \in Sockets
      PROVE  shown'[o][x] = IF o \in others /\ x = s THEN sseq[s] ELSE view[o][x]
  <2> HIDE DEF view, others
  <2>1. Display(view, others, s, sseq[s])[o][x] =
           IF o \in others /\ x = s THEN sseq[s] ELSE view[o][x]
    BY <1>1, <1>3, DisplayAt
  <2> QED BY <1>1, <2>1
<1>5. \A o, x \in Sockets : view[o][x] = IF o = s THEN snapshot[x] ELSE shown[o][x]
  BY <1>1 DEF TypeOK, ClientTypes
<1>6. s \notin others
  OBVIOUS
<1>8. \A o \in Sockets : o # s /\ named[s] /\ room[o] = r => o \in others
  <2> SUFFICES ASSUME NEW o \in Sockets, o # s, room[o] = r PROVE o \in Receivers(r)
    OBVIOUS
  <2>1. joined[o] = Home(o)
    BY <1>1 DEF AdapterInv, Midway
  <2> QED BY <1>1, <2>1 DEF Home, Receivers
<1> HIDE DEF view, others, TypeOK
<1>7. ASSUME NEW o \in Sockets, NEW x \in Sockets, Watches(o, x)'
      PROVE  \/ shown'[o][x] = sseq'[x]
             \/ /\ Watches(o, x) /\ shown'[o][x] = shown[o][x] /\ sseq'[x] = sseq[x]
                /\ x \in overtaken => x \in overtaken'
  <2>1. o # x /\ room[o] # NoRoom /\ room[x] = room[o]
    BY <1>1, <1>7 DEF Watches
  <2>2. CASE o = s
    <3>1. x \in Members(r)
      BY <1>1, <2>1, <2>2 DEF Members, UniqueInv, PresentIsKnown
    <3> QED BY <1>1, <1>4, <1>5, <1>6, <2>2, <3>1
  <2>3. CASE o # s
    <3>1. shown'[o][x] = IF o \in others /\ x = s THEN sseq[s] ELSE shown[o][x]
      BY <1>4, <1>5, <2>3
    <3>2. shown'[o][x] = shown[o][x] => Watches(o, x)
      BY <1>1, <1>7, <2>1, <2>3 DEF Watches, Sees, Arriving
    <3>3. ~ (o \in others /\ x = s) => (x \in overtaken => x \in overtaken')
      <4>1. x = s /\ named[s] => o \in others
        BY <1>1, <1>8, <2>1, <2>3
      <4>2. x # s \/ ~ named[s] => (x \in overtaken => x \in overtaken')
        BY DEF Enter, Overtaken
      <4> QED BY <4>1, <4>2
    <3> QED BY <1>1, <3>1, <3>2, <3>3
  <2> QED BY <2>2, <2>3
<1>9. SwitchInv'
  BY <1>1 DEF SwitchInv, NoWriter
<1> QED BY <1>2, <1>7, <1>9, WriterPositions

LEMMA RenewPositions ==
  ASSUME TypeOK, TypeOK', TaskInv, LockInv, LockInv', GhostInv, AdapterInv, EmitInv, PositionInv,
         NEW t \in Tasks, Renew(t)
  PROVE  EmitInv' /\ PositionInv'
<1> DEFINE s == by[t]
<1>1. /\ writer = t /\ readers = {} /\ readers' = {} /\ s \in Sockets /\ UNCHANGED <<room, sseq>>
      /\ pc[t] = "renew" /\ room[s] = here[t] /\ here[t] \in Rooms /\ shown \in Views
      /\ shown' = Display(shown, Receivers(here[t]) \ {s}, s, sseq[s])
  BY DEF Renew, LockInv, WriterPCs, TaskInv, GhostInv, AboutToTell, record, TypeOK, ClientTypes, Views
<1> HIDE DEF TypeOK
<1>2. ASSUME NEW o \in Sockets, NEW x \in Sockets, Watches(o, x)'
      PROVE  \/ shown'[o][x] = sseq'[x]
             \/ /\ Watches(o, x) /\ shown'[o][x] = shown[o][x] /\ sseq'[x] = sseq[x]
                /\ x \in overtaken => x \in overtaken'
  <2>1. o # x /\ room[o] # NoRoom /\ room[x] = room[o] /\ ~ Arriving(o)
    BY <1>1, <1>2 DEF Watches, Arriving
  <2>2. shown'[o][x] = IF o \in Receivers(here[t]) \ {s} /\ x = s THEN sseq[s] ELSE shown[o][x]
    BY <1>1, DisplayAt
  <2>3. shown'[o][x] = shown[o][x] => Watches(o, x)
    BY <1>1, <1>2, <2>1 DEF Watches, Sees
  <2>4. CASE x = s
    <3>1. o \in Receivers(here[t])
      <4>1. joined[o] = Home(o)
        BY <1>1, <2>1, <2>4 DEF AdapterInv, Midway
      <4> QED BY <1>1, <2>1, <2>4, <4>1 DEF Home, Receivers
    <3> QED BY <1>1, <2>1, <2>2, <2>4, <3>1
  <2>5. CASE x # s
    <3>1. x \in overtaken => x \in overtaken'
      BY <2>5 DEF Renew, Overtaken
    <3> QED BY <1>1, <2>2, <2>3, <2>5, <3>1
  <2> QED BY <2>4, <2>5
<1>3. SwitchInv'
  BY DEF Renew, SwitchInv
<1> QED BY <1>1, <1>2, <1>3, WriterPositions

LEMMA StepPositions ==
  ASSUME TypeOK, TaskInv, UniqueInv, LockInv, GhostInv, AdapterInv, RosterInv, EmitInv, PositionInv,
         [QueuedNext]_vars, TypeOK', LockInv'
  PROVE  EmitInv' /\ PositionInv'
BY QuietSteps, QuietPositions, OnDisconnectPositions, WithdrawPositions, ErasePositions,
   JoinCommitPositions, EnterPositions, RenewPositions, MovedPositions, TickEmitPositions,
   MovePositions, TickPositions, RevalidatePositions DEF Loud

LEMMA PositionsSuffice == TypeOK /\ LockInv /\ RosterInv /\ PositionInv => PositionsConverge
<1> SUFFICES ASSUME TypeOK, LockInv, RosterInv, PositionInv, NoWriter, readers = {},
                    NEW o \in Sockets, NEW s \in Sockets, o # s, room[o] # NoRoom, Sees(o, s)
             PROVE  shown[o][s] = sseq[s] \/ (s \in overtaken /\ shown[o][s] < sseq[s])
  BY DEF PositionsConverge, Sees, Unlocked, TypeOK, RecordTypes
<1>1. Watches(o, s)
  BY CalmRoster DEF Watches, Arriving, NoWriter
<1>2. shown[o][s] <= sseq[s] /\ (shown[o][s] = sseq[s] \/ s \in overtaken)
  BY <1>1, SilentWriters DEF PositionInv, Underway
<1>3. shown[o][s] \in Gone..MaxSeq /\ sseq[s] \in 0..MaxSeq
  BY DEF TypeOK, ClientTypes, RecordTypes
<1> QED BY <1>2, <1>3 DEF Gone

\* PositionsConverge: once every emission is out, what a receiver displays of
\* an avatar is where that avatar is, however moves, motion ticks, snapshots,
\* new-user messages and the renumbering in a new room were mixed; unless an
\* older position went out after the newest, and then it is a position the
\* avatar had since it came to the room.
THEOREM PositionsAreExact == Spec => []PositionsConverge
<1>1. /\ TypeOK /\ TaskInv /\ UniqueInv /\ LockInv /\ GhostInv /\ AdapterInv /\ RosterInv
      /\ EmitInv /\ PositionInv /\ [Next]_vars
      => /\ TypeOK' /\ TaskInv' /\ UniqueInv' /\ LockInv' /\ GhostInv' /\ AdapterInv' /\ RosterInv'
         /\ EmitInv' /\ PositionInv'
  BY StepTypes, StepUnique, StepLock, StepGhost, StepAdapter, StepRoster, StepPositions DEF QueuedNext
<1>2. Init => EmitInv /\ PositionInv
  BY DEF Init, EmitInv, Emitting, Broadcasting, PositionInv, SwitchInv, Watches
<1> QED BY <1>1, <1>2, PositionsSuffice, InitTypes, InitRoster, PTL DEF Spec

-----------------------------------------------------------------------------
(* Waiting in line adds behaviours to Spec only in that the queue is not    *)
(* empty.                                                                   *)

LEMMA InitClients ==
  Init => MotionInRoom /\ ClaimInv /\ AccessInv /\ EmitInv /\ PositionInv
  BY DEF Init, MotionInRoom, ClaimInv, AccessInv, EmitInv, Emitting, Broadcasting, PositionInv,
     SwitchInv, Watches

\* With the line of waiting writers, under which the liveness properties are
\* checked, all safety properties hold as well: that tokio's RwLock keeps
\* readers out while a writer waits takes no protection away.
THEOREM QueueIsSafe ==
  FairSpec => /\ [](/\ TypeOK /\ UniquePresence /\ NoGhostTraffic /\ AdapterAgreement /\ MotionInRoom
                    /\ OneIdentity /\ AccessAnswered /\ RosterExact /\ PositionsConverge)
              /\ NewestClaimWins
<1> DEFINE Held == /\ TypeOK /\ TaskInv /\ UniqueInv /\ LockInv /\ GhostInv /\ AdapterInv /\ MotionInRoom
                   /\ ClaimInv /\ IdentityInv /\ AccessInv /\ RosterInv /\ EmitInv /\ PositionInv
<1>1. Init => Held
  BY InitTypes, InitIdentity, InitRoster, InitClients
<1>2. Held /\ [QueuedNext]_vars => Held'
  <2> SUFFICES ASSUME Held, [QueuedNext]_vars PROVE Held'
    OBVIOUS
  <2>1. TypeOK' /\ TaskInv' /\ UniqueInv' /\ LockInv' /\ GhostInv' /\ AdapterInv'
    BY StepTypes, StepUnique, StepLock, StepGhost, StepAdapter
  <2>2. MotionInRoom' /\ ClaimInv' /\ IdentityInv' /\ AccessInv'
    BY StepMotion, StepClaim, StepIdentity, StepAccess
  <2>3. RosterInv' /\ EmitInv' /\ PositionInv'
    BY <2>1, StepRoster, StepPositions
  <2> QED BY <2>1, <2>2, <2>3
<1>3. Held => /\ TypeOK /\ UniquePresence /\ NoGhostTraffic /\ AdapterAgreement /\ MotionInRoom
              /\ OneIdentity /\ AccessAnswered /\ RosterExact /\ PositionsConverge
  <2>1. GhostInv /\ AdapterInv => NoGhostTraffic /\ AdapterAgreement
    BY DEF GhostInv, AboutToTell, NoGhostTraffic, AdapterInv, AdapterAgreement, Home
  <2>2. AccessInv => AccessAnswered
    BY DEF AccessInv, AccessAnswered, Answering, WillTell, Told
  <2> QED BY <2>1, <2>2, RosterSuffices, PositionsSuffice DEF UniqueInv, IdentityInv
<1>4. Held /\ [QueuedNext]_vars =>
        [\A s \in Sockets :
           room'[s] # room[s] /\ room'[s] # NoRoom =>
              /\ s \in known
              /\ \E t \in Tasks : EnteredBy(t, s)]_vars
  BY EntersByClaim
<1> HIDE DEF Held
<1> QED BY <1>1, <1>2, <1>3, <1>4, PTL DEF FairSpec, NewestClaimWins, EnteredBy
=============================================================================
