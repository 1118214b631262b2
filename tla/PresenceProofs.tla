--------------------------- MODULE PresenceProofs ---------------------------
(***************************************************************************)
(* What holds of Presence for any number of sockets, handlers, rooms and   *)
(* tokens.  Each invariant is proved preserved by QueuedNext, the steps of *)
(* Spec and of FairSpec, so it holds however the lock serves its waiters.  *)
(***************************************************************************)
EXTENDS Presence, TLAPS

USE NamesAssumption, BoundAssumption, RequestsAssumption

\* What a handler knows of its request once it has started.
TaskInv ==
    \A t \in Tasks :
        /\ pc[t] # "idle" => by[t] \in Sockets
        /\ pc[t] \in {"claim", "detach", "validate", "commit", "switch", "enter"} =>
                req[t].op = "join"
        /\ pc[t] \in {"user", "renew"} => req[t].op = "user"
        /\ pc[t] \in {"commit", "switch", "enter", "wallet", "answer"} => req[t].room \in Rooms
        /\ pc[t] = "leave" => req[t].room # NoRoom
        /\ pc[t] = "evict" => req[t].op \in {"join", "user"} /\ Target(t) \in Rooms
        /\ pc[t] \in {"say", "moved", "publish", "resolve", "renew"} => here[t] \in Rooms

LEMMA BlankType == Blank \in Request
  BY DEF Blank, Request, Ops

LEMMA InitTypes == Init => TypeOK /\ TaskInv
  BY BlankType DEF Init, TypeOK, TaskInv, RecordTypes, LockTypes, TaskTypes, ClientTypes,
     PCs, WriterPCs, ReaderPCs, Gone

Views == [Sockets -> [Sockets -> Gone..MaxSeq]]

LEMMA DisplayType ==
  ASSUME NEW view \in Views, NEW R, NEW s \in Sockets, NEW n \in 0..MaxSeq
  PROVE  Display(view, R, s, n) \in Views
  BY DEF Display, Views, Gone

LEMMA EraseType ==
  ASSUME NEW view \in Views, NEW R, NEW D
  PROVE  Erase(view, R, D) \in Views
  BY DEF Erase, Views, Gone

LEMMA OvertakenType ==
  ASSUME overtaken \subseteq Sockets, NEW s \in Sockets, NEW n
  PROVE  Overtaken(s, n) \subseteq Sockets
  BY DEF Overtaken

LEMMA OnDisconnectTypes == ASSUME TypeOK, TaskInv, NEW s \in Sockets, OnDisconnect(s) PROVE TypeOK' /\ TaskInv'
<1> USE DEF TypeOK
<1>1. RecordTypes'
  BY DEF OnDisconnect, RecordTypes
<1>2. LockTypes'
  BY DEF OnDisconnect, LockTypes, Acquire
<1>3. TaskTypes'
  BY DEF OnDisconnect, TaskTypes, PCs, WriterPCs, ReaderPCs, local
<1>4. ClientTypes'
  BY EraseType DEF OnDisconnect, ClientTypes, Views, Gone
<1>5. TaskInv'
  BY DEF OnDisconnect, TaskInv, TaskTypes, Target, PCs, WriterPCs, ReaderPCs, local
<1> QED BY <1>1, <1>2, <1>3, <1>4, <1>5

LEMMA SpawnTypes == ASSUME TypeOK, TaskInv, NEW t \in Tasks, NEW s \in Sockets, NEW q \in Requests, Spawn(t, s, q) PROVE TypeOK' /\ TaskInv'
<1> USE DEF TypeOK
<1>1. q \in Request /\ FirstPC(q.op) \in PCs
  BY DEF Request, Ops, FirstPC, PCs, WriterPCs, ReaderPCs
<1>2. RecordTypes'
  BY <1>1 DEF Spawn, RecordTypes, record
<1>3. LockTypes'
  BY <1>1 DEF Spawn, LockTypes, lock
<1>4. TaskTypes'
  BY <1>1 DEF Spawn, TaskTypes, PCs, WriterPCs, ReaderPCs
<1>5. ClientTypes'
  BY <1>1 DEF Spawn, ClientTypes, client
<1>6. TaskInv'
  BY <1>1 DEF Spawn, TaskInv, TaskTypes, Target, PCs, WriterPCs, ReaderPCs, FirstPC, Ops, Request
<1> QED BY <1>2, <1>3, <1>4, <1>5, <1>6

LEMMA JoinClaimTypes == ASSUME TypeOK, TaskInv, NEW t \in Tasks, JoinClaim(t) PROVE TypeOK' /\ TaskInv'
<1> USE DEF TypeOK
<1>1. by[t] \in Sockets /\ req[t].claim \in Nat /\ req[t].op = "join" /\ room[by[t]] \in Rooms \cup {NoRoom}
  BY DEF JoinClaim, TaskInv, TaskTypes, Request, RecordTypes
<1>2. RecordTypes'
  BY <1>1 DEF JoinClaim, RecordTypes
<1>3. LockTypes'
  BY <1>1 DEF JoinClaim, LockTypes, Acquire
<1>4. TaskTypes'
  BY <1>1 DEF JoinClaim, TaskTypes, PCs, WriterPCs, ReaderPCs, Proceed
<1>5. ClientTypes'
  BY <1>1 DEF JoinClaim, ClientTypes, Later
<1>6. TaskInv'
  BY <1>1 DEF JoinClaim, TaskInv, TaskTypes, Target, PCs, WriterPCs, ReaderPCs, Proceed
<1> QED BY <1>2, <1>3, <1>4, <1>5, <1>6

LEMMA DetachTypes == ASSUME TypeOK, TaskInv, NEW t \in Tasks, Detach(t) PROVE TypeOK' /\ TaskInv'
<1> USE DEF TypeOK
<1>1. by[t] \in Sockets
  BY DEF Detach, TaskInv
<1>2. RecordTypes'
  BY DEF Detach, RecordTypes, record
<1>3. LockTypes'
  BY <1>1 DEF Detach, LockTypes
<1>4. TaskTypes'
  BY BlankType DEF Detach, TaskTypes, PCs, WriterPCs, ReaderPCs, Proceed, Return
<1>5. ClientTypes'
  BY EraseType DEF Detach, ClientTypes, Views
<1>6. TaskInv'
  BY DEF Detach, TaskInv, TaskTypes, Target, PCs, WriterPCs, ReaderPCs, Proceed, Return
<1> QED BY <1>2, <1>3, <1>4, <1>5, <1>6

LEMMA JoinCommitTypes == ASSUME TypeOK, TaskInv, NEW t \in Tasks, JoinCommit(t) PROVE TypeOK' /\ TaskInv'
<1> USE DEF TypeOK
<1> DEFINE s == by[t]
           r == req[t].room
           D == Duplicates(s, r, ClaimedToken(t))
<1>1. s \in Sockets /\ r \in Rooms /\ D \subseteq Sockets /\ ClaimedToken(t) \in Tokens \cup {NoToken}
  BY DEF JoinCommit, TaskInv, TaskTypes, Request, RecordTypes, ClaimedToken, Duplicates, PCs, WriterPCs, ReaderPCs
<1>2. RecordTypes'
  BY <1>1 DEF JoinCommit, RecordTypes, Renumbered
<1>3. LockTypes'
  BY <1>1 DEF JoinCommit, LockTypes, Acquire
<1>4. TaskTypes'
  BY <1>1 DEF JoinCommit, TaskTypes, PCs, WriterPCs, ReaderPCs, Proceed, RecordTypes
<1>5. ClientTypes'
  BY <1>1 DEF JoinCommit, ClientTypes
<1>6. TaskInv'
  BY <1>1 DEF JoinCommit, TaskInv, TaskTypes, Target, PCs, WriterPCs, ReaderPCs, Proceed
<1> QED BY <1>2, <1>3, <1>4, <1>5, <1>6

LEMMA EvictTypes == ASSUME TypeOK, TaskInv, NEW t \in Tasks, Evict(t) PROVE TypeOK' /\ TaskInv'
<1> USE DEF TypeOK
<1>1. Target(t) \in Rooms
  BY DEF Evict, TaskInv
<1>2. RecordTypes'
  BY <1>1 DEF Evict, RecordTypes, record
<1>3. LockTypes'
  BY <1>1 DEF Evict, LockTypes, lock
<1>4. TaskTypes'
  BY <1>1 DEF Evict, TaskTypes, PCs, WriterPCs, ReaderPCs, local, Proceed
<1>5. ClientTypes'
  BY <1>1, EraseType DEF Evict, ClientTypes, Views, Gone
<1>6. TaskInv'
  BY <1>1 DEF Evict, TaskInv, TaskTypes, Target, PCs, WriterPCs, ReaderPCs, local, Proceed
<1> QED BY <1>2, <1>3, <1>4, <1>5, <1>6

LEMMA EnterTypes == ASSUME TypeOK, TaskInv, NEW t \in Tasks, Enter(t) PROVE TypeOK' /\ TaskInv'
<1> USE DEF TypeOK
<1>1. by[t] \in Sockets /\ req[t].room \in Rooms
  BY DEF Enter, TaskInv
<1>2. [shown EXCEPT ![by[t]] = [x \in Sockets |-> IF x \in Members(req[t].room) THEN sseq[x] ELSE Gone]] \in Views /\ sseq[by[t]] \in 0..MaxSeq
  BY DEF Enter, TaskInv, Views, ClientTypes, RecordTypes, Gone
<1>3. RecordTypes'
  BY <1>1, <1>2 DEF Enter, RecordTypes, record
<1>4. LockTypes'
  BY <1>1, <1>2 DEF Enter, LockTypes
<1>5. TaskTypes'
  BY <1>1, <1>2 DEF Enter, TaskTypes, PCs, WriterPCs, ReaderPCs, local, Proceed
<1>6. ClientTypes'
  BY <1>1, <1>2, DisplayType, OvertakenType DEF Enter, ClientTypes, Views
<1>7. TaskInv'
  BY <1>1, <1>2 DEF Enter, TaskInv, TaskTypes, Target, PCs, WriterPCs, ReaderPCs, local, Proceed
<1> QED BY <1>3, <1>4, <1>5, <1>6, <1>7

LEMMA LeaveTypes == ASSUME TypeOK, TaskInv, NEW t \in Tasks, Leave(t) PROVE TypeOK' /\ TaskInv'
<1> USE DEF TypeOK
<1>1. by[t] \in Sockets /\ req[t].claim \in Nat /\ room[by[t]] \in Rooms \cup {NoRoom}
  BY DEF Leave, TaskInv, TaskTypes, Request, RecordTypes
<1>2. RecordTypes'
  BY <1>1 DEF Leave, RecordTypes
<1>3. LockTypes'
  BY <1>1 DEF Leave, LockTypes, Acquire
<1>4. TaskTypes'
  BY <1>1, BlankType DEF Leave, TaskTypes, PCs, WriterPCs, ReaderPCs, Proceed, Return
<1>5. ClientTypes'
  BY <1>1 DEF Leave, ClientTypes, Later
<1>6. TaskInv'
  BY <1>1 DEF Leave, TaskInv, TaskTypes, Target, PCs, WriterPCs, ReaderPCs, Proceed, Return
<1> QED BY <1>2, <1>3, <1>4, <1>5, <1>6

LEMMA UserDataTypes == ASSUME TypeOK, TaskInv, NEW t \in Tasks, UserData(t) PROVE TypeOK' /\ TaskInv'
<1> USE DEF TypeOK
<1> DEFINE s == by[t]
           tk == IF req[t].token = KeepToken THEN token[s] ELSE req[t].token
           D == UserDuplicates(s, tk)
<1>1. s \in Sockets /\ room[s] \in Rooms \cup {NoRoom} /\ D \subseteq Sockets /\ tk \in Tokens \cup {NoToken} /\ req[t].named \in BOOLEAN
  BY DEF UserData, TaskInv, TaskTypes, Request, RecordTypes, UserDuplicates, Duplicates
<1>2. RecordTypes'
  BY <1>1 DEF UserData, RecordTypes
<1>3. LockTypes'
  BY <1>1 DEF UserData, LockTypes, Acquire
<1>4. TaskTypes'
  BY <1>1, BlankType DEF UserData, TaskTypes, PCs, WriterPCs, ReaderPCs, Proceed, Return
<1>5. ClientTypes'
  BY <1>1 DEF UserData, ClientTypes, client
<1>6. TaskInv'
  BY <1>1 DEF UserData, TaskInv, TaskTypes, Target, PCs, WriterPCs, ReaderPCs, Proceed, Return
<1> QED BY <1>2, <1>3, <1>4, <1>5, <1>6

LEMMA RenewTypes == ASSUME TypeOK, TaskInv, NEW t \in Tasks, Renew(t) PROVE TypeOK' /\ TaskInv'
<1> USE DEF TypeOK
<1>1. by[t] \in Sockets /\ sseq[by[t]] \in 0..MaxSeq
  BY DEF Renew, TaskInv, RecordTypes
<1>2. RecordTypes'
  BY <1>1 DEF Renew, RecordTypes, record
<1>3. LockTypes'
  BY <1>1 DEF Renew, LockTypes
<1>4. TaskTypes'
  BY <1>1, BlankType DEF Renew, TaskTypes, PCs, WriterPCs, ReaderPCs, Return
<1>5. ClientTypes'
  BY <1>1, DisplayType, OvertakenType DEF Renew, ClientTypes, Views
<1>6. TaskInv'
  BY <1>1 DEF Renew, TaskInv, TaskTypes, Target, PCs, WriterPCs, ReaderPCs, Return
<1> QED BY <1>2, <1>3, <1>4, <1>5, <1>6

LEMMA AuthenticateTypes == ASSUME TypeOK, TaskInv, NEW t \in Tasks, Authenticate(t) PROVE TypeOK' /\ TaskInv'
<1> USE DEF TypeOK
<1>1. by[t] \in Sockets /\ req[t].wallet \in Wallets /\ room[by[t]] \in Rooms \cup {NoRoom}
  BY DEF Authenticate, TaskInv, TaskTypes, Request, RecordTypes
<1>2. RecordTypes'
  BY <1>1 DEF Authenticate, RecordTypes, Rotated
<1>3. LockTypes'
  BY <1>1 DEF Authenticate, LockTypes, lock
<1>4. TaskTypes'
  BY <1>1, BlankType DEF Authenticate, TaskTypes, PCs, WriterPCs, ReaderPCs, Proceed, Return
<1>5. ClientTypes'
  BY <1>1 DEF Authenticate, ClientTypes, client
<1>6. TaskInv'
  BY <1>1 DEF Authenticate, TaskInv, TaskTypes, Target, PCs, WriterPCs, ReaderPCs, Proceed, Return
<1> QED BY <1>2, <1>3, <1>4, <1>5, <1>6

LEMMA PublishTypes == ASSUME TypeOK, TaskInv, NEW t \in Tasks, Publish(t) PROVE TypeOK' /\ TaskInv'
<1> USE DEF TypeOK
<1>1. by[t] \in Sockets /\ num[t] \in 0..MaxSeq /\ here[t] \in Rooms
  BY DEF Publish, TaskInv, TaskTypes
<1>2. RecordTypes'
  BY <1>1 DEF Publish, RecordTypes, record
<1>3. LockTypes'
  BY <1>1 DEF Publish, LockTypes
<1>4. TaskTypes'
  BY <1>1, BlankType DEF Publish, TaskTypes, PCs, WriterPCs, ReaderPCs, Return
<1>5. ClientTypes'
  <2>1. shown' \in [Sockets -> [Sockets -> Gone..MaxSeq]]
    BY <1>1, DisplayType DEF Publish, ClientTypes, Views
  <2>2. told' \in [Sockets -> SUBSET (Rooms \X (Wallets \cup {NoWallet}))]
    <3>1. <<here[t], who[t]>> \in Rooms \X (Wallets \cup {NoWallet})
      BY <1>1 DEF TaskTypes
    <3> QED BY <1>1, <3>1 DEF Publish, ClientTypes
  <2> QED BY <1>1, <2>1, <2>2, OvertakenType DEF Publish, ClientTypes
<1>6. TaskInv'
  BY <1>1 DEF Publish, TaskInv, TaskTypes, Target, PCs, WriterPCs, ReaderPCs, Return
<1> QED BY <1>2, <1>3, <1>4, <1>5, <1>6

LEMMA MoveTypes == ASSUME TypeOK, TaskInv, NEW t \in Tasks, Move(t) PROVE TypeOK' /\ TaskInv'
<1> USE DEF TypeOK
<1>1. by[t] \in Sockets /\ req[t].seq \in Nat /\ room[by[t]] \in Rooms /\ sseq[by[t]] + 1 \in 0..MaxSeq
  BY DEF Move, TaskInv, TaskTypes, Present, Request, RecordTypes
<1>2. RecordTypes'
  BY <1>1 DEF Move, RecordTypes
<1>3. LockTypes'
  BY <1>1 DEF Move, LockTypes
<1>4. TaskTypes'
  BY <1>1 DEF Move, TaskTypes, PCs, WriterPCs, ReaderPCs, Proceed
<1>5. ClientTypes'
  BY <1>1 DEF Move, ClientTypes, client
<1>6. TaskInv'
  BY <1>1 DEF Move, TaskInv, TaskTypes, Target, PCs, WriterPCs, ReaderPCs, Proceed
<1> QED BY <1>2, <1>3, <1>4, <1>5, <1>6

LEMMA MovedTypes == ASSUME TypeOK, TaskInv, NEW t \in Tasks, Moved(t) PROVE TypeOK' /\ TaskInv'
<1> USE DEF TypeOK
<1>1. by[t] \in Sockets /\ num[t] \in 0..MaxSeq
  BY DEF Moved, TaskInv, TaskTypes
<1>2. RecordTypes'
  BY <1>1 DEF Moved, RecordTypes, record
<1>3. LockTypes'
  BY <1>1 DEF Moved, LockTypes
<1>4. TaskTypes'
  BY <1>1, BlankType DEF Moved, TaskTypes, PCs, WriterPCs, ReaderPCs, Return
<1>5. ClientTypes'
  BY <1>1, DisplayType, OvertakenType DEF Moved, ClientTypes, Views
<1>6. TaskInv'
  BY <1>1 DEF Moved, TaskInv, TaskTypes, Target, PCs, WriterPCs, ReaderPCs, Return
<1> QED BY <1>2, <1>3, <1>4, <1>5, <1>6

LEMMA TickEmitTypes == ASSUME TypeOK, TaskInv, TickEmit PROVE TypeOK' /\ TaskInv'
<1> USE DEF TypeOK
<1>1. RecordTypes'
  BY DEF TickEmit, RecordTypes, record
<1>2. LockTypes'
  BY DEF TickEmit, LockTypes
<1>3. TaskTypes'
  BY DEF TickEmit, TaskTypes, PCs, WriterPCs, ReaderPCs, local
<1>4. ClientTypes'
  <2>1. PICK u \in batch : /\ shown' = Display(shown, Receivers(u.room), u.id, u.seq)
                           /\ overtaken' = Overtaken(u.id, u.seq)
    BY DEF TickEmit
  <2>2. u.id \in Sockets /\ u.seq \in 0..MaxSeq
    BY DEF LockTypes
  <2> QED BY <2>1, <2>2, DisplayType, OvertakenType DEF TickEmit, ClientTypes, Views
<1>5. TaskInv'
  BY DEF TickEmit, TaskInv, TaskTypes, Target, PCs, WriterPCs, ReaderPCs, local
<1> QED BY <1>1, <1>2, <1>3, <1>4, <1>5

LEMMA StepTypes == TypeOK /\ TaskInv /\ [QueuedNext]_vars => TypeOK' /\ TaskInv'
<1> SUFFICES ASSUME TypeOK, TaskInv, [QueuedNext]_vars PROVE TypeOK' /\ TaskInv'
  OBVIOUS
<1> USE BlankType DEF TypeOK, RecordTypes, LockTypes, TaskTypes, ClientTypes, PCs, WriterPCs, ReaderPCs,
        Target, Return, record, lock, local, client
<1>1. ASSUME NEW s \in Sockets, Open(s) PROVE TypeOK' /\ TaskInv'
  BY <1>1 DEF Open, TaskInv
<1>2. ASSUME NEW s \in Sockets, Register(s) PROVE TypeOK' /\ TaskInv'
  BY <1>2 DEF Register, TaskInv
<1>3. ASSUME NEW s \in Sockets, GoDown(s) PROVE TypeOK' /\ TaskInv'
  BY <1>3 DEF GoDown, TaskInv
<1>4. ASSUME NEW t \in Tasks, JoinOutdated(t) PROVE TypeOK' /\ TaskInv'
  BY <1>4 DEF JoinOutdated, Acquire, TaskInv
<1>5. ASSUME NEW t \in Tasks, JoinRefused(t) PROVE TypeOK' /\ TaskInv'
  BY <1>5 DEF JoinRefused, TaskInv
<1>6. ASSUME NEW t \in Tasks, JoinValidated(t) PROVE TypeOK' /\ TaskInv'
  BY <1>6 DEF JoinValidated, Proceed, TaskInv
<1>7. ASSUME NEW t \in Tasks, JoinSuperseded(t) PROVE TypeOK' /\ TaskInv'
  BY <1>7 DEF JoinSuperseded, Acquire, TaskInv
<1>8. ASSUME NEW t \in Tasks, Switch(t) PROVE TypeOK' /\ TaskInv'
  BY <1>8, EraseType DEF Views, Switch, Proceed, TaskInv, Gone
<1>9. ASSUME NEW t \in Tasks, JoinWallet(t) PROVE TypeOK' /\ TaskInv'
  BY <1>9 DEF JoinWallet, Proceed, TaskInv
<1>10. ASSUME NEW t \in Tasks, JoinAnswer(t) PROVE TypeOK' /\ TaskInv'
  BY <1>10 DEF JoinAnswer, TaskInv
<1>11. ASSUME NEW t \in Tasks, AuthFailed(t) \/ Dropped(t) PROVE TypeOK' /\ TaskInv'
  <2>1. CASE AuthFailed(t)
    BY <2>1 DEF AuthFailed, TaskInv
  <2>2. CASE Dropped(t)
    BY <2>2 DEF Dropped, TaskInv
  <2> QED BY <1>11, <2>1, <2>2
<1>12. ASSUME NEW t \in Tasks, LeaveOutdated(t) PROVE TypeOK' /\ TaskInv'
  BY <1>12 DEF LeaveOutdated, Acquire, TaskInv
<1>13. ASSUME NEW t \in Tasks, UserGone(t) PROVE TypeOK' /\ TaskInv'
  BY <1>13 DEF UserGone, Acquire, TaskInv
<1>14. ASSUME NEW t \in Tasks, Revalidate(t) PROVE TypeOK' /\ TaskInv'
  BY <1>14 DEF Revalidate, Proceed, TaskInv
<1>15. ASSUME NEW t \in Tasks, RoomChanged(t) PROVE TypeOK' /\ TaskInv'
  BY <1>15 DEF RoomChanged, TaskInv
<1>16. ASSUME NEW t \in Tasks, Chat(t) PROVE TypeOK' /\ TaskInv'
  BY <1>16 DEF Chat, Proceed, Present, TaskInv
<1>17. ASSUME NEW t \in Tasks, Say(t) PROVE TypeOK' /\ TaskInv'
  BY <1>17 DEF Say, TaskInv
<1>18. ASSUME NEW t \in Tasks, Goto(t) PROVE TypeOK' /\ TaskInv'
  BY <1>18 DEF Goto, TaskInv
<1>19. ASSUME Tick PROVE TypeOK' /\ TaskInv'
  BY <1>19 DEF Tick, Walking, TaskInv
<1>20. ASSUME NEW x \in Tasks \cup Sockets, StandInLine(x) PROVE TypeOK' /\ TaskInv'
  BY <1>20 DEF StandInLine, TaskInv
<1>21. ASSUME UNCHANGED vars PROVE TypeOK' /\ TaskInv'
  BY <1>21 DEF vars, TaskInv
<1> QED
  BY <1>1, <1>2, <1>3, <1>4, <1>5, <1>6, <1>7, <1>8, <1>9, <1>10, <1>11, <1>12, <1>13, <1>14, <1>15, <1>16, <1>17, <1>18, <1>19, <1>20, <1>21, AuthenticateTypes, DetachTypes, EnterTypes, EvictTypes, JoinClaimTypes, JoinCommitTypes, LeaveTypes, MoveTypes, MovedTypes, OnDisconnectTypes, PublishTypes, RenewTypes, SpawnTypes, TickEmitTypes, UserDataTypes
  DEF QueuedNext, Next, Handle, Join

\* The type invariant, whatever the events clients send and however many
\* handlers run: the records of ClientsState keep their types, a room a
\* record names is a valid space id, and move numbers stay within the bound.
THEOREM TypeCorrect == Spec => []TypeOK
<1>1. TypeOK /\ TaskInv /\ [Next]_vars => TypeOK' /\ TaskInv'
  BY StepTypes DEF QueuedNext
<1> QED BY <1>1, InitTypes, PTL DEF Spec

-----------------------------------------------------------------------------
(* One presence per token and room.  supersede_duplicate_presence evicts in *)
(* the same write of ClientsState.inner that makes the newcomer present or  *)
(* gives it its token, so the invariant needs no lock: what it needs is     *)
(* that only known sockets have a room.                                     *)

PresentIsKnown == \A s \in Sockets : room[s] # NoRoom => s \in known

UniqueInv == PresentIsKnown /\ UniquePresence

LEMMA JoinCommitUnique ==
  ASSUME TypeOK, TaskInv, UniqueInv, NEW t \in Tasks, JoinCommit(t) PROVE UniqueInv'
<1> DEFINE s == by[t]
           r == req[t].room
           D == Duplicates(s, r, ClaimedToken(t))
<1>1. s \in known /\ known \subseteq Sockets /\ known' = known
  BY DEF JoinCommit, ClaimIsCurrent, TypeOK, RecordTypes
<1>2. \A x \in Sockets : /\ room'[x] = IF x = s THEN r ELSE IF x \in D THEN NoRoom ELSE room[x]
                         /\ token'[x] = IF x = s THEN ClaimedToken(t) ELSE token[x]
  BY <1>1 DEF JoinCommit, TypeOK, RecordTypes
<1>3. PresentIsKnown'
  BY <1>1, <1>2 DEF UniqueInv, PresentIsKnown
<1>4. UniquePresence'
  BY <1>1, <1>2 DEF UniqueInv, UniquePresence, Duplicates
<1> QED BY <1>3, <1>4 DEF UniqueInv

LEMMA UserDataUnique ==
  ASSUME TypeOK, TaskInv, UniqueInv, NEW t \in Tasks, UserData(t) PROVE UniqueInv'
<1> DEFINE s == by[t]
           tk == IF req[t].token = KeepToken THEN token[s] ELSE req[t].token
           D == UserDuplicates(s, tk)
<1>1. s \in known /\ known \subseteq Sockets /\ known' = known
  BY DEF UserData, TypeOK, RecordTypes
<1>2. \A x \in Sockets : /\ room'[x] = IF x \in D THEN NoRoom ELSE room[x]
                         /\ token'[x] = IF x = s THEN tk ELSE token[x]
  BY <1>1 DEF UserData, TypeOK, RecordTypes
<1>3. PresentIsKnown'
  BY <1>1, <1>2 DEF UniqueInv, PresentIsKnown
<1>4. UniquePresence'
  BY <1>1, <1>2 DEF UniqueInv, UniquePresence, UserDuplicates, Duplicates
<1> QED BY <1>3, <1>4 DEF UniqueInv

\* The actions that change who is where.
LEMMA RoomChanges ==
  ASSUME [QueuedNext]_vars
  PROVE  \/ UNCHANGED <<known, room, token>>
         \/ \E s \in Sockets : Open(s) \/ OnDisconnect(s)
         \/ \E t \in Tasks : JoinClaim(t) \/ Leave(t) \/ JoinCommit(t) \/ UserData(t)
<1>1. ASSUME NEW t \in Tasks,
             \/ JoinOutdated(t) \/ JoinRefused(t) \/ JoinValidated(t) \/ JoinSuperseded(t)
             \/ Switch(t) \/ Evict(t) \/ Enter(t) \/ JoinWallet(t) \/ JoinAnswer(t)
      PROVE  UNCHANGED <<known, room, token>>
  BY <1>1 DEF JoinOutdated, JoinRefused, JoinValidated, JoinSuperseded, Switch, Evict, Enter,
     JoinWallet, JoinAnswer, record
<1>2. ASSUME NEW t \in Tasks,
             \/ Detach(t) \/ AuthFailed(t) \/ Dropped(t) \/ LeaveOutdated(t) \/ UserGone(t) \/ Renew(t)
             \/ Authenticate(t) \/ Revalidate(t) \/ RoomChanged(t) \/ Publish(t)
             \/ Chat(t) \/ Say(t) \/ Move(t) \/ Moved(t) \/ Goto(t)
      PROVE  UNCHANGED <<known, room, token>>
  BY <1>2 DEF Detach, AuthFailed, Dropped, LeaveOutdated, UserGone, Renew, Authenticate,
     Revalidate, RoomChanged, Publish, Chat, Say, Move, Moved, Goto, record
<1>3. ASSUME NEW s \in Sockets, Register(s) \/ GoDown(s) PROVE UNCHANGED <<known, room, token>>
  BY <1>3 DEF Register, GoDown, record
<1>4. ASSUME NEW t \in Tasks, NEW s \in Sockets, NEW q \in Requests, Spawn(t, s, q)
      PROVE  UNCHANGED <<known, room, token>>
  BY <1>4 DEF Spawn, record
<1>5. ASSUME \/ Tick \/ TickEmit \/ (\E x \in Tasks \cup Sockets : StandInLine(x))
             \/ UNCHANGED vars
      PROVE  UNCHANGED <<known, room, token>>
  BY <1>5 DEF Tick, TickEmit, StandInLine, vars, record
<1> QED BY <1>1, <1>2, <1>3, <1>4, <1>5 DEF QueuedNext, Next, Handle, Join

LEMMA StepUnique ==
  TypeOK /\ TaskInv /\ UniqueInv /\ [QueuedNext]_vars => UniqueInv'
<1> SUFFICES ASSUME TypeOK, TaskInv, UniqueInv, [QueuedNext]_vars PROVE UniqueInv'
  OBVIOUS
<1> USE DEF UniqueInv, PresentIsKnown, UniquePresence, TypeOK, RecordTypes
<1>1. ASSUME UNCHANGED <<known, room, token>> PROVE UniqueInv'
  BY <1>1
<1>2. ASSUME NEW s \in Sockets, Open(s) \/ OnDisconnect(s) PROVE UniqueInv'
  BY <1>2 DEF Open, OnDisconnect
<1>3. ASSUME NEW t \in Tasks, JoinClaim(t) \/ Leave(t) PROVE UniqueInv'
  <2>1. by[t] \in known /\ known' = known /\ token' = token
    BY <1>3 DEF JoinClaim, Leave, Noted
  <2>2. room' = room \/ room' = [room EXCEPT ![by[t]] = NoRoom]
    BY <1>3 DEF JoinClaim, Leave
  <2> QED BY <2>1, <2>2
<1> QED BY <1>1, <1>2, <1>3, JoinCommitUnique, UserDataUnique, RoomChanges

\* UniquePresence: a token is present at most once in a room, whatever joins,
\* user data updates and disconnects overlap.
THEOREM TokenUnique == Spec => []UniquePresence
<1>1. Init => UniqueInv
  BY DEF Init, UniqueInv, PresentIsKnown, UniquePresence
<1>2. TypeOK /\ TaskInv /\ UniqueInv /\ [Next]_vars => TypeOK' /\ TaskInv' /\ UniqueInv'
  BY StepTypes, StepUnique DEF QueuedNext
<1>3. UniqueInv => UniquePresence
  BY DEF UniqueInv
<1> QED BY <1>1, <1>2, <1>3, InitTypes, PTL DEF Spec

-----------------------------------------------------------------------------
(* The lock: who holds it is who is inside a critical section.              *)

LockInv ==
    /\ \A t \in Tasks : pc[t] \in WriterPCs <=> writer = t
    /\ \A t \in Tasks : pc[t] \in ReaderPCs <=> t \in readers
    /\ batch # {} <=> Loop \in readers
    /\ writer # Nobody => readers = {}

LEMMA StepLock == TypeOK /\ TaskInv /\ LockInv /\ [QueuedNext]_vars => LockInv'
<1> SUFFICES ASSUME TypeOK, TaskInv, LockInv, [QueuedNext]_vars PROVE LockInv'
  OBVIOUS
<1> USE DEF LockInv, TypeOK, TaskTypes, LockTypes, PCs, WriterPCs, ReaderPCs, lock, local,
        Proceed, Return, Acquire, CanRead, CanWrite, Unlocked, NoWriter
<1>1. ASSUME NEW s \in Sockets, Open(s) PROVE LockInv'
  BY <1>1 DEF Open
<1>2. ASSUME NEW s \in Sockets, Register(s) PROVE LockInv'
  BY <1>2 DEF Register
<1>3. ASSUME NEW s \in Sockets, GoDown(s) PROVE LockInv'
  BY <1>3 DEF GoDown
<1>4. ASSUME NEW s \in Sockets, OnDisconnect(s) PROVE LockInv'
  BY <1>4 DEF OnDisconnect
<1>5. ASSUME NEW t \in Tasks, NEW s \in Sockets, NEW q \in Requests, Spawn(t, s, q) PROVE LockInv'
  BY <1>5 DEF Spawn, FirstPC, Ops, Request
<1>6. ASSUME NEW t \in Tasks, JoinClaim(t) PROVE LockInv'
  BY <1>6 DEF JoinClaim
<1>7. ASSUME NEW t \in Tasks, JoinOutdated(t) PROVE LockInv'
  BY <1>7 DEF JoinOutdated
<1>8. ASSUME NEW t \in Tasks, Detach(t) PROVE LockInv'
  BY <1>8 DEF Detach
<1>9. ASSUME NEW t \in Tasks, JoinRefused(t) PROVE LockInv'
  BY <1>9 DEF JoinRefused
<1>10. ASSUME NEW t \in Tasks, JoinValidated(t) PROVE LockInv'
  BY <1>10 DEF JoinValidated
<1>11. ASSUME NEW t \in Tasks, JoinSuperseded(t) PROVE LockInv'
  BY <1>11 DEF JoinSuperseded
<1>12. ASSUME NEW t \in Tasks, Switch(t) PROVE LockInv'
  BY <1>12 DEF Switch
<1>13. ASSUME NEW t \in Tasks, Evict(t) PROVE LockInv'
  BY <1>13 DEF Evict, TaskInv
<1>14. ASSUME NEW t \in Tasks, Enter(t) PROVE LockInv'
  BY <1>14 DEF Enter
<1>15. ASSUME NEW t \in Tasks, JoinWallet(t) PROVE LockInv'
  BY <1>15 DEF JoinWallet
<1>16. ASSUME NEW t \in Tasks, JoinAnswer(t) PROVE LockInv'
  BY <1>16 DEF JoinAnswer
<1>17. ASSUME NEW t \in Tasks, AuthFailed(t) \/ Dropped(t) PROVE LockInv'
  BY <1>17 DEF AuthFailed, Dropped
<1>18. ASSUME NEW t \in Tasks, Leave(t) PROVE LockInv'
  BY <1>18 DEF Leave
<1>19. ASSUME NEW t \in Tasks, LeaveOutdated(t) PROVE LockInv'
  BY <1>19 DEF LeaveOutdated
<1>20. ASSUME NEW t \in Tasks, UserData(t) PROVE LockInv'
  BY <1>20 DEF UserData
<1>21. ASSUME NEW t \in Tasks, UserGone(t) PROVE LockInv'
  BY <1>21 DEF UserGone
<1>22. ASSUME NEW t \in Tasks, Renew(t) PROVE LockInv'
  BY <1>22 DEF Renew
<1>23. ASSUME NEW t \in Tasks, Authenticate(t) PROVE LockInv'
  BY <1>23 DEF Authenticate
<1>24. ASSUME NEW t \in Tasks, Revalidate(t) PROVE LockInv'
  BY <1>24 DEF Revalidate
<1>25. ASSUME NEW t \in Tasks, RoomChanged(t) PROVE LockInv'
  BY <1>25 DEF RoomChanged
<1>26. ASSUME NEW t \in Tasks, Publish(t) PROVE LockInv'
  BY <1>26 DEF Publish
<1>27. ASSUME NEW t \in Tasks, Chat(t) PROVE LockInv'
  BY <1>27 DEF Chat
<1>28. ASSUME NEW t \in Tasks, Say(t) PROVE LockInv'
  BY <1>28 DEF Say
<1>29. ASSUME NEW t \in Tasks, Move(t) PROVE LockInv'
  BY <1>29 DEF Move
<1>30. ASSUME NEW t \in Tasks, Moved(t) PROVE LockInv'
  BY <1>30 DEF Moved
<1>31. ASSUME NEW t \in Tasks, Goto(t) PROVE LockInv'
  BY <1>31 DEF Goto
<1>32. ASSUME Tick PROVE LockInv'
  <2>1. PICK s \in Walking : TRUE
    BY <1>32 DEF Tick
  <2>2. [id |-> s, room |-> room[s], seq |-> sseq[s] + 1] \in batch'
    BY <1>32, <2>1 DEF Tick
  <2>3. /\ pc' = pc /\ writer' = writer /\ writer = Nobody
        /\ readers' = readers \cup {Loop}
    BY <1>32 DEF Tick
  <2> QED BY <2>2, <2>3
<1>33. ASSUME TickEmit PROVE LockInv'
  <2>1. PICK u \in batch : /\ batch' = batch \ {u}
                            /\ readers' = IF batch = {u} THEN readers \ {Loop} ELSE readers
    BY <1>33 DEF TickEmit
  <2>2. batch' = {} <=> batch = {u}
    BY <2>1
  <2>3. pc' = pc /\ writer' = writer /\ Loop \in readers
    BY <1>33, <2>1 DEF TickEmit
  <2>4. \A t \in Tasks : t \in readers' <=> t \in readers
    BY <2>1
  <2>5. batch' # {} <=> Loop \in readers'
    BY <2>1, <2>2, <2>3
  <2>6. writer' # Nobody => readers' = {}
    BY <2>1, <2>3
  <2> QED BY <2>3, <2>4, <2>5, <2>6
<1>34. ASSUME NEW x \in Tasks \cup Sockets, StandInLine(x) PROVE LockInv'
  BY <1>34 DEF StandInLine
<1>35. ASSUME NEW t \in Tasks, JoinCommit(t) PROVE LockInv'
  BY <1>35 DEF JoinCommit
<1>36. ASSUME UNCHANGED vars PROVE LockInv'
  BY <1>36 DEF vars
<1> QED
  BY <1>1, <1>2, <1>3, <1>4, <1>5, <1>6, <1>7, <1>8, <1>9, <1>10, <1>11, <1>12, <1>13, <1>14, <1>15, <1>16, <1>17, <1>18, <1>19, <1>20, <1>21, <1>22, <1>23, <1>24, <1>25, <1>26, <1>27, <1>28, <1>29, <1>30, <1>31, <1>32, <1>33, <1>34, <1>35, <1>36 DEF QueuedNext, Next, Handle, Join

-----------------------------------------------------------------------------
(* No ghost traffic.  A broadcast that is still to come finds its socket in *)
(* the room that was read for it, because whoever changes a room holds the  *)
(* lock alone.                                                              *)

AboutToTell(t) ==
    \/ pc[t] \in {"say", "moved", "publish", "renew"}
    \/ pc[t] = "evict" /\ req[t].op = "user"

GhostInv ==
    /\ \A t \in Tasks : AboutToTell(t) => room[by[t]] = here[t]
    /\ \A u \in batch : room[u.id] = u.room

\* Nobody is about to tell anything while the lock is free.
LEMMA NobodyTells ==
  ASSUME LockInv, Unlocked
  PROVE  batch = {} /\ \A t \in Tasks : ~ AboutToTell(t)
  BY DEF LockInv, Unlocked, NoWriter, AboutToTell, WriterPCs, ReaderPCs

LEMMA StepGhost ==
  TypeOK /\ TaskInv /\ LockInv /\ GhostInv /\ [QueuedNext]_vars => GhostInv'
<1> SUFFICES ASSUME TypeOK, TaskInv, LockInv, GhostInv, [QueuedNext]_vars PROVE GhostInv'
  OBVIOUS
<1> USE DEF GhostInv, AboutToTell, TypeOK, TaskTypes, record, lock, local, Proceed, Return
<1>1. ASSUME NEW s \in Sockets, Open(s) PROVE GhostInv'
  BY <1>1 DEF Open
<1>2. ASSUME NEW s \in Sockets, Register(s) PROVE GhostInv'
  BY <1>2 DEF Register
<1>3. ASSUME NEW s \in Sockets, GoDown(s) PROVE GhostInv'
  BY <1>3 DEF GoDown
<1>4. ASSUME NEW s \in Sockets, OnDisconnect(s) PROVE GhostInv'
  BY <1>4, NobodyTells DEF OnDisconnect, CanWrite, RecordTypes, TaskInv
<1>5. ASSUME NEW t \in Tasks, NEW s \in Sockets, NEW q \in Requests, Spawn(t, s, q) PROVE GhostInv'
  BY <1>5 DEF Spawn, FirstPC, Ops, Request
<1>6. ASSUME NEW t \in Tasks, JoinClaim(t) PROVE GhostInv'
  BY <1>6, NobodyTells DEF JoinClaim, CanWrite, RecordTypes, TaskInv
<1>7. ASSUME NEW t \in Tasks, JoinOutdated(t) PROVE GhostInv'
  BY <1>7, NobodyTells DEF JoinOutdated, CanWrite
<1>8. ASSUME NEW t \in Tasks, Detach(t) PROVE GhostInv'
  BY <1>8 DEF Detach
<1>9. ASSUME NEW t \in Tasks, JoinRefused(t) PROVE GhostInv'
  BY <1>9 DEF JoinRefused
<1>10. ASSUME NEW t \in Tasks, JoinValidated(t) PROVE GhostInv'
  BY <1>10 DEF JoinValidated
<1>11. ASSUME NEW t \in Tasks, JoinSuperseded(t) PROVE GhostInv'
  BY <1>11, NobodyTells DEF JoinSuperseded, CanWrite
<1>12. ASSUME NEW t \in Tasks, Switch(t) PROVE GhostInv'
  BY <1>12 DEF Switch, TaskInv
<1>13. ASSUME NEW t \in Tasks, Evict(t) PROVE GhostInv'
  BY <1>13 DEF Evict, TaskInv
<1>14. ASSUME NEW t \in Tasks, Enter(t) PROVE GhostInv'
  BY <1>14 DEF Enter
<1>15. ASSUME NEW t \in Tasks, JoinWallet(t) PROVE GhostInv'
  BY <1>15 DEF JoinWallet
<1>16. ASSUME NEW t \in Tasks, JoinAnswer(t) PROVE GhostInv'
  BY <1>16 DEF JoinAnswer
<1>17. ASSUME NEW t \in Tasks, AuthFailed(t) \/ Dropped(t) PROVE GhostInv'
  BY <1>17 DEF AuthFailed, Dropped
<1>18. ASSUME NEW t \in Tasks, Leave(t) PROVE GhostInv'
  BY <1>18, NobodyTells DEF Leave, CanWrite, RecordTypes, TaskInv
<1>19. ASSUME NEW t \in Tasks, LeaveOutdated(t) PROVE GhostInv'
  BY <1>19, NobodyTells DEF LeaveOutdated, CanWrite
<1>20. ASSUME NEW t \in Tasks, UserData(t) PROVE GhostInv'
  BY <1>20, NobodyTells DEF UserData, CanWrite, RecordTypes, TaskInv, UserDuplicates, Duplicates, RecordTypes
<1>21. ASSUME NEW t \in Tasks, UserGone(t) PROVE GhostInv'
  BY <1>21, NobodyTells DEF UserGone, CanWrite
<1>22. ASSUME NEW t \in Tasks, Renew(t) PROVE GhostInv'
  BY <1>22 DEF Renew
<1>23. ASSUME NEW t \in Tasks, Authenticate(t) PROVE GhostInv'
  BY <1>23 DEF Authenticate
<1>24. ASSUME NEW t \in Tasks, Revalidate(t) PROVE GhostInv'
  BY <1>24 DEF Revalidate
<1>25. ASSUME NEW t \in Tasks, RoomChanged(t) PROVE GhostInv'
  BY <1>25 DEF RoomChanged
<1>26. ASSUME NEW t \in Tasks, Publish(t) PROVE GhostInv'
  BY <1>26 DEF Publish
<1>27. ASSUME NEW t \in Tasks, Chat(t) PROVE GhostInv'
  BY <1>27 DEF Chat
<1>28. ASSUME NEW t \in Tasks, Say(t) PROVE GhostInv'
  BY <1>28 DEF Say
<1>29. ASSUME NEW t \in Tasks, Move(t) PROVE GhostInv'
  BY <1>29 DEF Move
<1>30. ASSUME NEW t \in Tasks, Moved(t) PROVE GhostInv'
  BY <1>30 DEF Moved
<1>31. ASSUME NEW t \in Tasks, Goto(t) PROVE GhostInv'
  BY <1>31 DEF Goto
<1>32. ASSUME Tick PROVE GhostInv'
  BY <1>32 DEF Tick, LockTypes, Walking
<1>33. ASSUME TickEmit PROVE GhostInv'
  BY <1>33 DEF TickEmit
<1>34. ASSUME NEW x \in Tasks \cup Sockets, StandInLine(x) PROVE GhostInv'
  BY <1>34 DEF StandInLine
<1>35. ASSUME NEW t \in Tasks, JoinCommit(t) PROVE GhostInv'
  BY <1>35, NobodyTells DEF JoinCommit, CanWrite, RecordTypes, TaskInv
<1>36. ASSUME UNCHANGED vars PROVE GhostInv'
  BY <1>36 DEF vars
<1> QED
  BY <1>1, <1>2, <1>3, <1>4, <1>5, <1>6, <1>7, <1>8, <1>9, <1>10, <1>11, <1>12, <1>13, <1>14, <1>15, <1>16, <1>17, <1>18, <1>19, <1>20, <1>21, <1>22, <1>23, <1>24, <1>25, <1>26, <1>27, <1>28, <1>29, <1>30, <1>31, <1>32, <1>33, <1>34, <1>35, <1>36
  DEF QueuedNext, Next, Handle, Join

\* NoGhostTraffic: no chat message, move, new-user event or motion update goes
\* to a room that its socket has left since the room was read, and none after
\* a supersede, a leave, a newer join or a disconnect.
THEOREM GhostFree == Spec => []NoGhostTraffic
<1>1. Init => LockInv /\ GhostInv
  BY DEF Init, LockInv, GhostInv, AboutToTell, WriterPCs, ReaderPCs
<1>2. TypeOK /\ TaskInv /\ LockInv /\ GhostInv /\ [Next]_vars
        => TypeOK' /\ TaskInv' /\ LockInv' /\ GhostInv'
  BY StepTypes, StepLock, StepGhost DEF QueuedNext
<1>3. GhostInv => NoGhostTraffic
  BY DEF GhostInv, AboutToTell, NoGhostTraffic
<1> QED BY <1>1, <1>2, <1>3, InitTypes, PTL DEF Spec

-----------------------------------------------------------------------------
(* Records and adapter agree.  Inside a critical section they do not, so    *)
(* the invariant says how far the writer has come.                          *)

Home(s) == IF room[s] = NoRoom THEN {} ELSE {room[s]}

\* The adapter rooms of s while the task t holds the write lock.
Midway(t, s) ==
    CASE pc[t] \in {"detach", "left"} ->
            joined[s] = IF s = by[t] THEN {here[t]} ELSE Home(s)
      [] pc[t] = "switch" ->
            joined[s] = IF s = by[t] THEN {here[t]}
                        ELSE IF s \in dups[t] THEN {Target(t)} ELSE Home(s)
      [] pc[t] = "evict" ->
            IF s = by[t] /\ req[t].op = "join" THEN joined[s] \subseteq {Target(t)}
            ELSE joined[s] = IF s \in dups[t] THEN {Target(t)} ELSE Home(s)
      [] pc[t] = "enter" ->
            IF s = by[t] THEN joined[s] \subseteq {req[t].room} ELSE joined[s] = Home(s)
      [] OTHER -> joined[s] = Home(s)

\* What the writer knows of the records it changed.
Progress(t) ==
    /\ pc[t] \in {"detach", "left"} => room[by[t]] = NoRoom
    /\ pc[t] \in {"switch", "enter"} \/ (pc[t] = "evict" /\ req[t].op = "join")
            => room[by[t]] = req[t].room
    /\ pc[t] \in {"switch", "evict"} =>
            by[t] \notin dups[t] /\ \A d \in dups[t] : room[d] = NoRoom

AdapterInv ==
    /\ NoWriter => \A s \in Sockets : joined[s] = Home(s)
    /\ \A t \in Tasks : writer = t => Progress(t) /\ \A s \in Sockets : Midway(t, s)

\* A task that does not hold the lock only changes its own locals.
LEMMA AdapterFrame ==
  ASSUME TypeOK, AdapterInv, NEW t \in Tasks, writer # t,
         UNCHANGED <<writer, room, joined>>,
         \A u \in Tasks \ {t} : /\ pc'[u] = pc[u] /\ by'[u] = by[u] /\ req'[u] = req[u]
                                /\ here'[u] = here[u] /\ dups'[u] = dups[u]
  PROVE  AdapterInv'
<1>1. ASSUME NEW u \in Tasks, writer' = u PROVE Progress(u)' /\ \A s \in Sockets : Midway(u, s)'
  <2>1. u \in Tasks \ {t} /\ writer = u
    BY <1>1
  <2>2. Progress(u) /\ \A s \in Sockets : Midway(u, s)
    BY <2>1 DEF AdapterInv
  <2>3. Progress(u)'
    BY <2>1, <2>2 DEF Progress
  <2>4. ASSUME NEW s \in Sockets PROVE Midway(u, s)'
    BY <2>1, <2>2 DEF Midway, Home, Target
  <2> QED BY <2>3, <2>4
<1>2. NoWriter' => \A s \in Sockets : joined'[s] = Home(s)'
  BY DEF AdapterInv, NoWriter, Home
<1> QED BY <1>1, <1>2 DEF AdapterInv

LEMMA OnDisconnectAdapter ==
  ASSUME TypeOK, AdapterInv, NEW s \in Sockets, OnDisconnect(s) PROVE AdapterInv'
<1>1. writer' = Nobody /\ \A x \in Sockets : joined[x] = Home(x)
  BY DEF OnDisconnect, CanWrite, Unlocked, NoWriter, AdapterInv
<1>2. \A x \in Sockets : /\ joined'[x] = IF x = s THEN {} ELSE joined[x]
                         /\ room'[x] = IF x = s THEN NoRoom ELSE room[x]
  BY DEF OnDisconnect, TypeOK, RecordTypes, LockTypes
<1> QED BY <1>1, <1>2 DEF AdapterInv, NoWriter, Home

LEMMA DetachAdapter ==
  ASSUME TypeOK, TaskInv, LockInv, AdapterInv, NEW t \in Tasks, Detach(t) PROVE AdapterInv'
<1>1. writer = t /\ writer' = Nobody /\ by[t] \in Sockets /\ room[by[t]] = NoRoom /\ room' = room
  BY DEF Detach, LockInv, WriterPCs, TaskInv, AdapterInv, Progress, record
<1>2. \A x \in Sockets : joined[x] = IF x = by[t] THEN {here[t]} ELSE Home(x)
  BY <1>1 DEF Detach, AdapterInv, Midway
<1>3. \A x \in Sockets : joined'[x] = IF x = by[t] THEN {} ELSE joined[x]
  BY <1>1, <1>2 DEF Detach, TypeOK, LockTypes
<1> QED BY <1>1, <1>2, <1>3 DEF AdapterInv, NoWriter, Home

LEMMA SwitchAdapter ==
  ASSUME TypeOK, TaskInv, LockInv, AdapterInv, NEW t \in Tasks, Switch(t) PROVE AdapterInv'
<1>1. /\ writer = t /\ writer' = t /\ by[t] \in Sockets /\ room' = room
      /\ req[t].op = "join" /\ room[by[t]] = req[t].room /\ by[t] \notin dups[t]
      /\ \A d \in dups[t] : room[d] = NoRoom
      /\ UNCHANGED <<by, req, here, dups>>
  BY DEF Switch, LockInv, WriterPCs, TaskInv, AdapterInv, Progress, record, lock, local
<1>2. \A x \in Sockets : joined[x] = IF x = by[t] THEN {here[t]}
                                     ELSE IF x \in dups[t] THEN {Target(t)} ELSE Home(x)
  BY <1>1 DEF Switch, AdapterInv, Midway
<1>3. \A x \in Sockets : joined'[x] = IF x = by[t] THEN {} ELSE joined[x]
  BY <1>1, <1>2 DEF Switch, TypeOK, LockTypes
<1>4. pc'[t] = IF dups[t] # {} THEN "evict" ELSE "enter"
  BY DEF Switch, Proceed, TypeOK, TaskTypes
<1>5. Progress(t)'
  BY <1>1, <1>4 DEF Progress
<1>6. ASSUME NEW x \in Sockets PROVE Midway(t, x)'
  BY <1>1, <1>2, <1>3, <1>4 DEF Midway, Home, Target
<1> QED BY <1>1, <1>5, <1>6 DEF AdapterInv, NoWriter

LEMMA EvictAdapter ==
  ASSUME TypeOK, TaskInv, LockInv, AdapterInv, NEW t \in Tasks, Evict(t) PROVE AdapterInv'
<1>1. /\ writer = t /\ writer' = t /\ by[t] \in Sockets /\ room' = room
      /\ by[t] \notin dups[t] /\ \A d \in dups[t] : room[d] = NoRoom
      /\ req[t].op = "join" => room[by[t]] = req[t].room
      /\ UNCHANGED <<by, req, here, dups>>
  BY DEF Evict, LockInv, WriterPCs, TaskInv, AdapterInv, Progress, record, lock, local
<1>2. \A x \in Sockets :
        IF x = by[t] /\ req[t].op = "join" THEN joined[x] \subseteq {Target(t)}
        ELSE joined[x] = IF x \in dups[t] THEN {Target(t)} ELSE Home(x)
  BY <1>1 DEF Evict, AdapterInv, Midway
<1>3. \A x \in Sockets : joined'[x] = IF x \in dups[t] THEN joined[x] \ {Target(t)} ELSE joined[x]
  BY DEF Evict
<1>4. pc'[t] = IF req[t].op = "join" THEN "enter" ELSE "renew"
  BY DEF Evict, Proceed, TypeOK, TaskTypes
<1>5. Progress(t)'
  BY <1>1, <1>4 DEF Progress
<1>6. ASSUME NEW x \in Sockets PROVE Midway(t, x)'
  BY <1>1, <1>2, <1>3, <1>4 DEF Midway, Home, Target
<1> QED BY <1>1, <1>5, <1>6 DEF AdapterInv, NoWriter

LEMMA EnterAdapter ==
  ASSUME TypeOK, TaskInv, LockInv, AdapterInv, NEW t \in Tasks, Enter(t) PROVE AdapterInv'
<1>1. /\ writer = t /\ writer' = Nobody /\ by[t] \in Sockets /\ room' = room
      /\ req[t].room \in Rooms /\ room[by[t]] = req[t].room
  BY DEF Enter, LockInv, WriterPCs, TaskInv, AdapterInv, Progress, record
<1>2. \A x \in Sockets : IF x = by[t] THEN joined[x] \subseteq {req[t].room} ELSE joined[x] = Home(x)
  BY <1>1 DEF Enter, AdapterInv, Midway
<1>3. \A x \in Sockets : joined'[x] = IF x = by[t] THEN joined[x] \cup {req[t].room} ELSE joined[x]
  BY <1>1 DEF Enter, TypeOK, LockTypes
<1>4. joined'[by[t]] = {req[t].room}
  BY <1>1, <1>2, <1>3
<1>5. \A x \in Sockets : joined'[x] = Home(x)'
  BY <1>1, <1>2, <1>3, <1>4 DEF Home
<1> QED BY <1>1, <1>5 DEF AdapterInv, NoWriter

LEMMA LeaveAdapter ==
  ASSUME TypeOK, TaskInv, LockInv, AdapterInv, NEW t \in Tasks, Leave(t) PROVE AdapterInv'
<1>1. /\ by[t] \in Sockets /\ writer = Nobody /\ joined' = joined /\ by'[t] \in {by[t], Nobody}
      /\ \A x \in Sockets : joined[x] = Home(x)
  BY DEF Leave, CanWrite, Unlocked, NoWriter, TaskInv, AdapterInv, Return, TypeOK, TaskTypes
<1>2. CASE room[by[t]] = req[t].room
  <2>1. /\ writer' = t /\ by' = by /\ pc'[t] = "left" /\ here'[t] = room[by[t]]
        /\ \A x \in Sockets : room'[x] = IF x = by[t] THEN NoRoom ELSE room[x]
    BY <1>1, <1>2 DEF Leave, Proceed, TypeOK, TaskTypes, RecordTypes
  <2>2. Progress(t)'
    BY <1>1, <2>1 DEF Progress
  <2>3. room[by[t]] # NoRoom
    BY <1>2 DEF Leave, TaskInv
  <2>4. ASSUME NEW x \in Sockets PROVE Midway(t, x)'
    BY <1>1, <2>1, <2>3 DEF Midway, Home
  <2> QED BY <2>1, <2>2, <2>4 DEF AdapterInv, NoWriter
<1>3. CASE room[by[t]] # req[t].room
  BY <1>1, <1>3 DEF Leave, AdapterInv, NoWriter, Home
<1> QED BY <1>2, <1>3

LEMMA UserDataAdapter ==
  ASSUME TypeOK, TaskInv, LockInv, AdapterInv, NEW t \in Tasks, UserData(t) PROVE AdapterInv'
<1> DEFINE s == by[t]
           tk == IF req[t].token = KeepToken THEN token[s] ELSE req[t].token
           D == UserDuplicates(s, tk)
<1>1. /\ s \in Sockets /\ writer = Nobody /\ joined' = joined /\ req[t].op = "user"
      /\ \A x \in Sockets : joined[x] = Home(x)
  BY DEF UserData, CanWrite, Unlocked, NoWriter, TaskInv, AdapterInv
<1>2. \A x \in Sockets : room'[x] = IF x \in D THEN NoRoom ELSE room[x]
  BY DEF UserData
<1>3. CASE room[s] = NoRoom
  <2>1. D = {} /\ writer' = Nobody
    BY <1>1, <1>3 DEF UserData, UserDuplicates
  <2> QED BY <1>1, <1>2, <2>1 DEF AdapterInv, NoWriter, Home
<1>4. CASE room[s] # NoRoom
  <2>1. s \notin D /\ \A d \in D : d \in Sockets /\ room[d] = room[s]
    BY <1>4 DEF UserDuplicates, Duplicates, TypeOK, RecordTypes
  <2>2. /\ writer' = t /\ by' = by /\ req' = req /\ here'[t] = room[s] /\ dups'[t] = D
        /\ pc'[t] = IF D # {} THEN "evict" ELSE "renew"
    BY <1>4 DEF UserData, Proceed, TypeOK, TaskTypes
  <2>3. Progress(t)'
    BY <1>1, <1>2, <2>1, <2>2 DEF Progress
  <2>4. ASSUME NEW x \in Sockets PROVE Midway(t, x)'
    BY <1>1, <1>2, <1>4, <2>1, <2>2 DEF Midway, Home, Target
  <2> QED BY <2>2, <2>3, <2>4 DEF AdapterInv, NoWriter
<1> QED BY <1>3, <1>4

LEMMA AuthenticateAdapter ==
  ASSUME TypeOK, TaskInv, LockInv, AdapterInv, NEW t \in Tasks, Authenticate(t) PROVE AdapterInv'
<1>1. writer # t
  BY DEF Authenticate, LockInv, WriterPCs
<1>2. \A u \in Tasks \ {t} : /\ pc'[u] = pc[u] /\ by'[u] = by[u] /\ req'[u] = req[u]
                             /\ here'[u] = here[u] /\ dups'[u] = dups[u]
  BY DEF Authenticate, Proceed, Return, TypeOK, TaskTypes
<1> QED BY <1>1, <1>2, AdapterFrame DEF Authenticate, lock

LEMMA StepAdapter ==
  TypeOK /\ TaskInv /\ LockInv /\ AdapterInv /\ [QueuedNext]_vars => AdapterInv'
<1> SUFFICES ASSUME TypeOK, TaskInv, LockInv, AdapterInv, [QueuedNext]_vars PROVE AdapterInv'
  OBVIOUS
<1> USE DEF AdapterInv, Home, Midway, Progress, NoWriter, Target, TypeOK, TaskTypes, LockTypes,
        RecordTypes, record, lock, local, Proceed, Return
<1>1. ASSUME NEW s \in Sockets, Open(s) PROVE AdapterInv'
  BY <1>1 DEF Open
<1>2. ASSUME NEW s \in Sockets, Register(s) PROVE AdapterInv'
  BY <1>2 DEF Register
<1>3. ASSUME NEW s \in Sockets, GoDown(s) PROVE AdapterInv'
  BY <1>3 DEF GoDown
<1>4. ASSUME NEW s \in Sockets, OnDisconnect(s) PROVE AdapterInv'
  BY <1>4, OnDisconnectAdapter
<1>5. ASSUME NEW t \in Tasks, NEW s \in Sockets, NEW q \in Requests, Spawn(t, s, q) PROVE AdapterInv'
  BY <1>5 DEF Spawn, FirstPC, Ops, Request, LockInv, WriterPCs
<1>6. ASSUME NEW t \in Tasks, JoinClaim(t) PROVE AdapterInv'
  BY <1>6 DEF JoinClaim, CanWrite, Unlocked, TaskInv
<1>7. ASSUME NEW t \in Tasks, JoinOutdated(t) PROVE AdapterInv'
  BY <1>7 DEF JoinOutdated, CanWrite, Unlocked
<1>8. ASSUME NEW t \in Tasks, Detach(t) PROVE AdapterInv'
  BY <1>8, DetachAdapter
<1>9. ASSUME NEW t \in Tasks, JoinRefused(t) PROVE AdapterInv'
  BY <1>9 DEF JoinRefused, LockInv, WriterPCs
<1>10. ASSUME NEW t \in Tasks, JoinValidated(t) PROVE AdapterInv'
  BY <1>10 DEF JoinValidated, LockInv, WriterPCs
<1>11. ASSUME NEW t \in Tasks, JoinSuperseded(t) PROVE AdapterInv'
  BY <1>11 DEF JoinSuperseded, CanWrite, Unlocked
<1>12. ASSUME NEW t \in Tasks, Switch(t) PROVE AdapterInv'
  BY <1>12, SwitchAdapter
<1>13. ASSUME NEW t \in Tasks, Evict(t) PROVE AdapterInv'
  BY <1>13, EvictAdapter
<1>14. ASSUME NEW t \in Tasks, Enter(t) PROVE AdapterInv'
  BY <1>14, EnterAdapter
<1>15. ASSUME NEW t \in Tasks, JoinWallet(t) PROVE AdapterInv'
  BY <1>15 DEF JoinWallet, LockInv, WriterPCs
<1>16. ASSUME NEW t \in Tasks, JoinAnswer(t) PROVE AdapterInv'
  BY <1>16 DEF JoinAnswer, LockInv, WriterPCs
<1>17. ASSUME NEW t \in Tasks, AuthFailed(t) \/ Dropped(t) PROVE AdapterInv'
  <2>1. CASE AuthFailed(t)
    BY <2>1 DEF AuthFailed, LockInv, WriterPCs
  <2>2. CASE Dropped(t)
    BY <2>2 DEF Dropped, LockInv, WriterPCs
  <2> QED BY <1>17, <2>1, <2>2
<1>18. ASSUME NEW t \in Tasks, Leave(t) PROVE AdapterInv'
  BY <1>18, LeaveAdapter
<1>19. ASSUME NEW t \in Tasks, LeaveOutdated(t) PROVE AdapterInv'
  BY <1>19 DEF LeaveOutdated, CanWrite, Unlocked
<1>20. ASSUME NEW t \in Tasks, UserData(t) PROVE AdapterInv'
  BY <1>20, UserDataAdapter
<1>21. ASSUME NEW t \in Tasks, UserGone(t) PROVE AdapterInv'
  BY <1>21 DEF UserGone, CanWrite, Unlocked
<1>22. ASSUME NEW t \in Tasks, Renew(t) PROVE AdapterInv'
  BY <1>22 DEF Renew, TaskInv, LockInv, WriterPCs
<1>23. ASSUME NEW t \in Tasks, Authenticate(t) PROVE AdapterInv'
  BY <1>23, AuthenticateAdapter
<1>24. ASSUME NEW t \in Tasks, Revalidate(t) PROVE AdapterInv'
  BY <1>24 DEF Revalidate, LockInv, WriterPCs
<1>25. ASSUME NEW t \in Tasks, RoomChanged(t) PROVE AdapterInv'
  BY <1>25 DEF RoomChanged, LockInv, WriterPCs
<1>26. ASSUME NEW t \in Tasks, Publish(t) PROVE AdapterInv'
  BY <1>26 DEF Publish, LockInv, WriterPCs
<1>27. ASSUME NEW t \in Tasks, Chat(t) PROVE AdapterInv'
  BY <1>27 DEF Chat, LockInv, WriterPCs
<1>28. ASSUME NEW t \in Tasks, Say(t) PROVE AdapterInv'
  BY <1>28 DEF Say, LockInv, WriterPCs
<1>29. ASSUME NEW t \in Tasks, Move(t) PROVE AdapterInv'
  BY <1>29 DEF Move, LockInv, WriterPCs
<1>30. ASSUME NEW t \in Tasks, Moved(t) PROVE AdapterInv'
  BY <1>30 DEF Moved, LockInv, WriterPCs
<1>31. ASSUME NEW t \in Tasks, Goto(t) PROVE AdapterInv'
  BY <1>31 DEF Goto, LockInv, WriterPCs
<1>32. ASSUME Tick PROVE AdapterInv'
  BY <1>32 DEF Tick
<1>33. ASSUME TickEmit PROVE AdapterInv'
  BY <1>33 DEF TickEmit
<1>34. ASSUME NEW x \in Tasks \cup Sockets, StandInLine(x) PROVE AdapterInv'
  BY <1>34 DEF StandInLine
<1>35. ASSUME NEW t \in Tasks, JoinCommit(t) PROVE AdapterInv'
  BY <1>35 DEF JoinCommit, CanWrite, Unlocked, TaskInv, ClaimIsCurrent, Duplicates
<1>36. ASSUME UNCHANGED vars PROVE AdapterInv'
  BY <1>36 DEF vars
<1> QED
  BY <1>1, <1>2, <1>3, <1>4, <1>5, <1>6, <1>7, <1>8, <1>9, <1>10, <1>11, <1>12, <1>13, <1>14, <1>15, <1>16, <1>17, <1>18, <1>19, <1>20, <1>21, <1>22, <1>23, <1>24, <1>25, <1>26, <1>27, <1>28, <1>29, <1>30, <1>31, <1>32, <1>33, <1>34, <1>35, <1>36
  DEF QueuedNext, Next, Handle, Join

\* AdapterAgreement: between transitions a socket is delivered exactly the
\* events of the room its record names.
THEOREM MembershipAgrees == Spec => []AdapterAgreement
<1>1. Init => LockInv /\ AdapterInv
  BY DEF Init, LockInv, AdapterInv, WriterPCs, ReaderPCs, NoWriter, Home
<1>2. TypeOK /\ TaskInv /\ LockInv /\ AdapterInv /\ [Next]_vars
        => TypeOK' /\ TaskInv' /\ LockInv' /\ AdapterInv'
  BY StepTypes, StepLock, StepAdapter DEF QueuedNext
<1>3. AdapterInv => AdapterAgreement
  BY DEF AdapterInv, AdapterAgreement, Home
<1> QED BY <1>1, <1>2, <1>3, InitTypes, PTL DEF Spec
=============================================================================
