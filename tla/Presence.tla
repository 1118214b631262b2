------------------------------ MODULE Presence ------------------------------
(***************************************************************************)
(* The presence half of src/src/realtime/mod.rs: the per-socket records    *)
(* (ClientsState.inner), the Socket.IO adapter rooms, the                  *)
(* presence_transition lock that serialises the two, the handlers that     *)
(* change them, and the motion loop.                                       *)
(*                                                                         *)
(* Every async handler runs as a task of its own, so two handlers of one   *)
(* socket overlap and may overtake each other.  A task is a program        *)
(* counter, the request it serves and the values it read before its last   *)
(* await.  One action is one stretch of code between two awaits that other *)
(* tasks can observe; operations on ClientsState.inner are atomic because  *)
(* each takes that lock once.                                              *)
(***************************************************************************)
EXTENDS Integers

CONSTANTS
    Sockets,    \* connection ids; a reconnecting browser gets a new one
    Tasks,      \* concurrently running handlers
    Rooms,      \* the valid space ids, 1..Config.total_spaces
    RawRooms,   \* the room names clients send: Rooms and some invalid ones
    Tokens,     \* well-formed browser presence tokens
    Wallets,    \* wallet public keys
    NoRoom,     \* room_id = None
    NoToken,    \* presence_token = None
    KeepToken,  \* a payload without a presenceToken field
    NoWallet,   \* wallet = None
    Nobody,     \* the lock has no writer
    Loop,       \* the motion loop, as a reader of the lock
    Requests,   \* the events clients may send in this instance
    MaxSeq      \* bound on server_move_seq (u64, saturating, in the code)

VARIABLES
    conn,    \* connection of each socket: new, opening, up, closing, closed
    known,   \* the keys of ClientsState.inner
    room, token, named, moving, claim, cseq, sseq, wallet, nonce,
             \* ClientRecord: room_id, presence_token, "nickname or avatar is
             \* set", "motion is Some", latest_claim_id, last_client_move_seq,
             \* server_move_seq, wallet, number of nonces issued so far
    joined,  \* adapter rooms of each socket
    writer, readers, queue,
             \* presence_transition: its holders, and the writers waiting in line
    pc, by, req, here, dups, num, who,
             \* per task: program counter, socket and event it serves, captured
             \* room, superseded ids, server_seq and wallet
    batch,   \* motion updates the loop still has to emit
    shown,   \* per receiver: the avatars it displays once every event emitted
             \* to it so far is delivered, each at the position received last
    told,    \* per receiver: room access answers sent since its last join
    newest,  \* history: the largest claim any handler of the socket accepted
    overtaken \* history: the avatars whose position emitted last was not the
              \* newest one when it went out

record == <<known, room, token, named, moving, claim, cseq, sseq, wallet, nonce>>
lock   == <<writer, readers, queue>>
local  == <<by, req, here, dups, num, who>>
client == <<shown, told, newest, overtaken>>
vars   == <<conn, record, joined, lock, pc, local, batch, client>>

Gone == -1   \* receiver does not display this socket

Ops == {"join", "leave", "user", "chat", "move", "goto", "auth"}

\* A client event with the payload fields the handlers tell apart.  A claimId
\* that is absent behaves as claimId 0 in all three places that read it, so 0
\* stands for both.  seq 0 stands for a move without seq.  wallet is the key
\* whose signature over the connection's first nonce is valid (NoWallet: no
\* such key).
Request == [op : Ops, room : RawRooms \cup {NoRoom}, claim : Nat,
            token : Tokens \cup {NoToken, KeepToken}, named : BOOLEAN,
            seq : Nat, wallet : Wallets \cup {NoWallet}]

Blank == [op |-> "chat", room |-> NoRoom, claim |-> 0, token |-> KeepToken,
          named |-> FALSE, seq |-> 0, wallet |-> NoWallet]

JoinSpace(r, c, tk) == [Blank EXCEPT !.op = "join", !.room = r, !.claim = c, !.token = tk]
LeaveSpace(r, c)    == [Blank EXCEPT !.op = "leave", !.room = r, !.claim = c]
SetUserData(n, tk)  == [Blank EXCEPT !.op = "user", !.named = n, !.token = tk]
ChatMessage         == Blank
MoveTo(n)           == [Blank EXCEPT !.op = "move", !.seq = n]
GotoTarget          == [Blank EXCEPT !.op = "goto"]
AuthWith(w)         == [Blank EXCEPT !.op = "auth", !.wallet = w]

ASSUME NamesAssumption ==
    /\ NoRoom \notin RawRooms /\ Rooms \subseteq RawRooms
    /\ NoToken \notin Tokens /\ KeepToken \notin Tokens \cup {NoToken}
    /\ NoWallet \notin Wallets
    /\ Nobody \notin Tasks \cup Sockets /\ Loop \notin Tasks
ASSUME BoundAssumption == MaxSeq \in Nat
ASSUME RequestsAssumption ==
    /\ Requests \subseteq Request
    /\ \A q \in Requests : q.op \in {"join", "leave"} => q.room # NoRoom

-----------------------------------------------------------------------------
(* Critical sections *)

WriterPCs == {"detach", "left", "switch", "evict", "enter", "renew"}
ReaderPCs == {"say", "moved", "publish"}

NoWriter == writer = Nobody
Unlocked == NoWriter /\ readers = {}

\* tokio's RwLock (external) hands the lock out in order of arrival, so that
\* no reader overtakes a writer that stands in line (queue).  Safety needs no
\* order at all: in Spec nobody ever stands in line and the lock goes to
\* anyone; only FairSpec has the steps StandInLine.
CanRead     == NoWriter /\ queue = {}
CanWrite(x) == Unlocked /\ (queue = {} \/ x \in queue)
Acquire(x)  == queue' = queue \ {x}

Members(r)   == {s \in known : room[s] = r}
Receivers(r) == {s \in Sockets : r \in joined[s]}

\* Mutant: the token the record had before is compared.
MutantDuplicates(s, r, tk) ==
    IF token[s] = NoToken THEN {}
    ELSE {x \in known \ {s} : room[x] = r /\ token[x] = token[s]}

\* The records that supersede_duplicate_presence evicts when s is present in
\* room r with token tk.
Duplicates(s, r, tk) ==
    IF tk = NoToken THEN {}
    ELSE {x \in known \ {s} : room[x] = r /\ token[x] = tk}

Later(m, n) == IF m >= n THEN m ELSE n

\* Receivers R are sent the avatar of s at its position number n (new user,
\* move) and display it there: the receivers in this repository overwrite what
\* they had.  Positions are numbered by server_seq; a "new user" carries the
\* position but not its number.
Display(view, R, s, n) ==
    [o \in Sockets |-> IF o \in R THEN [view[o] EXCEPT ![s] = n] ELSE view[o]]

\* The history after the position number n of s was emitted.
Overtaken(s, n) == IF n = sseq[s] THEN overtaken \ {s} ELSE overtaken \cup {s}

\* Receivers R are told that the avatars of D are gone ("delete").
Erase(view, R, D) ==
    [o \in Sockets |-> IF o \in R
                       THEN [s \in Sockets |-> IF s \in D THEN Gone ELSE view[o][s]]
                       ELSE view[o]]

\* The three places that compare a claim generation with the record.
Noted(s, c) == s \in known /\ c >= claim[s]

MutantClaimIsCurrent(s, c) == s \in known   \* mutant: generations not compared
ClaimIsCurrent(s, c) == s \in known /\ c = claim[s]

PCs == {"idle", "claim", "validate", "commit", "wallet", "answer", "leave", "user",
        "chat", "move", "goto", "auth", "resolve"} \cup WriterPCs \cup ReaderPCs

RecordTypes ==
    /\ known \subseteq Sockets
    /\ room \in [Sockets -> Rooms \cup {NoRoom}]
    /\ token \in [Sockets -> Tokens \cup {NoToken}]
    /\ named \in [Sockets -> BOOLEAN]
    /\ moving \in [Sockets -> BOOLEAN]
    /\ claim \in [Sockets -> Nat]
    /\ cseq \in [Sockets -> Nat]
    /\ sseq \in [Sockets -> 0..MaxSeq]
    /\ wallet \in [Sockets -> Wallets \cup {NoWallet}]
    /\ nonce \in [Sockets -> Nat]

LockTypes ==
    /\ conn \in [Sockets -> {"new", "opening", "up", "closing", "closed"}]
    /\ joined \in [Sockets -> SUBSET Rooms]
    /\ writer \in Tasks \cup {Nobody}
    /\ readers \subseteq Tasks \cup {Loop}
    /\ queue \subseteq Tasks \cup Sockets
    /\ batch \subseteq [id : Sockets, room : Rooms, seq : 0..MaxSeq]

TaskTypes ==
    /\ pc \in [Tasks -> PCs]
    /\ by \in [Tasks -> Sockets \cup {Nobody}]
    /\ req \in [Tasks -> Request]
    /\ here \in [Tasks -> Rooms \cup {NoRoom}]
    /\ dups \in [Tasks -> SUBSET Sockets]
    /\ num \in [Tasks -> 0..MaxSeq]
    /\ who \in [Tasks -> Wallets \cup {NoWallet}]

ClientTypes ==
    /\ shown \in [Sockets -> [Sockets -> Gone..MaxSeq]]
    /\ told \in [Sockets -> SUBSET (Rooms \X (Wallets \cup {NoWallet}))]
    /\ newest \in [Sockets -> Nat]
    /\ overtaken \subseteq Sockets

\* The type invariant of the records, the lock, the tasks and the receivers.
TypeOK == RecordTypes /\ LockTypes /\ TaskTypes /\ ClientTypes

Init ==
    /\ conn = [s \in Sockets |-> "new"]
    /\ known = {}
    /\ room = [s \in Sockets |-> NoRoom]
    /\ token = [s \in Sockets |-> NoToken]
    /\ named = [s \in Sockets |-> FALSE]
    /\ moving = [s \in Sockets |-> FALSE]
    /\ claim = [s \in Sockets |-> 0]
    /\ cseq = [s \in Sockets |-> 0]
    /\ sseq = [s \in Sockets |-> 0]
    /\ wallet = [s \in Sockets |-> NoWallet]
    /\ nonce = [s \in Sockets |-> 0]
    /\ joined = [s \in Sockets |-> {}]
    /\ writer = Nobody
    /\ readers = {}
    /\ queue = {}
    /\ pc = [t \in Tasks |-> "idle"]
    /\ by = [t \in Tasks |-> Nobody]
    /\ req = [t \in Tasks |-> Blank]
    /\ here = [t \in Tasks |-> NoRoom]
    /\ dups = [t \in Tasks |-> {}]
    /\ num = [t \in Tasks |-> 0]
    /\ who = [t \in Tasks |-> NoWallet]
    /\ batch = {}
    /\ shown = [s \in Sockets |-> [x \in Sockets |-> Gone]]
    /\ told = [s \in Sockets |-> {}]
    /\ newest = [s \in Sockets |-> 0]
    /\ overtaken = {}

-----------------------------------------------------------------------------
(* Connections (external: what socketioxide does around the handlers) *)

\* on_connect up to insert_default: the record exists and the nonce is sent.
Open(s) ==
    /\ conn[s] = "new"
    /\ conn' = [conn EXCEPT ![s] = "opening"]
    /\ known' = known \cup {s}
    /\ nonce' = [nonce EXCEPT ![s] = 1]
    /\ UNCHANGED <<room, token, named, moving, claim, cseq, sseq, wallet,
                   joined, lock, pc, local, batch, client>>

\* The rest of on_connect: the handlers, the disconnect handler last.
Register(s) ==
    /\ conn[s] = "opening"
    /\ conn' = [conn EXCEPT ![s] = "up"]
    /\ UNCHANGED <<record, joined, lock, pc, local, batch, client>>

\* The transport goes down.  Before Register there is no disconnect handler
\* to call, and the record is never removed.
GoDown(s) ==
    /\ \/ conn[s] = "opening" /\ conn' = [conn EXCEPT ![s] = "closed"]
       \/ conn[s] = "up" /\ conn' = [conn EXCEPT ![s] = "closing"]
    /\ UNCHANGED <<record, joined, lock, pc, local, batch, client>>

\* on_disconnect, under the write lock; then the socket leaves the adapter.
OnDisconnect(s) ==
    /\ conn[s] = "closing"
    /\ CanWrite(s)
    /\ Acquire(s)
    /\ conn' = [conn EXCEPT ![s] = "closed"]
    /\ known' = known \ {s}
    /\ room' = [room EXCEPT ![s] = NoRoom]
    /\ token' = [token EXCEPT ![s] = NoToken]
    /\ named' = [named EXCEPT ![s] = FALSE]
    /\ moving' = [moving EXCEPT ![s] = FALSE]
    /\ claim' = [claim EXCEPT ![s] = 0]
    /\ cseq' = [cseq EXCEPT ![s] = 0]
    /\ sseq' = [sseq EXCEPT ![s] = 0]
    /\ wallet' = [wallet EXCEPT ![s] = NoWallet]
    /\ nonce' = [nonce EXCEPT ![s] = 0]
    /\ joined' = [joined EXCEPT ![s] = {}]
    /\ shown' = IF room[s] = NoRoom THEN shown
                ELSE Erase(shown, Receivers(room[s]), {s})
    /\ told' = [told EXCEPT ![s] = {}]
    /\ newest' = [newest EXCEPT ![s] = 0]
    /\ overtaken' = overtaken \ {s}
    /\ UNCHANGED <<writer, readers, pc, local, batch>>

-----------------------------------------------------------------------------
(* Handler tasks *)

FirstPC(op) == IF op = "join" THEN "claim" ELSE op

\* An event with a well-formed payload arrives and its handler is spawned.
Spawn(t, s, q) ==
    /\ pc[t] = "idle"
    /\ conn[s] = "up"
    /\ pc' = [pc EXCEPT ![t] = FirstPC(q.op)]
    /\ by' = [by EXCEPT ![t] = s]
    /\ req' = [req EXCEPT ![t] = q]
    /\ UNCHANGED <<conn, record, joined, lock, here, dups, num, who, batch, client>>

Proceed(t, to) == pc' = [pc EXCEPT ![t] = to]

Return(t) ==
    /\ pc' = [pc EXCEPT ![t] = "idle"]
    /\ by' = [by EXCEPT ![t] = Nobody]
    /\ req' = [req EXCEPT ![t] = Blank]
    /\ here' = [here EXCEPT ![t] = NoRoom]
    /\ dups' = [dups EXCEPT ![t] = {}]
    /\ num' = [num EXCEPT ![t] = 0]
    /\ who' = [who EXCEPT ![t] = NoWallet]

-----------------------------------------------------------------------------
(* join-space *)

\* First critical section: note the claim and take the current room.
JoinClaim(t) ==
    LET s == by[t] IN
    /\ pc[t] = "claim"
    /\ CanWrite(t)
    /\ Acquire(t)
    /\ Noted(s, req[t].claim)
    /\ claim' = [claim EXCEPT ![s] = req[t].claim]
    /\ newest' = [newest EXCEPT ![s] = Later(@, req[t].claim)]
    /\ moving' = [moving EXCEPT ![s] = FALSE]
    /\ room' = [room EXCEPT ![s] = NoRoom]
    /\ here' = [here EXCEPT ![t] = room[s]]
    /\ IF room[s] = NoRoom
       THEN Proceed(t, "validate") /\ writer' = writer
       ELSE Proceed(t, "detach") /\ writer' = t
    /\ UNCHANGED <<conn, known, token, named, cseq, sseq, wallet, nonce, joined,
                   readers, by, req, dups, num, who, batch, shown, told, overtaken>>

\* An older generation than the record's, or no record: dropped.
JoinOutdated(t) ==
    /\ pc[t] = "claim"
    /\ CanWrite(t)
    /\ Acquire(t)
    /\ ~ Noted(by[t], req[t].claim)
    /\ Return(t)
    /\ UNCHANGED <<conn, record, joined, writer, readers, batch, client>>

\* Leave the adapter room, tell it, and end the critical section (join-space
\* goes on to validate; leave-space is done).
Detach(t) ==
    LET s == by[t] IN
    /\ pc[t] \in {"detach", "left"}
    /\ joined' = [joined EXCEPT ![s] = @ \ {here[t]}]
    /\ shown' = Erase(shown, Receivers(here[t]) \ {s}, {s})
    /\ overtaken' = overtaken \ {s}
    /\ writer' = Nobody
    /\ IF pc[t] = "left" THEN Return(t)
       ELSE /\ Proceed(t, "validate")
            /\ here' = [here EXCEPT ![t] = NoRoom]
            /\ UNCHANGED <<by, req, dups, num, who>>
    /\ UNCHANGED <<conn, record, readers, queue, batch, told, newest>>

\* Rate limited, invalid room or chain unavailable: a room error to s.
JoinRefused(t) ==
    /\ pc[t] = "validate"
    /\ Return(t)
    /\ UNCHANGED <<conn, record, joined, lock, batch, client>>

\* Mutant: ids above the chain's total_spaces pass.
MutantJoinValidated(t) ==
    /\ pc[t] = "validate"
    /\ by[t] \in known
    /\ Proceed(t, "commit")
    /\ UNCHANGED <<conn, record, joined, lock, local, batch, client>>

\* allow(Joins) and parse_room_id, which awaits the chain configuration.
JoinValidated(t) ==
    /\ pc[t] = "validate"
    /\ by[t] \in known
    /\ req[t].room \in Rooms
    /\ Proceed(t, "commit")
    /\ UNCHANGED <<conn, record, joined, lock, local, batch, client>>

\* The token set_room leaves in the record.
ClaimedToken(t) ==
    IF req[t].token = KeepToken THEN token[by[t]] ELSE req[t].token

\* Move numbering starts afresh in a new room, and only there.
MutantRenumbered(seq, s, r) == [seq EXCEPT ![s] = 0]   \* mutant: at every join
Renumbered(seq, s, r) == IF room[s] = r THEN seq ELSE [seq EXCEPT ![s] = 0]

\* Second critical section: set_room with the eviction of duplicates.
JoinCommit(t) ==
    LET s == by[t]
        r == req[t].room
        D == Duplicates(s, r, ClaimedToken(t))
    IN
    /\ pc[t] = "commit"
    /\ CanWrite(t)
    /\ Acquire(t)
    /\ ClaimIsCurrent(s, req[t].claim)
    /\ token' = [token EXCEPT ![s] = ClaimedToken(t)]
    /\ room' = [x \in Sockets |-> IF x = s THEN r
                                  ELSE IF x \in D THEN NoRoom ELSE room[x]]
    /\ moving' = [x \in Sockets |-> moving[x] /\ x \notin D]
    /\ cseq' = Renumbered(cseq, s, r)
    /\ sseq' = Renumbered(sseq, s, r)
    /\ writer' = t
    /\ here' = [here EXCEPT ![t] = room[s]]
    /\ dups' = [dups EXCEPT ![t] = D]
    /\ Proceed(t, IF room[s] \notin {NoRoom, r} THEN "switch"
                  ELSE IF D # {} THEN "evict" ELSE "enter")
    /\ told' = [told EXCEPT ![s] = {}]
    /\ UNCHANGED <<conn, known, named, claim, wallet, nonce, joined, readers,
                   by, req, num, who, batch, shown, newest, overtaken>>

\* set_room refuses an outdated claim or a vanished record.
JoinSuperseded(t) ==
    /\ pc[t] = "commit"
    /\ CanWrite(t)
    /\ Acquire(t)
    /\ ~ ClaimIsCurrent(by[t], req[t].claim)
    /\ Return(t)
    /\ UNCHANGED <<conn, record, joined, writer, readers, batch, client>>

\* Mutant: the delete is sent but the adapter room is kept.
MutantSwitch(t) ==
    /\ pc[t] = "switch"
    /\ shown' = Erase(shown, Receivers(here[t]) \ {by[t]}, {by[t]})
    /\ overtaken' = overtaken \ {by[t]}
    /\ Proceed(t, IF dups[t] # {} THEN "evict" ELSE "enter")
    /\ UNCHANGED <<conn, record, joined, lock, local, batch, told, newest>>

\* The record had another room again: leave that adapter room first.
Switch(t) ==
    LET s == by[t] IN
    /\ pc[t] = "switch"
    /\ joined' = [joined EXCEPT ![s] = @ \ {here[t]}]
    /\ shown' = Erase(shown, Receivers(here[t]) \ {s}, {s})
    /\ overtaken' = overtaken \ {s}
    /\ Proceed(t, IF dups[t] # {} THEN "evict" ELSE "enter")
    /\ UNCHANGED <<conn, record, lock, local, batch, told, newest>>

\* The room the task is making its socket present in.
Target(t) == IF req[t].op = "join" THEN req[t].room ELSE here[t]

\* Mutant: superseded tabs leave, but the room is not told.
MutantEvict(t) ==
    /\ pc[t] = "evict"
    /\ joined' = [s \in Sockets |-> IF s \in dups[t] THEN joined[s] \ {Target(t)} ELSE joined[s]]
    /\ Proceed(t, IF req[t].op = "join" THEN "enter" ELSE "renew")
    /\ UNCHANGED <<conn, record, lock, local, batch, client>>

\* evict_superseded_presences: all of them leave the adapter room, then the
\* room is told.
Evict(t) ==
    LET r == Target(t) IN
    /\ pc[t] = "evict"
    /\ joined' = [s \in Sockets |-> IF s \in dups[t] THEN joined[s] \ {r} ELSE joined[s]]
    /\ shown' = Erase(shown, Receivers(r) \ dups[t], dups[t])
    /\ overtaken' = overtaken \ dups[t]
    /\ Proceed(t, IF req[t].op = "join" THEN "enter" ELSE "renew")
    /\ UNCHANGED <<conn, record, lock, local, batch, told, newest>>

\* Join the adapter room, send the snapshot to s and the new user to the rest.
Enter(t) ==
    LET s == by[t]
        r == req[t].room
        snapshot == [x \in Sockets |-> IF x \in Members(r) THEN sseq[x] ELSE Gone]
        others == IF named[s] THEN Receivers(r) \ {s} ELSE {}
    IN
    /\ pc[t] = "enter"
    /\ joined' = [joined EXCEPT ![s] = @ \cup {r}]
    /\ shown' = Display([shown EXCEPT ![s] = snapshot], others, s, sseq[s])
    /\ overtaken' = IF named[s] THEN Overtaken(s, sseq[s]) ELSE overtaken
    /\ writer' = Nobody
    /\ Proceed(t, "wallet")
    /\ UNCHANGED <<conn, record, readers, queue, local, batch, told, newest>>

\* Mutant: every join is answered as a guest's.
MutantJoinWallet(t) ==
    /\ pc[t] = "wallet"
    /\ Proceed(t, "answer")
    /\ UNCHANGED <<conn, record, joined, lock, local, batch, client>>

\* wallet_of, after the room program was sent (module RoomPrograms).
JoinWallet(t) ==
    /\ pc[t] = "wallet"
    /\ who' = [who EXCEPT ![t] = wallet[by[t]]]
    /\ Proceed(t, "answer")
    /\ UNCHANGED <<conn, record, joined, lock, by, req, here, dups, num, batch, client>>

\* emit_room_access: the access (or, when the chain fails, the room error)
\* for the wallet read above; a guest's needs no lookup.
JoinAnswer(t) ==
    LET s == by[t] IN
    /\ pc[t] = "answer"
    /\ told' = [told EXCEPT ![s] = IF s \in known THEN @ \cup {<<req[t].room, who[t]>>} ELSE @]
    /\ Return(t)
    /\ UNCHANGED <<conn, record, joined, lock, batch, shown, newest, overtaken>>

-----------------------------------------------------------------------------
(* leave-space, set user data, auth *)

\* Note the claim; leave when the named room is the current one.
Leave(t) ==
    LET s == by[t] IN
    /\ pc[t] = "leave"
    /\ CanWrite(t)
    /\ Acquire(t)
    /\ Noted(s, req[t].claim)
    /\ claim' = [claim EXCEPT ![s] = req[t].claim]
    /\ newest' = [newest EXCEPT ![s] = Later(@, req[t].claim)]
    /\ IF room[s] = req[t].room
       THEN /\ room' = [room EXCEPT ![s] = NoRoom]
            /\ moving' = [moving EXCEPT ![s] = FALSE]
            /\ writer' = t
            /\ here' = [here EXCEPT ![t] = room[s]]
            /\ Proceed(t, "left")
            /\ UNCHANGED <<by, req, dups, num, who>>
       ELSE Return(t) /\ UNCHANGED <<room, moving, writer>>
    /\ UNCHANGED <<conn, known, token, named, cseq, sseq, wallet, nonce, joined,
                   readers, batch, shown, told, overtaken>>

LeaveOutdated(t) ==
    /\ pc[t] = "leave"
    /\ CanWrite(t)
    /\ Acquire(t)
    /\ ~ Noted(by[t], req[t].claim)
    /\ Return(t)
    /\ UNCHANGED <<conn, record, joined, writer, readers, batch, client>>

\* The duplicates of s once its token is tk, wherever it is.
MutantUserDuplicates(s, tk) == {}   \* mutant: only joins supersede
UserDuplicates(s, tk) == IF room[s] = NoRoom THEN {} ELSE Duplicates(s, room[s], tk)

\* update_user_data: the new names, maybe a new token, and in a room the
\* eviction of the duplicates that token now has.
UserData(t) ==
    LET s == by[t]
        tk == IF req[t].token = KeepToken THEN token[s] ELSE req[t].token
        D == UserDuplicates(s, tk)
    IN
    /\ pc[t] = "user"
    /\ CanWrite(t)
    /\ Acquire(t)
    /\ s \in known
    /\ named' = [named EXCEPT ![s] = req[t].named]
    /\ token' = [token EXCEPT ![s] = tk]
    /\ room' = [x \in Sockets |-> IF x \in D THEN NoRoom ELSE room[x]]
    /\ moving' = [x \in Sockets |-> moving[x] /\ x \notin D]
    /\ IF room[s] = NoRoom
       THEN Return(t) /\ writer' = writer
       ELSE /\ writer' = t
            /\ here' = [here EXCEPT ![t] = room[s]]
            /\ dups' = [dups EXCEPT ![t] = D]
            /\ Proceed(t, IF D # {} THEN "evict" ELSE "renew")
            /\ UNCHANGED <<by, req, num, who>>
    /\ UNCHANGED <<conn, known, claim, cseq, sseq, wallet, nonce, joined, readers,
                   batch, client>>

\* The record is gone by the time the lock is held.
UserGone(t) ==
    /\ pc[t] = "user"
    /\ CanWrite(t)
    /\ Acquire(t)
    /\ by[t] \notin known
    /\ Return(t)
    /\ UNCHANGED <<conn, record, joined, writer, readers, batch, client>>

\* Tell the room the new user data, and end the critical section.
Renew(t) ==
    LET s == by[t] IN
    /\ pc[t] = "renew"
    /\ shown' = Display(shown, Receivers(here[t]) \ {s}, s, sseq[s])
    /\ overtaken' = Overtaken(s, sseq[s])
    /\ writer' = Nobody
    /\ Return(t)
    /\ UNCHANGED <<conn, record, joined, readers, queue, batch, told, newest>>

\* A used nonce is replaced by a fresh one that no client has been sent.
MutantRotated(n) == n   \* mutant: the nonce stays
Rotated(n) == n + 1

\* authenticate: check the signature against the current nonce, rotate it,
\* set the wallet and read the room, all at once.
Authenticate(t) ==
    LET s == by[t] IN
    /\ pc[t] = "auth"
    /\ s \in known
    /\ req[t].wallet # NoWallet /\ nonce[s] = 1
    /\ nonce' = [nonce EXCEPT ![s] = Rotated(@)]
    /\ wallet' = [wallet EXCEPT ![s] = req[t].wallet]
    /\ IF room[s] = NoRoom
       THEN Return(t)
       ELSE /\ here' = [here EXCEPT ![t] = room[s]]
            /\ who' = [who EXCEPT ![t] = req[t].wallet]
            /\ Proceed(t, "resolve")
            /\ UNCHANGED <<by, req, dups, num>>
    /\ UNCHANGED <<conn, known, room, token, named, moving, claim, cseq, sseq,
                   joined, lock, batch, client>>

\* A bad signature, a nonce used before, or no record: auth result with the
\* error to s.
AuthFailed(t) ==
    /\ pc[t] = "auth"
    /\ ~ (by[t] \in known /\ req[t].wallet # NoWallet /\ nonce[by[t]] = 1)
    /\ Return(t)
    /\ UNCHANGED <<conn, record, joined, lock, batch, client>>

\* access_for is awaited; then, under the read lock, the room is read again.
Revalidate(t) ==
    LET s == by[t] IN
    /\ pc[t] = "resolve"
    /\ CanRead
    /\ s \in known /\ room[s] = here[t]
    /\ readers' = readers \cup {t}
    /\ num' = [num EXCEPT ![t] = sseq[s]]
    /\ Proceed(t, "publish")
    /\ UNCHANGED <<conn, record, joined, writer, queue, by, req, here, dups, who, batch, client>>

RoomChanged(t) ==
    /\ pc[t] = "resolve"
    /\ CanRead
    /\ ~ (by[t] \in known /\ room[by[t]] = here[t])
    /\ Return(t)
    /\ UNCHANGED <<conn, record, joined, lock, batch, client>>

\* room access to s, new user with the wallet to the rest of the room: at the
\* position read by Revalidate, whatever other readers emitted meanwhile.
Publish(t) ==
    LET s == by[t] IN
    /\ pc[t] = "publish"
    /\ told' = [told EXCEPT ![s] = @ \cup {<<here[t], who[t]>>}]
    /\ shown' = Display(shown, Receivers(here[t]) \ {s}, s, num[t])
    /\ overtaken' = Overtaken(s, num[t])
    /\ readers' = readers \ {t}
    /\ Return(t)
    /\ UNCHANGED <<conn, record, joined, writer, queue, batch, newest>>

-----------------------------------------------------------------------------
(* chat message, move, goto: readers of the lock *)

Present(s) == s \in known /\ room[s] # NoRoom

\* Read the room under the read lock, and keep it for the broadcast.
Chat(t) ==
    LET s == by[t] IN
    /\ pc[t] = "chat"
    /\ CanRead
    /\ Present(s)
    /\ readers' = readers \cup {t}
    /\ here' = [here EXCEPT ![t] = room[s]]
    /\ Proceed(t, "say")
    /\ UNCHANGED <<conn, record, joined, writer, queue, by, req, dups, num, who, batch, client>>

\* Mutant: the broadcast takes the read lock again.
MutantSay(t) ==
    /\ pc[t] = "say"
    /\ CanRead
    /\ readers' = readers \ {t}
    /\ Return(t)
    /\ UNCHANGED <<conn, record, joined, writer, queue, batch, client>>

\* The message reaches Receivers(here[t]); no avatar changes.
Say(t) ==
    /\ pc[t] = "say"
    /\ readers' = readers \ {t}
    /\ Return(t)
    /\ UNCHANGED <<conn, record, joined, writer, queue, batch, client>>

\* Mutant: the lock is released once the room is read.
MutantMove(t) ==
    LET s == by[t] IN
    /\ pc[t] = "move"
    /\ CanRead
    /\ Present(s)
    /\ sseq[s] < MaxSeq
    /\ moving' = [moving EXCEPT ![s] = FALSE]
    /\ sseq' = [sseq EXCEPT ![s] = @ + 1]
    /\ here' = [here EXCEPT ![t] = room[s]]
    /\ num' = [num EXCEPT ![t] = sseq[s] + 1]
    /\ Proceed(t, "moved")
    /\ UNCHANGED <<conn, known, room, token, named, claim, cseq, wallet, nonce, joined,
                   lock, by, req, dups, who, batch, client>>

\* update_move: a move with a seq must be newer than the last one.
Move(t) ==
    LET s == by[t] IN
    /\ pc[t] = "move"
    /\ CanRead
    /\ Present(s)
    /\ sseq[s] < MaxSeq
    /\ \/ req[t].seq = 0 /\ cseq' = cseq
       \/ req[t].seq > cseq[s] /\ cseq' = [cseq EXCEPT ![s] = req[t].seq]
    /\ moving' = [moving EXCEPT ![s] = FALSE]
    /\ sseq' = [sseq EXCEPT ![s] = @ + 1]
    /\ readers' = readers \cup {t}
    /\ here' = [here EXCEPT ![t] = room[s]]
    /\ num' = [num EXCEPT ![t] = sseq[s] + 1]
    /\ Proceed(t, "moved")
    /\ UNCHANGED <<conn, known, room, token, named, claim, wallet, nonce, joined,
                   writer, queue, by, req, dups, who, batch, client>>

\* Broadcast the position to the whole room, the sender included.
Moved(t) ==
    /\ pc[t] = "moved"
    /\ shown' = Display(shown, Receivers(here[t]), by[t], num[t])
    /\ overtaken' = Overtaken(by[t], num[t])
    /\ readers' = readers \ {t}
    /\ Return(t)
    /\ UNCHANGED <<conn, record, joined, writer, queue, batch, told, newest>>

\* Mutant: a target is accepted outside any room.
MutantGoto(t) ==
    /\ pc[t] = "goto"
    /\ CanRead
    /\ by[t] \in known
    /\ moving' = [moving EXCEPT ![by[t]] = TRUE]
    /\ Return(t)
    /\ UNCHANGED <<conn, known, room, token, named, claim, cseq, sseq, wallet,
                   nonce, joined, lock, batch, client>>

\* set_goto: the motion loop takes over; nothing is broadcast.
Goto(t) ==
    LET s == by[t] IN
    /\ pc[t] = "goto"
    /\ CanRead
    /\ Present(s)
    /\ moving' = [moving EXCEPT ![s] = TRUE]
    /\ Return(t)
    /\ UNCHANGED <<conn, known, room, token, named, claim, cseq, sseq, wallet,
                   nonce, joined, lock, batch, client>>

\* The returns under the read lock without effect: no record, no room, an old
\* move seq, a chat message over its rate limit or empty.  (What a handler
\* refuses before it takes the lock counts as not sent.)
Dropped(t) ==
    LET s == by[t] IN
    /\ pc[t] \in {"chat", "move", "goto"}
    /\ CanRead
    /\ \/ ~ Present(s)
       \/ pc[t] = "chat"
       \/ pc[t] = "move" /\ req[t].seq # 0 /\ req[t].seq <= cseq[s]
       \/ pc[t] = "move" /\ sseq[s] = MaxSeq   \* the bound of the instance
    /\ Return(t)
    /\ UNCHANGED <<conn, record, joined, lock, batch, client>>

-----------------------------------------------------------------------------
(* The motion loop *)

Walking == {s \in known : moving[s] /\ room[s] # NoRoom}

\* tick_motions: every avatar with a motion steps or arrives.
Tick ==
    /\ Loop \notin readers
    /\ CanRead
    /\ Walking # {}
    /\ \A s \in Walking : sseq[s] < MaxSeq
    /\ \E arrived \in SUBSET Walking :
         moving' = [s \in Sockets |-> s \in Walking \ arrived]
    /\ sseq' = [s \in Sockets |-> IF s \in Walking THEN sseq[s] + 1 ELSE sseq[s]]
    /\ batch' = {[id |-> s, room |-> room[s], seq |-> sseq[s] + 1] : s \in Walking}
    /\ readers' = readers \cup {Loop}
    /\ UNCHANGED <<conn, known, room, token, named, claim, cseq, wallet, nonce,
                   joined, writer, queue, pc, local, client>>

\* Mutant: the guard outlives the last update.
MutantTickEmit ==
    \E u \in batch :
        /\ shown' = Display(shown, Receivers(u.room), u.id, u.seq)
        /\ overtaken' = Overtaken(u.id, u.seq)
        /\ batch' = batch \ {u}
        /\ UNCHANGED <<conn, record, joined, lock, pc, local, told, newest>>

\* Broadcast one update; after the last one the read lock is released.
TickEmit ==
    \E u \in batch :
        /\ shown' = Display(shown, Receivers(u.room), u.id, u.seq)
        /\ overtaken' = Overtaken(u.id, u.seq)
        /\ batch' = batch \ {u}
        /\ readers' = IF batch = {u} THEN readers \ {Loop} ELSE readers
        /\ UNCHANGED <<conn, record, joined, writer, queue, pc, local, told, newest>>

-----------------------------------------------------------------------------
Join(t) ==
    \/ JoinClaim(t) \/ JoinOutdated(t) \/ JoinRefused(t) \/ JoinValidated(t)
    \/ JoinCommit(t) \/ JoinSuperseded(t) \/ Switch(t) \/ Evict(t) \/ Enter(t)
    \/ JoinWallet(t) \/ JoinAnswer(t)

\* One step of the handler that runs as task t.
Handle(t) ==
    \/ Join(t) \/ Detach(t)
    \/ Leave(t) \/ LeaveOutdated(t)
    \/ UserData(t) \/ UserGone(t) \/ Renew(t)
    \/ Authenticate(t) \/ AuthFailed(t) \/ Revalidate(t) \/ RoomChanged(t) \/ Publish(t)
    \/ Chat(t) \/ Say(t) \/ Move(t) \/ Moved(t) \/ Goto(t) \/ Dropped(t)

Next ==
    \/ \E s \in Sockets : Open(s) \/ Register(s) \/ GoDown(s) \/ OnDisconnect(s)
    \/ \E t \in Tasks : Handle(t)
    \/ \E t \in Tasks, s \in Sockets, q \in Requests : Spawn(t, s, q)
    \/ Tick
    \/ TickEmit

Spec == Init /\ [][Next]_vars

WantsWrite(x) ==
    \/ x \in Tasks /\ pc[x] \in {"claim", "commit", "leave", "user"}
    \/ x \in Sockets /\ conn[x] = "closing"

\* A waiting handler, or disconnect handler, stands in line for the write lock.
StandInLine(x) ==
    /\ WantsWrite(x) /\ x \notin queue /\ ~ CanWrite(x)
    /\ queue' = queue \cup {x}
    /\ UNCHANGED <<conn, record, joined, writer, readers, pc, local, batch, client>>

QueuedNext == Next \/ \E x \in Tasks \cup Sockets : StandInLine(x)

\* tokio polls every woken task, and its RwLock serves its line in order, so a
\* writer in line gets the lock in the end although other writers keep taking
\* it: strong fairness.  Nothing is assumed of clients, of connections going
\* down, or of the motion loop's timer.
Fairness ==
    /\ \A t \in Tasks : SF_vars(Handle(t))
    /\ \A s \in Sockets : SF_vars(OnDisconnect(s))
    /\ \A x \in Tasks \cup Sockets : WF_vars(StandInLine(x))
    /\ WF_vars(TickEmit)

FairSpec == Init /\ [][QueuedNext]_vars /\ Fairness

-----------------------------------------------------------------------------
(* Safety *)

\* One browser token is present at most once in a room, whichever of
\* join-space and set user data brought it there and however those overlapped
\* (supersede_duplicate_presence).
UniquePresence ==
    \A s, x \in known :
        /\ room[s] # NoRoom /\ room[s] = room[x]
        /\ token[s] # NoToken /\ token[s] = token[x]
        => s = x

\* Whenever no transition is under way the adapter delivers to a socket
\* exactly the events of the room its record names: the presence_transition
\* lock "serializes logical presence changes with adapter membership".
AdapterAgreement ==
    NoWriter =>
        \A s \in Sockets : joined[s] = IF room[s] = NoRoom THEN {} ELSE {room[s]}

\* A handler that is about to broadcast what a socket said, did or is still
\* finds that socket in the room it read before its awaits, and so does the
\* motion loop for each of its pending updates: no message from a ghost.
NoGhostTraffic ==
    /\ \A t \in Tasks :
         pc[t] \in {"say", "moved", "publish", "renew"} => room[by[t]] = here[t]
    /\ \A u \in batch : room[u.id] = u.room

\* Only an avatar in a room walks, so that a supersede, a leave or a join
\* never leaves a target behind that the motion loop would later act on.
MotionInRoom == \A s \in Sockets : moving[s] => room[s] # NoRoom

\* Between transitions a receiver displays no avatar that is not in its room,
\* and every avatar of its room that has a name or a model.
RosterExact ==
    Unlocked =>
        \A o \in known : room[o] # NoRoom =>
            LET displayed == {s \in Sockets \ {o} : shown[o][s] # Gone} IN
            /\ displayed \subseteq Members(room[o])
            /\ {s \in Members(room[o]) \ {o} : named[s]} \subseteq displayed

\* Once all emissions are out, a receiver has every avatar it displays at the
\* avatar's position, whatever supersedes, reset numberings and snapshots came
\* between, except where readers of the lock overtook each other and an older
\* position (a late move, or the "new user" of auth) went out after the newest
\* one.  Even then it is a position of the present stay in the room.
PositionsConverge ==
    Unlocked =>
        \A o \in known : \A s \in known \ {o} :
            room[o] # NoRoom /\ shown[o][s] # Gone =>
                \/ shown[o][s] = sseq[s]
                \/ s \in overtaken /\ shown[o][s] < sseq[s]

\* Join handlers of s whose answer is still to come, and auth handlers that
\* read a room.
Answering(s) ==
    \E t \in Tasks :
        /\ by[t] = s
        /\ pc[t] \in {"switch", "evict", "enter", "wallet", "answer", "resolve", "publish"}

\* A connection that is authenticated and in a room has been told its access
\* there: authenticate sets the wallet and then reads the room, a join sets
\* the room and then reads the wallet, so no order of the two misses it.
AccessAnswered ==
    \A s \in known :
        room[s] # NoRoom /\ wallet[s] # NoWallet /\ ~ Answering(s)
            => <<room[s], wallet[s]>> \in told[s]

\* Every access answer given on a connection is for the one wallet it proved:
\* a second signature over the used nonce cannot change the identity under an
\* answer or a handler that is still running.
OneIdentity ==
    \A s \in known :
        /\ \A answer \in told[s] : answer[2] \in {NoWallet, wallet[s]}
        /\ \A t \in Tasks : by[t] = s => who[t] \in {NoWallet, wallet[s]}

-----------------------------------------------------------------------------
(* Action properties *)

\* A socket enters a room only by the commit of a join-space for that room,
\* with a claim that no navigation accepted on it since outranks, be it a
\* join-space or a leave-space, and however long the lookup between the two
\* phases of the join took ("monotonic claimId rejects stale navigation", "a
\* newer claim-aware leave also cancels an in-flight join"); a socket without
\* a record never enters one.
NewestClaimWins ==
    [][\A s \in Sockets :
         room'[s] # room[s] /\ room'[s] # NoRoom =>
            /\ s \in known
            /\ \E t \in Tasks :
                 /\ by[t] = s /\ pc[t] = "commit" /\ pc'[t] # "commit"
                 /\ req[t].op = "join" /\ req[t].room = room'[s]
                 /\ req[t].claim >= newest[s]]_vars

-----------------------------------------------------------------------------
(* Liveness *)

\* Every handler returns: no order in which handlers and the motion loop take
\* the presence_transition lock leaves one of them waiting for ever.
HandlersReturn == \A t \in Tasks : pc[t] # "idle" ~> pc[t] = "idle"

\* A connection that went down is swept: in the end its record is gone and no
\* receiver in a room displays its avatar, although the lock it needs for that
\* is always in use.
GhostsSwept ==
    \A s \in Sockets :
        conn[s] = "closing" ~>
            /\ s \notin known
            /\ \A o \in known : room[o] # NoRoom /\ Unlocked => shown[o][s] = Gone
=============================================================================
