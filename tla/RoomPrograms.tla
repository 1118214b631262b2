---------------------------- MODULE RoomPrograms ----------------------------
(***************************************************************************)
(* The room programs of src/src/realtime/mod.rs: the lazily loaded map     *)
(* ClientsState.room_programs behind one RwLock, the RoomStore files       *)
(* behind that map, the two handlers that read and update a program, the   *)
(* tail of join-space that sends it, and restarts of the process.          *)
(*                                                                         *)
(* A handler is a task as in module Presence.  Presence itself shrinks to  *)
(* the room a socket is in, with its adapter room (AdapterAgreement there  *)
(* is the reason that one variable does for both).                         *)
(***************************************************************************)
EXTENDS Integers

CONSTANTS
    Rooms,       \* space ids
    Sockets,     \* connections
    Tasks,       \* concurrently running handlers
    Contents,    \* room states that pass validate_room_state
    Empty,       \* RoomProgramState::empty
    NoRoom,      \* room_id = None
    NoFile,      \* no such file in DATA_DIR/rooms
    NotLoaded,   \* no such entry in room_programs
    Nobody,      \* the lock has no writer
    Faults,      \* what may fail: subset of {"read", "save"}
    MaxRevision  \* bound on the revision (u64 in the code)

VARIABLES
    place,   \* the room of each socket
    disk,    \* <room>.json
    tmp,     \* <room>.json.tmp
    memory,  \* room_programs
    writer,  \* the task that holds the lock of room_programs for writing
    pc, by, at, req, got,
             \* per task: program counter, socket, room, the event with its
             \* payload, and the record it holds in a local variable
    seen,    \* per socket: the newest revision of its room it was sent
    past,    \* history: the records that were ever in <room>.json
    told     \* history: the records ever sent to a client

local == <<by, at, req, got>>
vars == <<place, disk, tmp, memory, writer, pc, local, seen, past, told>>

Revisions == 0..MaxRevision
Record == [revision : Revisions, content : Contents \cup {Empty}]
Unset  == [revision |-> 0, content |-> Empty]
Unseen == -1

\* "join" stands for the end of join-space; expected is serverRevision, and an
\* absent one is 0.
Request == [op : {"join", "read", "update"}, expected : Revisions,
            content : Contents \cup {Empty}]
Reading(op) == [op |-> op, expected |-> 0, content |-> Empty]

ASSUME NamesAssumption ==
    /\ NoRoom \notin Rooms
    /\ Empty \notin Contents
    /\ NoFile \notin Record /\ NotLoaded \notin Record
    /\ Nobody \notin Sockets \cup Tasks
ASSUME BoundAssumption == MaxRevision \in Nat
ASSUME FaultsAssumption == Faults \subseteq {"read", "save"}

SavePCs == {"write", "rename", "install"}
PCs == {"idle", "access", "load", "fetch", "fill", "cas", "broadcast", "reply"} \cup SavePCs

TypeOK ==
    /\ place \in [Sockets -> Rooms \cup {NoRoom}]
    /\ disk \in [Rooms -> Record \cup {NoFile}]
    /\ tmp \in [Rooms -> Record \cup {NoFile}]
    /\ memory \in [Rooms -> Record \cup {NotLoaded}]
    /\ writer \in Tasks \cup {Nobody}
    /\ pc \in [Tasks -> PCs]
    /\ by \in [Tasks -> Sockets \cup {Nobody}]
    /\ at \in [Tasks -> Rooms \cup {NoRoom}]
    /\ req \in [Tasks -> Request]
    /\ got \in [Tasks -> Record]
    /\ seen \in [Sockets -> Unseen..MaxRevision]
    /\ past \in [Rooms -> SUBSET Record]
    /\ told \in [Rooms -> SUBSET Record]

Init ==
    /\ disk = [r \in Rooms |-> NoFile]
    /\ tmp = [r \in Rooms |-> NoFile]
    /\ past = [r \in Rooms |-> {Unset}]
    /\ told = [r \in Rooms |-> {}]
    /\ place = [s \in Sockets |-> NoRoom]
    /\ memory = [r \in Rooms |-> NotLoaded]
    /\ writer = Nobody
    /\ seen = [s \in Sockets |-> Unseen]
    /\ pc = [t \in Tasks |-> "idle"]
    /\ by = [t \in Tasks |-> Nobody]
    /\ at = [t \in Tasks |-> NoRoom]
    /\ req = [t \in Tasks |-> Reading("read")]
    /\ got = [t \in Tasks |-> Unset]

Unlocked == writer = Nobody

Return(t) ==
    /\ pc' = [pc EXCEPT ![t] = "idle"]
    /\ by' = [by EXCEPT ![t] = Nobody]
    /\ at' = [at EXCEPT ![t] = NoRoom]
    /\ req' = [req EXCEPT ![t] = Reading("read")]
    /\ got' = [got EXCEPT ![t] = Unset]

Proceed(t, to) == pc' = [pc EXCEPT ![t] = to]

Start(t, s, r, q, first) ==
    /\ pc[t] = "idle"
    /\ pc' = [pc EXCEPT ![t] = first]
    /\ by' = [by EXCEPT ![t] = s]
    /\ at' = [at EXCEPT ![t] = r]
    /\ req' = [req EXCEPT ![t] = q]
    /\ got' = got

-----------------------------------------------------------------------------
(* The events of a connection *)

\* join-space has put s in the adapter room of r, and goes on to send it the
\* program.  The numbering of what s has seen starts afresh.
JoinRoom(t, s, r) ==
    /\ Start(t, s, r, Reading("join"), "load")
    /\ place' = [place EXCEPT ![s] = r]
    /\ seen' = [seen EXCEPT ![s] = Unseen]
    /\ UNCHANGED <<disk, tmp, memory, writer, past, told>>

\* leave-space, a supersede or a disconnect; running handlers go on.
LeaveRoom(s) ==
    /\ place[s] # NoRoom
    /\ place' = [place EXCEPT ![s] = NoRoom]
    /\ seen' = [seen EXCEPT ![s] = Unseen]
    /\ UNCHANGED <<disk, tmp, memory, writer, pc, local, past, told>>

\* request room program, past its checks: the room is the socket's own.
Ask(t, s) ==
    /\ place[s] # NoRoom
    /\ Start(t, s, place[s], Reading("read"), "load")
    /\ UNCHANGED <<place, disk, tmp, memory, writer, seen, past, told>>

\* room program update, past room_of: "join the space first".
Submit(t, s, expected, content) ==
    /\ place[s] # NoRoom
    /\ Start(t, s, place[s],
             [op |-> "update", expected |-> expected, content |-> content], "access")
    /\ UNCHANGED <<place, disk, tmp, memory, writer, seen, past, told>>

\* The rest of its checks (rate limit, wallet, the awaited access, validation)
\* let it pass, or send a room error.
Admit(t) ==
    /\ pc[t] = "access"
    /\ Proceed(t, "load")
    /\ UNCHANGED <<place, disk, tmp, memory, writer, local, seen, past, told>>

Refuse(t) ==
    /\ pc[t] = "access"
    /\ Return(t)
    /\ UNCHANGED <<place, disk, tmp, memory, writer, seen, past, told>>

-----------------------------------------------------------------------------
(* room_program: the record in memory, loaded on first access *)

AfterLoad(t) == IF req[t].op = "update" THEN "cas" ELSE "reply"

Hit(t) ==
    /\ pc[t] = "load"
    /\ Unlocked
    /\ memory[at[t]] # NotLoaded
    /\ got' = [got EXCEPT ![t] = memory[at[t]]]
    /\ Proceed(t, AfterLoad(t))
    /\ UNCHANGED <<place, disk, tmp, memory, writer, by, at, req, seen, past, told>>

Miss(t) ==
    /\ pc[t] = "load"
    /\ Unlocked
    /\ memory[at[t]] = NotLoaded
    /\ Proceed(t, "fetch")
    /\ UNCHANGED <<place, disk, tmp, memory, writer, local, seen, past, told>>

\* RoomStore.load with Ok(None) replaced by the empty program.
MutantStored(r) == disk[r]   \* mutant: Ok(None) not handled
Stored(r) == IF disk[r] = NoFile THEN Unset ELSE disk[r]

\* store.load, without a lock: the file, or an error (I/O or JSON), which
\* room_program replaces by the empty program as well.
Fetch(t) ==
    /\ pc[t] = "fetch"
    /\ \/ got' = [got EXCEPT ![t] = Stored(at[t])]
       \/ "read" \in Faults /\ got' = [got EXCEPT ![t] = Unset]
    /\ Proceed(t, "fill")
    /\ UNCHANGED <<place, disk, tmp, memory, writer, by, at, req, seen, past, told>>

\* Mutant: insert instead of or_insert.
MutantFill(t) ==
    /\ pc[t] = "fill"
    /\ Unlocked
    /\ memory' = [memory EXCEPT ![at[t]] = got[t]]
    /\ Proceed(t, AfterLoad(t))
    /\ UNCHANGED <<place, disk, tmp, writer, local, seen, past, told>>

\* entry(room).or_insert(loaded): a record another task put there stays.
Fill(t) ==
    LET r == at[t] IN
    /\ pc[t] = "fill"
    /\ Unlocked
    /\ memory' = [memory EXCEPT ![r] = IF @ = NotLoaded THEN got[t] ELSE @]
    /\ got' = [got EXCEPT ![t] = memory'[r]]
    /\ Proceed(t, AfterLoad(t))
    /\ UNCHANGED <<place, disk, tmp, writer, by, at, req, seen, past, told>>

-----------------------------------------------------------------------------
(* apply_room_update: compare and set under the write lock, saved first *)

\* stale_revision: the sender gets the current record.
Stale(t) ==
    LET r == at[t] IN
    /\ pc[t] = "cas"
    /\ Unlocked
    /\ memory[r].revision # req[t].expected
    /\ got' = [got EXCEPT ![t] = memory[r]]
    /\ Proceed(t, "reply")
    /\ UNCHANGED <<place, disk, tmp, memory, writer, by, at, req, seen, past, told>>

\* Mutant: the revisions are not compared.
MutantAccept(t) ==
    LET now == memory[at[t]].revision IN
    /\ pc[t] = "cas"
    /\ Unlocked
    /\ now < MaxRevision
    /\ got' = [got EXCEPT ![t] = [revision |-> now + 1, content |-> req[t].content]]
    /\ writer' = t
    /\ Proceed(t, "write")
    /\ UNCHANGED <<place, disk, tmp, memory, by, at, req, seen, past, told>>

Accept(t) ==
    LET now == memory[at[t]].revision IN
    /\ pc[t] = "cas"
    /\ Unlocked
    /\ now = req[t].expected
    /\ now < MaxRevision
    /\ got' = [got EXCEPT ![t] = [revision |-> now + 1, content |-> req[t].content]]
    /\ writer' = t
    /\ Proceed(t, "write")
    /\ UNCHANGED <<place, disk, tmp, memory, by, at, req, seen, past, told>>

Write(t) ==
    /\ pc[t] = "write"
    /\ tmp' = [tmp EXCEPT ![at[t]] = got[t]]
    /\ Proceed(t, "rename")
    /\ UNCHANGED <<place, disk, memory, writer, local, seen, past, told>>

Rename(t) ==
    LET r == at[t] IN
    /\ pc[t] = "rename"
    /\ disk' = [disk EXCEPT ![r] = tmp[r]]
    /\ tmp' = [tmp EXCEPT ![r] = NoFile]
    /\ past' = [past EXCEPT ![r] = @ \cup {tmp[r]}]
    /\ Proceed(t, "install")
    /\ UNCHANGED <<place, memory, writer, local, seen, told>>

\* Mutant: the error is logged, and the update goes on.
MutantSaveFails(t) ==
    /\ "save" \in Faults
    /\ pc[t] \in {"write", "rename"}
    /\ Proceed(t, "install")
    /\ UNCHANGED <<place, disk, tmp, memory, writer, local, seen, past, told>>

\* write or rename fails: storage_failed, with the unchanged record.
SaveFails(t) ==
    /\ "save" \in Faults
    /\ pc[t] \in {"write", "rename"}
    /\ got' = [got EXCEPT ![t] = memory[at[t]]]
    /\ writer' = Nobody
    /\ Proceed(t, "reply")
    /\ UNCHANGED <<place, disk, tmp, memory, by, at, req, seen, past, told>>

Install(t) ==
    /\ pc[t] = "install"
    /\ memory' = [memory EXCEPT ![at[t]] = got[t]]
    /\ writer' = Nobody
    /\ Proceed(t, "broadcast")
    /\ UNCHANGED <<place, disk, tmp, local, seen, past, told>>

-----------------------------------------------------------------------------
(* Answers.  A client (external) keeps the newest revision it was sent of    *)
(* the room it is in.                                                        *)

SentTo(receivers, r, v) ==
    [s \in Sockets |-> IF s \in receivers /\ place[s] = r /\ seen[s] < v.revision
                       THEN v.revision ELSE seen[s]]

\* Mutant: the sender is left out, as in the broadcasts of presence.
MutantBroadcast(t) ==
    LET r == at[t] IN
    /\ pc[t] = "broadcast"
    /\ seen' = SentTo(Sockets \ {by[t]}, r, got[t])
    /\ told' = [told EXCEPT ![r] = @ \cup {got[t]}]
    /\ Return(t)
    /\ UNCHANGED <<place, disk, tmp, memory, writer, past>>

\* The applied record goes to the whole room, whoever is in it by now.
Broadcast(t) ==
    LET r == at[t] IN
    /\ pc[t] = "broadcast"
    /\ seen' = SentTo(Sockets, r, got[t])
    /\ told' = [told EXCEPT ![r] = @ \cup {got[t]}]
    /\ Return(t)
    /\ UNCHANGED <<place, disk, tmp, memory, writer, past>>

\* The program that was asked for, or the current one with the rejection.
Reply(t) ==
    LET r == at[t] IN
    /\ pc[t] = "reply"
    /\ seen' = SentTo({by[t]}, r, got[t])
    /\ told' = [told EXCEPT ![r] = @ \cup {got[t]}]
    /\ Return(t)
    /\ UNCHANGED <<place, disk, tmp, memory, writer, past>>

-----------------------------------------------------------------------------
\* The process dies and is started again; only the files remain.  A file that
\* was being written when it died is <room>.json.tmp, which nothing reads.
Restart ==
    /\ place' = [s \in Sockets |-> NoRoom]
    /\ memory' = [r \in Rooms |-> NotLoaded]
    /\ writer' = Nobody
    /\ seen' = [s \in Sockets |-> Unseen]
    /\ pc' = [t \in Tasks |-> "idle"]
    /\ by' = [t \in Tasks |-> Nobody]
    /\ at' = [t \in Tasks |-> NoRoom]
    /\ req' = [t \in Tasks |-> Reading("read")]
    /\ got' = [t \in Tasks |-> Unset]
    /\ UNCHANGED <<disk, tmp, past, told>>

Apply(t) ==
    \/ Stale(t) \/ Accept(t) \/ Write(t) \/ Rename(t) \/ SaveFails(t) \/ Install(t)

Handle(t) ==
    \/ Admit(t) \/ Refuse(t)
    \/ Hit(t) \/ Miss(t) \/ Fetch(t) \/ Fill(t)
    \/ Apply(t) \/ Broadcast(t) \/ Reply(t)

Arrive(t, s) ==
    \/ \E r \in Rooms : JoinRoom(t, s, r)
    \/ Ask(t, s)
    \/ \E e \in Revisions, c \in Contents : Submit(t, s, e, c)

Next ==
    \/ \E t \in Tasks : Handle(t)
    \/ \E t \in Tasks, s \in Sockets : Arrive(t, s)
    \/ \E s \in Sockets : LeaveRoom(s)
    \/ Restart

Spec == Init /\ [][Next]_vars

-----------------------------------------------------------------------------
(* Properties *)

\* Memory never runs ahead of, or falls behind, the file: while no update is
\* being saved the loaded record is the stored one, however concurrent first
\* accesses, updates and failed saves overlapped ("Persists before returning").
MemoryIsDurable ==
    Unlocked => \A r \in Rooms : memory[r] \in {NotLoaded, Stored(r)}

\* Every record a client was ever sent is durable: after any number of
\* restarts the room is at its revision or a later one, and never has another
\* content under its revision ("written to DATA_DIR/rooms/<id>.json before
\* broadcast. Survives restarts.").
ToldIsDurable ==
    \A r \in Rooms : \A v \in told[r] :
        /\ v.revision <= Stored(r).revision
        /\ v.revision = Stored(r).revision => v = Stored(r)

\* A handler that is about to send members of r a record.
Informing(r) == \E t \in Tasks : at[t] = r /\ pc[t] \in {"install", "broadcast"}
Joining(s)   == \E t \in Tasks : by[t] = s /\ req[t].op = "join"

\* Once the answers are out every member of a room has been sent its current
\* revision, so that its next update is not refused as stale: nobody falls
\* between the snapshot of the join and the broadcasts.
MembersUpToDate ==
    \A s \in Sockets :
        LET r == place[s] IN
        r # NoRoom /\ ~ Informing(r) /\ ~ Joining(s)
            => memory[r] # NotLoaded /\ seen[s] = memory[r].revision

\* The updates that are not decided: nothing was renamed or refused yet.
Undecided ==
    {t \in Tasks : req[t].op = "update" /\ pc[t] \notin {"idle", "install", "broadcast", "reply"}}
Update(t) == [client |-> t, room |-> at[t], expected |-> req[t].expected,
              content |-> req[t].content]

\* The register of RoomRegister: renaming the file is the commit.
Register == INSTANCE RoomRegister WITH
    Clients <- Tasks,
    value <- [r \in Rooms |-> Stored(r)],
    asked <- {Update(t) : t \in Undecided}

\* Updates are a compare-and-set, with the revision their client sent, on one
\* durable register per room, each takes effect at most once, and only
\* committed records are sent out.
ImplementsRegister == Register!Spec
=============================================================================
