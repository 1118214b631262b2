------------------------- MODULE RoomProgramsProofs -------------------------
(***************************************************************************)
(* Proofs about RoomPrograms for any number of rooms, sockets and tasks:   *)
(* as long as reading a file does not fail, memory and what clients were   *)
(* told never diverge from the files, and the whole is the compare-and-set *)
(* register of RoomRegister.                                               *)
(***************************************************************************)
EXTENDS RoomPrograms, TLAPS

USE NamesAssumption, BoundAssumption DEF NamesAssumption, BoundAssumption

\* RoomStore.load never answers with an error.
ReadsWork == "read" \notin Faults

-----------------------------------------------------------------------------
(* The inductive invariant *)

\* A running handler has a socket and a room, and only updates save.
TaskInv ==
    \A t \in Tasks :
        /\ pc[t] # "idle" => by[t] \in Sockets /\ at[t] \in Rooms
        /\ pc[t] \in {"access", "cas", "broadcast"} \cup SavePCs => req[t].op = "update"
        /\ req[t].op = "update" => req[t].content \in Contents

\* The handlers between the compare and the set are those that hold the lock.
LockInv == \A t \in Tasks : pc[t] \in SavePCs <=> writer = t

\* Nothing unloads a room, and nobody else renames the file that is written.
LoadedInv ==
    \A t \in Tasks :
        /\ pc[t] \in {"cas"} \cup SavePCs => memory[at[t]] # NotLoaded
        /\ pc[t] = "rename" => tmp[at[t]] # NoFile

\* A save under way is the successor of the stored record; once renamed it is
\* the stored record.
SaveInv ==
    \A t \in Tasks :
        LET r == at[t] IN
        /\ pc[t] \in {"write", "rename"} =>
             /\ memory[r] = Stored(r)
             /\ req[t].expected = Stored(r).revision
             /\ got[t] = [revision |-> Stored(r).revision + 1, content |-> req[t].content]
        /\ pc[t] = "rename" => tmp[r] = got[t]
        /\ pc[t] = "install" => disk[r] = got[t]

\* Memory is the stored record except between the rename and the set.
MemoryInv ==
    \A r \in Rooms :
        \/ memory[r] \in {NotLoaded, Stored(r)}
        \/ \E t \in Tasks : pc[t] = "install" /\ at[t] = r

\* What a handler read, and will put into memory or send out, was stored; while
\* nobody has put the room into memory, what it read still is.
LoadInv ==
    \A t \in Tasks :
        LET r == at[t] IN
        /\ pc[t] \in {"fill", "reply", "install", "broadcast"} => got[t] \in past[r]
        /\ pc[t] = "fill" /\ memory[r] = NotLoaded => got[t] = Stored(r)

\* The stored record is the last of its past, and only the past was told.
PastInv ==
    \A r \in Rooms :
        /\ Stored(r) \in past[r]
        /\ told[r] \subseteq past[r]
        /\ \A v \in past[r] :
             /\ v.revision <= Stored(r).revision
             /\ v.revision = Stored(r).revision => v = Stored(r)

TypedInv == TypeOK /\ TaskInv /\ LockInv /\ LoadedInv
IInv == TypedInv /\ SaveInv /\ MemoryInv /\ LoadInv /\ PastInv

-----------------------------------------------------------------------------
(* Types *)

LEMMA UnsetType == Unset \in Record
  BY DEF Unset, Record, Revisions

LEMMA StoredType == ASSUME TypeOK, NEW r \in Rooms PROVE Stored(r) \in Record
  BY UnsetType DEF TypeOK, Stored

LEMMA ReadingType ==
  /\ Reading("join") \in Request
  /\ Reading("read") \in Request
  BY DEF Reading, Request, Revisions

LEMMA InitTyped == Init => TypedInv
  BY UnsetType, ReadingType
  DEF Init, TypedInv, TypeOK, TaskInv, LockInv, LoadedInv, PCs, SavePCs, Unseen, Reading, Record

\* Sending a record keeps the types of what clients have seen.
LEMMA SentToType ==
  ASSUME TypeOK, NEW receivers, NEW r, NEW v \in Record
  PROVE  SentTo(receivers, r, v) \in [Sockets -> Unseen..MaxRevision]
  BY DEF SentTo, TypeOK, Record, Revisions, Unseen

\* A task that returns is idle, and the others are as they were.
LEMMA ReturnTyped ==
  ASSUME TypedInv, NEW t \in Tasks, Return(t)
  PROVE  /\ TaskInv'
         /\ pc' \in [Tasks -> PCs] /\ by' \in [Tasks -> Sockets \cup {Nobody}]
         /\ at' \in [Tasks -> Rooms \cup {NoRoom}] /\ req' \in [Tasks -> Request]
         /\ got' \in [Tasks -> Record]
  BY UnsetType, ReadingType DEF Return, TypedInv, TypeOK, TaskInv, PCs, SavePCs, Reading

LEMMA StartTyped ==
  ASSUME TypedInv, NEW t \in Tasks, NEW s \in Sockets, NEW r \in Rooms, NEW q \in Request,
         NEW first \in {"access", "load"}, Start(t, s, r, q, first),
         q.op = "update" => q.content \in Contents,
         first = "access" => q.op = "update"
  PROVE  /\ TaskInv'
         /\ pc' \in [Tasks -> PCs] /\ by' \in [Tasks -> Sockets \cup {Nobody}]
         /\ at' \in [Tasks -> Rooms \cup {NoRoom}] /\ req' \in [Tasks -> Request]
         /\ got' \in [Tasks -> Record]
  BY DEF Start, TypedInv, TypeOK, TaskInv, PCs, SavePCs

LEMMA ArriveTyped ==
  ASSUME TypedInv, NEW t \in Tasks, NEW s \in Sockets, Arrive(t, s)
  PROVE  TypedInv'
<1>1. ASSUME NEW r \in Rooms, JoinRoom(t, s, r) PROVE TypeOK' /\ TaskInv'
  BY <1>1, StartTyped, ReadingType DEF JoinRoom, TypedInv, TypeOK, Reading, Unseen
<1>2. CASE Ask(t, s)
  <2>1. TypeOK' /\ TaskInv'
    BY <1>2, StartTyped, ReadingType DEF Ask, TypedInv, TypeOK, Reading
  <2> QED BY <1>2, <2>1 DEF Ask, Start, TypedInv, TypeOK, LockInv, LoadedInv, SavePCs
<1>3. ASSUME NEW e \in Revisions, NEW c \in Contents, Submit(t, s, e, c) PROVE TypedInv'
  <2>1. [op |-> "update", expected |-> e, content |-> c] \in Request
    BY DEF Request
  <2>2. TypeOK' /\ TaskInv'
    BY <1>3, <2>1, StartTyped DEF Submit, TypedInv, TypeOK
  <2> QED BY <1>3, <2>2 DEF Submit, Start, TypedInv, TypeOK, LockInv, LoadedInv, SavePCs
<1>4. ASSUME NEW r \in Rooms, JoinRoom(t, s, r) PROVE TypedInv'
  BY <1>1, <1>4 DEF JoinRoom, Start, TypedInv, TypeOK, LockInv, LoadedInv, SavePCs
<1> QED BY <1>2, <1>3, <1>4 DEF Arrive

LEMMA ReturnLocks ==
  ASSUME TypedInv, NEW t \in Tasks, pc[t] \notin SavePCs, Return(t),
         UNCHANGED <<memory, tmp, writer>>
  PROVE  LockInv' /\ LoadedInv'
  BY DEF Return, TypedInv, TypeOK, LockInv, LoadedInv, SavePCs

LEMMA HandleTyped ==
  ASSUME TypedInv, NEW t \in Tasks, Handle(t)
  PROVE  TypedInv'
<1> USE DEF TypedInv
<1>1. CASE Admit(t)
  BY <1>1 DEF Admit, Proceed, TypeOK, TaskInv, LockInv, LoadedInv, PCs, SavePCs, local
<1>2. CASE Refuse(t)
  BY <1>2, ReturnTyped, ReturnLocks DEF Refuse, TypeOK, SavePCs
<1>3. CASE Hit(t)
  BY <1>3 DEF Hit, Proceed, AfterLoad, TypeOK, TaskInv, LockInv, LoadedInv, PCs, SavePCs
<1>4. CASE Miss(t)
  BY <1>4 DEF Miss, Proceed, TypeOK, TaskInv, LockInv, LoadedInv, PCs, SavePCs, local
<1>5. CASE Fetch(t)
  <2>1. Stored(at[t]) \in Record
    BY <1>5, StoredType DEF Fetch, TaskInv
  <2> QED BY <1>5, <2>1, UnsetType
          DEF Fetch, Proceed, TypeOK, TaskInv, LockInv, LoadedInv, PCs, SavePCs
<1>6. CASE Fill(t)
  <2>1. memory' \in [Rooms -> Record \cup {NotLoaded}] /\ memory'[at[t]] \in Record
    BY <1>6 DEF Fill, TypeOK, TaskInv
  <2>2. TypeOK' /\ TaskInv'
    BY <1>6, <2>1 DEF Fill, Proceed, AfterLoad, TypeOK, TaskInv, PCs, SavePCs
  <2>3. LockInv' /\ LoadedInv'
    BY <1>6, <2>1
    DEF Fill, Proceed, AfterLoad, TypeOK, TaskInv, LockInv, LoadedInv, PCs, SavePCs
  <2> QED BY <2>2, <2>3
<1>7. CASE Stale(t)
  <2>1. memory[at[t]] \in Record
    BY <1>7 DEF Stale, TypeOK, TaskInv, LoadedInv
  <2> QED BY <1>7, <2>1 DEF Stale, Proceed, TypeOK, TaskInv, LockInv, LoadedInv, PCs, SavePCs
<1>8. CASE Accept(t)
  <2>1. memory[at[t]] \in Record
    BY <1>8 DEF Accept, TypeOK, TaskInv, LoadedInv
  <2>2. got'[t] \in Record /\ got' \in [Tasks -> Record]
    BY <1>8, <2>1 DEF Accept, TypeOK, TaskInv, Record, Revisions
  <2>3. TypeOK' /\ TaskInv'
    BY <1>8, <2>2 DEF Accept, Proceed, TypeOK, TaskInv, PCs, SavePCs
  <2>4. LockInv' /\ LoadedInv'
    BY <1>8 DEF Accept, Proceed, Unlocked, TypeOK, LockInv, LoadedInv, SavePCs
  <2> QED BY <2>3, <2>4
<1>9. CASE Write(t)
  BY <1>9 DEF Write, Proceed, TypeOK, TaskInv, LockInv, LoadedInv, PCs, SavePCs, local, Record
<1>10. CASE Rename(t)
  <2>1. tmp[at[t]] \in Record /\ at[t] \in Rooms
    BY <1>10 DEF Rename, TypeOK, TaskInv, LoadedInv
  <2>2. TypeOK' /\ TaskInv'
    BY <1>10, <2>1 DEF Rename, Proceed, TypeOK, TaskInv, PCs, SavePCs, local
  <2>3. LockInv' /\ LoadedInv'
    BY <1>10 DEF Rename, Proceed, TypeOK, LockInv, LoadedInv, SavePCs, local
  <2> QED BY <2>2, <2>3
<1>11. CASE SaveFails(t)
  <2>1. memory[at[t]] \in Record
    BY <1>11 DEF SaveFails, TypeOK, TaskInv, LoadedInv, SavePCs
  <2> QED BY <1>11, <2>1
          DEF SaveFails, Proceed, TypeOK, TaskInv, LockInv, LoadedInv, PCs, SavePCs
<1>12. CASE Install(t)
  BY <1>12 DEF Install, Proceed, TypeOK, TaskInv, LockInv, LoadedInv, PCs, SavePCs, local
<1>13. CASE Broadcast(t)
  BY <1>13, ReturnTyped, ReturnLocks, SentToType DEF Broadcast, TypeOK, SavePCs, TaskInv
<1>14. CASE Reply(t)
  BY <1>14, ReturnTyped, ReturnLocks, SentToType DEF Reply, TypeOK, SavePCs, TaskInv
<1> HIDE DEF TypedInv
<1> QED BY <1>1, <1>2, <1>3, <1>4, <1>5, <1>6, <1>7, <1>8, <1>9, <1>10, <1>11, <1>12, <1>13, <1>14
        DEF Handle, Apply

LEMMA StepTyped == TypedInv /\ [Next]_vars => TypedInv'
<1> SUFFICES ASSUME TypedInv, [Next]_vars PROVE TypedInv'
  OBVIOUS
<1>1. ASSUME NEW t \in Tasks, Handle(t) PROVE TypedInv'
  BY <1>1, HandleTyped
<1>2. ASSUME NEW t \in Tasks, NEW s \in Sockets, Arrive(t, s) PROVE TypedInv'
  BY <1>2, ArriveTyped
<1>3. ASSUME NEW s \in Sockets, LeaveRoom(s) PROVE TypedInv'
  BY <1>3 DEF LeaveRoom, TypedInv, TypeOK, TaskInv, LockInv, LoadedInv, Unseen, local
<1>4. CASE Restart
  BY <1>4, UnsetType, ReadingType
  DEF Restart, TypedInv, TypeOK, TaskInv, LockInv, LoadedInv, PCs, SavePCs, Unseen, Reading
<1>5. CASE UNCHANGED vars
  BY <1>5 DEF vars, local, TypedInv, TypeOK, TaskInv, LockInv, LoadedInv
<1> QED BY <1>1, <1>2, <1>3, <1>4, <1>5 DEF Next

\* Every variable keeps its type, whatever fails: no handler finds its room
\* missing from memory after loading it (the expect in apply_room_update), and
\* no save finds its temporary file gone.
THEOREM ProgramTypes == Spec => []TypeOK
<1>1. Spec => []TypedInv
  BY InitTyped, StepTyped, PTL DEF Spec
<1> QED BY <1>1, PTL DEF TypedInv

-----------------------------------------------------------------------------
(* Durability *)

Durable == SaveInv /\ MemoryInv /\ LoadInv /\ PastInv

LEMMA InitDurable == Init => Durable
  BY DEF Init, Durable, SaveInv, MemoryInv, LoadInv, PastInv, Stored, Unset, SavePCs

\* While nobody renames a file the stored records stay.
LEMMA SameStored == ASSUME UNCHANGED disk PROVE \A r : Stored(r)' = Stored(r)
  BY DEF Stored

\* Steps that change no record, anywhere, keep the invariant as long as they
\* put no task into the middle of a save.
LEMMA QuietStep ==
  ASSUME TypedInv, Durable, NEW t \in Tasks,
         UNCHANGED <<disk, tmp, memory, past>>,
         \A r \in Rooms : told'[r] \subseteq past[r],
         pc[t] \notin SavePCs, pc'[t] \notin SavePCs,
         \A x \in Tasks \ {t} :
            pc'[x] = pc[x] /\ at'[x] = at[x] /\ req'[x] = req[x] /\ got'[x] = got[x],
         pc'[t] \in {"reply", "broadcast"} => got'[t] \in past[at'[t]],
         pc'[t] # "fill"
  PROVE  Durable'
<1>1. SaveInv'
  BY SameStored DEF SaveInv, Durable, SavePCs
<1>2. MemoryInv'
  <2>1. \A x \in Tasks : pc[x] = "install" => x # t /\ pc'[x] = "install" /\ at'[x] = at[x]
    BY DEF SavePCs
  <2> QED BY <2>1, SameStored DEF MemoryInv, Durable
<1>3. LoadInv'
  BY SameStored DEF LoadInv, Durable, SavePCs
<1>4. PastInv'
  BY SameStored DEF PastInv, Durable
<1> QED BY <1>1, <1>2, <1>3, <1>4 DEF Durable

LEMMA ArriveDurable ==
  ASSUME TypedInv, Durable, NEW t \in Tasks, NEW s \in Sockets, Arrive(t, s)
  PROVE  Durable'
<1>1. \E r, q : \E first \in {"load", "access"} : Start(t, s, r, q, first)
  BY DEF Arrive, JoinRoom, Ask, Submit
<1>2. UNCHANGED <<disk, tmp, memory, past, told>>
  BY DEF Arrive, JoinRoom, Ask, Submit
<1> QED BY <1>1, <1>2, QuietStep DEF Start, TypedInv, TypeOK, SavePCs, Durable, PastInv

\* With no save under way a loaded room is the stored one.
LEMMA UnlockedMemory ==
  ASSUME TypedInv, Durable, Unlocked, NEW r \in Rooms
  PROVE  memory[r] \in {NotLoaded, Stored(r)}
  BY DEF Unlocked, TypedInv, LockInv, SavePCs, Durable, MemoryInv

LEMMA HandleDurable ==
  ASSUME ReadsWork, TypedInv, Durable, NEW t \in Tasks, Handle(t)
  PROVE  Durable'
<1> USE DEF TypedInv
<1>1. CASE Admit(t) \/ Refuse(t)
  BY <1>1, QuietStep DEF Admit, Refuse, Proceed, Return, TypeOK, local, SavePCs, Durable, PastInv
<1>2. CASE Hit(t)
  <2>1. memory[at[t]] \in past[at[t]]
    BY <1>2, UnlockedMemory DEF Hit, TaskInv, Durable, PastInv
  <2> QED BY <1>2, <2>1, QuietStep
          DEF Hit, Proceed, AfterLoad, TypeOK, SavePCs, Durable, PastInv
<1>3. CASE Miss(t)
  BY <1>3, QuietStep DEF Miss, Proceed, TypeOK, local, SavePCs, Durable, PastInv
<1>4. CASE Fetch(t)
  <2>1. got'[t] = Stored(at[t]) /\ at[t] \in Rooms
    BY <1>4 DEF Fetch, ReadsWork, TypeOK, TaskInv
  <2>2. SaveInv' /\ MemoryInv'
    BY <1>4, SameStored DEF Fetch, Proceed, TypeOK, Durable, SaveInv, MemoryInv, SavePCs
  <2>3. LoadInv' /\ PastInv'
    BY <1>4, <2>1, SameStored DEF Fetch, Proceed, TypeOK, Durable, LoadInv, PastInv
  <2> QED BY <2>2, <2>3 DEF Durable
<1>5. CASE Fill(t)
  <2> DEFINE r == at[t]
  <2>1. r \in Rooms /\ memory[r] \in {NotLoaded, Stored(r)}
    BY <1>5, UnlockedMemory DEF Fill, TaskInv
  <2>2. memory'[r] = Stored(r) /\ got'[t] = Stored(r)
    BY <1>5, <2>1 DEF Fill, TypeOK, Durable, LoadInv
  <2>3. \A x \in Tasks : pc[x] \notin SavePCs
    BY <1>5 DEF Fill, Unlocked, LockInv
  <2>4. SaveInv' /\ MemoryInv'
    BY <1>5, <2>1, <2>2, <2>3, SameStored
    DEF Fill, Proceed, AfterLoad, TypeOK, Durable, SaveInv, MemoryInv, SavePCs
  <2>5. LoadInv' /\ PastInv'
    BY <1>5, <2>1, <2>2, SameStored
    DEF Fill, Proceed, AfterLoad, TypeOK, Durable, LoadInv, PastInv
  <2> QED BY <2>4, <2>5 DEF Durable
<1>6. CASE Stale(t)
  <2>1. memory[at[t]] \in past[at[t]]
    BY <1>6, UnlockedMemory DEF Stale, TaskInv, LoadedInv, Durable, PastInv
  <2> QED BY <1>6, <2>1, QuietStep DEF Stale, Proceed, TypeOK, SavePCs, Durable, PastInv
<1>7. CASE Accept(t)
  <2> DEFINE r == at[t]
  <2>1. r \in Rooms /\ memory[r] = Stored(r)
    BY <1>7, UnlockedMemory DEF Accept, TaskInv, LoadedInv
  <2>2. SaveInv'
    BY <1>7, <2>1, SameStored DEF Accept, Proceed, TypeOK, Durable, SaveInv, SavePCs
  <2>3. MemoryInv' /\ LoadInv' /\ PastInv'
    BY <1>7, SameStored DEF Accept, Proceed, TypeOK, Durable, MemoryInv, LoadInv, PastInv
  <2> QED BY <2>2, <2>3 DEF Durable
<1>8. CASE Write(t)
  <2>1. SaveInv'
    BY <1>8, SameStored
    DEF Write, Proceed, TypeOK, TaskInv, LockInv, Durable, SaveInv, SavePCs, local
  <2>2. MemoryInv' /\ LoadInv' /\ PastInv'
    BY <1>8, SameStored DEF Write, Proceed, TypeOK, Durable, MemoryInv, LoadInv, PastInv, local
  <2> QED BY <2>1, <2>2 DEF Durable
<1>9. CASE Rename(t)
  <2> DEFINE r == at[t]
  <2>1. r \in Rooms /\ tmp[r] = got[t] /\ memory[r] = Stored(r)
    BY <1>9 DEF Rename, TaskInv, Durable, SaveInv
  <2>2. disk' = [disk EXCEPT ![r] = got[t]] /\ got[t] \in Record /\ at' = at
    BY <1>9, <2>1 DEF Rename, TypeOK, local
  <2>3. Stored(r)' = got[t] /\ \A x \in Rooms \ {r} : Stored(x)' = Stored(x)
    BY <2>1, <2>2 DEF Stored, TypeOK
  <2>4. \A x \in Tasks : pc[x] \in SavePCs => x = t
    BY <1>9 DEF Rename, LockInv, SavePCs
  <2>5. got[t].revision = Stored(r).revision + 1 /\ Stored(r).revision \in Nat
    <3>1. Stored(r) \in Record
      BY <2>1, StoredType
    <3>2. Stored(r).revision \in Nat
      BY <3>1 DEF Record, Revisions
    <3>3. got[t] = [revision |-> Stored(r).revision + 1, content |-> req[t].content]
      BY <1>9 DEF Rename, Durable, SaveInv
    <3> QED BY <3>2, <3>3
  <2>6. past' = [past EXCEPT ![r] = @ \cup {got[t]}]
    BY <1>9, <2>1 DEF Rename
  <2>7. SaveInv'
    BY <1>9, <2>1, <2>2, <2>4 DEF Rename, Proceed, TypeOK, TaskInv, SaveInv, SavePCs, local
  <2>8. MemoryInv'
    BY <1>9, <2>1, <2>3, <2>4 DEF Rename, Proceed, TypeOK, Durable, MemoryInv, SavePCs, local
  <2>9. LoadInv'
    BY <1>9, <2>1, <2>3, <2>6
    DEF Rename, Proceed, TypeOK, TaskInv, LoadedInv, Durable, LoadInv, SavePCs, local
  <2>10. PastInv'
    <3>1. ASSUME NEW x \in Rooms, x # r
          PROVE  Stored(x)' = Stored(x) /\ past'[x] = past[x] /\ told'[x] = told[x]
      BY <1>9, <3>1, <2>3, <2>6 DEF Rename, TypeOK
    <3>2. past'[r] = past[r] \cup {got[t]} /\ told'[r] = told[r]
      BY <1>9, <2>1, <2>6 DEF Rename, TypeOK
    <3>3. \A v \in past[r] : v.revision \in Nat
      BY <2>1 DEF TypeOK, Record, Revisions
    <3>4. ASSUME NEW v \in past[r]
          PROVE  v.revision <= got[t].revision /\ v.revision # got[t].revision
      BY <3>3, <2>1, <2>5 DEF Durable, PastInv
    <3>5. ASSUME NEW x \in Rooms, x # r
          PROVE  /\ Stored(x)' \in past'[x]
                 /\ told'[x] \subseteq past'[x]
                 /\ \A v \in past'[x] :
                      /\ v.revision <= Stored(x)'.revision
                      /\ v.revision = Stored(x)'.revision => v = Stored(x)'
      BY <3>1, <3>5 DEF Durable, PastInv
    <3>6. /\ Stored(r)' \in past'[r]
          /\ told'[r] \subseteq past'[r]
          /\ \A v \in past'[r] :
               /\ v.revision <= Stored(r)'.revision
               /\ v.revision = Stored(r)'.revision => v = Stored(r)'
      BY <3>2, <3>4, <2>1, <2>2, <2>3, <2>5 DEF Durable, PastInv
    <3> QED BY <3>5, <3>6, <2>2 DEF PastInv
  <2> QED BY <2>7, <2>8, <2>9, <2>10 DEF Durable
<1>10. CASE SaveFails(t)
  <2> DEFINE r == at[t]
  <2>1. r \in Rooms /\ memory[r] = Stored(r) /\ memory[r] \in past[r]
    BY <1>10 DEF SaveFails, TaskInv, Durable, SaveInv, PastInv
  <2>2. SaveInv' /\ MemoryInv'
    BY <1>10, SameStored
    DEF SaveFails, Proceed, TypeOK, Durable, SaveInv, MemoryInv, SavePCs
  <2>3. LoadInv' /\ PastInv'
    BY <1>10, <2>1, SameStored DEF SaveFails, Proceed, TypeOK, Durable, LoadInv, PastInv
  <2> QED BY <2>2, <2>3 DEF Durable
<1>11. CASE Install(t)
  <2> DEFINE r == at[t]
  <2>1. r \in Rooms /\ disk[r] = got[t] /\ got[t] \in Record
    BY <1>11 DEF Install, TaskInv, Durable, SaveInv, TypeOK
  <2>2. Stored(r) = got[t] /\ memory'[r] = got[t]
    BY <1>11, <2>1 DEF Install, Stored, TypeOK
  <2>3. \A x \in Tasks : pc[x] \in SavePCs => x = t
    BY <1>11 DEF Install, LockInv, SavePCs
  <2>4. SaveInv'
    BY <1>11, <2>3 DEF Install, Proceed, TypeOK, SaveInv, SavePCs, local
  <2>5. MemoryInv'
    BY <1>11, <2>1, <2>2, <2>3, SameStored
    DEF Install, Proceed, TypeOK, Durable, MemoryInv, SavePCs, local
  <2>6. LoadInv' /\ PastInv'
    BY <1>11, <2>1, <2>2, SameStored
    DEF Install, Proceed, TypeOK, Durable, LoadInv, PastInv, local
  <2> QED BY <2>4, <2>5, <2>6 DEF Durable
<1>12. CASE Broadcast(t) \/ Reply(t)
  <2>1. at[t] \in Rooms /\ got[t] \in past[at[t]]
    BY <1>12 DEF Broadcast, Reply, TaskInv, Durable, LoadInv
  <2>2. \A r \in Rooms : told'[r] \subseteq past[r]
    BY <1>12, <2>1 DEF Broadcast, Reply, TypeOK, Durable, PastInv
  <2>3. UNCHANGED <<disk, tmp, memory, past>> /\ Return(t) /\ pc[t] \notin SavePCs
    BY <1>12 DEF Broadcast, Reply, SavePCs
  <2> QED BY <2>2, <2>3, QuietStep DEF Return, TypeOK, SavePCs
<1> QED BY <1>1, <1>2, <1>3, <1>4, <1>5, <1>6, <1>7, <1>8, <1>9, <1>10, <1>11, <1>12
        DEF Handle, Apply

LEMMA StepDurable == ReadsWork /\ TypedInv /\ Durable /\ [Next]_vars => Durable'
<1> SUFFICES ASSUME ReadsWork, TypedInv, Durable, [Next]_vars PROVE Durable'
  OBVIOUS
<1>1. ASSUME NEW t \in Tasks, Handle(t) PROVE Durable'
  BY <1>1, HandleDurable
<1>2. ASSUME NEW t \in Tasks, NEW s \in Sockets, Arrive(t, s) PROVE Durable'
  BY <1>2, ArriveDurable
<1>3. CASE (\E s \in Sockets : LeaveRoom(s)) \/ UNCHANGED vars
  BY <1>3, SameStored
  DEF LeaveRoom, vars, local, Durable, SaveInv, MemoryInv, LoadInv, PastInv
<1>4. CASE Restart
  BY <1>4, SameStored DEF Restart, Durable, SaveInv, MemoryInv, LoadInv, PastInv, SavePCs
<1> QED BY <1>1, <1>2, <1>3, <1>4 DEF Next

LEMMA Invariance == ASSUME ReadsWork PROVE Spec => [](TypedInv /\ Durable)
<1>1. TypedInv /\ Durable /\ [Next]_vars => (TypedInv /\ Durable)'
  BY StepTyped, StepDurable
<1> QED BY <1>1, InitTyped, InitDurable, PTL DEF Spec

\* Memory and files agree outside of saves, for any number of handlers.
THEOREM MemoryFollowsDisk == ASSUME ReadsWork PROVE Spec => []MemoryIsDurable
<1>1. TypedInv /\ Durable => MemoryIsDurable
  BY UnlockedMemory DEF MemoryIsDurable
<1> QED BY <1>1, Invariance, PTL

\* Nothing a client was sent is ever lost or replaced, through any number of
\* restarts and failed saves.
THEOREM ToldSurvives == ASSUME ReadsWork PROVE Spec => []ToldIsDurable
<1>1. TypedInv /\ Durable => ToldIsDurable
  BY DEF Durable, PastInv, ToldIsDurable
<1> QED BY <1>1, Invariance, PTL

-----------------------------------------------------------------------------
(* Refinement *)

LEMMA InitRegister == Init => Register!Init
  BY DEF Init, Register!Init, Stored, Unset, Register!Unset, Undecided, Reading

\* A step that starts no update only takes updates away.
LEMMA NoneAdded ==
  ASSUME \A t \in Undecided' : t \in Undecided /\ Update(t)' = Update(t)
  PROVE  {Update(t) : t \in Undecided}' \subseteq {Update(t) : t \in Undecided}
  OBVIOUS

LEMMA GivesUp ==
  ASSUME UNCHANGED <<disk, past, told>>,
         \A t \in Undecided' : t \in Undecided /\ Update(t)' = Update(t)
  PROVE  Register!GiveUp
  BY NoneAdded DEF Register!GiveUp, Stored

\* Renaming the file of a save commits its update, and no other one.
LEMMA RenameCommits ==
  ASSUME TypedInv, Durable, NEW t \in Tasks, Rename(t)
  PROVE  Register!Next
<1> DEFINE u == Update(t)
           new == [revision |-> u.expected + 1, content |-> u.content]
           value == [x \in Rooms |-> Stored(x)]
           asked == {Update(x) : x \in Undecided}
<1>1. /\ u.room = at[t] /\ u.expected = req[t].expected /\ u.content = req[t].content
      /\ u.client = t
  BY DEF Update
<1>2. u \in Register!Update /\ t \in Undecided
  BY DEF Rename, TypedInv, TypeOK, TaskInv, Request, SavePCs, Update, Register!Update, Undecided
<1>3. u.room \in Rooms
  BY <1>2 DEF Register!Update
<1>4. got[t] = new /\ tmp[u.room] = new /\ Stored(u.room).revision = u.expected
  BY <1>1 DEF Rename, Durable, SaveInv
<1>5. new \in Record
  BY <1>4 DEF TypedInv, TypeOK
<1>6. disk' = [disk EXCEPT ![u.room] = new]
  BY <1>1, <1>4 DEF Rename
<1>7. value' = [value EXCEPT ![u.room] = new]
  BY <1>3, <1>5, <1>6 DEF Stored, TypedInv, TypeOK
<1>8. past' = [past EXCEPT ![u.room] = @ \cup {new}] /\ UNCHANGED told
  BY <1>1, <1>4 DEF Rename
<1>9. asked' = asked \ {u}
  <2>1. \A x \in Tasks : Update(x)' = Update(x)
    BY DEF Rename, Update, local
  <2>2. Undecided' = Undecided \ {t}
    BY DEF Rename, Undecided, Proceed, local, TypedInv, TypeOK
  <2>3. \A x \in Tasks : Update(x) = u => x = t
    <3> TAKE x \in Tasks
    <3>1. Update(x).client = x
      BY DEF Update
    <3> QED BY <3>1, <1>1
  <2>4. Undecided \subseteq Tasks
    BY DEF Undecided
  <2>5. u = Update(t)
    OBVIOUS
  <2> HIDE DEF u
  <2> QED BY <2>1, <2>2, <2>3, <2>4, <2>5, <1>2
<1>10. u \in asked /\ value[u.room].revision = u.expected
  BY <1>2, <1>3, <1>4
<1>11. Register!Commit(u)
  BY <1>7, <1>8, <1>9, <1>10 DEF Register!Commit
<1> QED BY <1>2, <1>11 DEF Register!Next

\* Broadcasts and replies announce what was once stored.
LEMMA SendingAnnounces ==
  ASSUME TypedInv, Durable, NEW t \in Tasks, Broadcast(t) \/ Reply(t)
  PROVE  Register!Next
<1> DEFINE r == at[t]
           value == [x \in Rooms |-> Stored(x)]
<1>1. r \in Rooms /\ got[t] \in past[r] /\ got[t] \in Record
  BY DEF Broadcast, Reply, TypedInv, TypeOK, TaskInv, Durable, LoadInv
<1>2. told' = [told EXCEPT ![r] = @ \cup {got[t]}] /\ UNCHANGED <<disk, past>>
  BY DEF Broadcast, Reply
<1>3. value' = value
  BY <1>2 DEF Stored
<1>4. Undecided' = Undecided /\ \A x \in Undecided : Update(x)' = Update(x)
  BY DEF Broadcast, Reply, Return, Undecided, Update, TypedInv, TypeOK
<1>5. UNCHANGED {Update(x) : x \in Undecided}
  BY <1>4
<1>6. Register!Announce(r, got[t])
  BY <1>1, <1>2, <1>3, <1>5 DEF Register!Announce
<1>7. got[t] \in Register!Record
  BY <1>1 DEF Record, Register!Record
<1> QED BY <1>1, <1>6, <1>7 DEF Register!Next

\* The remaining steps of a handler leave the files alone.
LEMMA QuietSteps ==
  ASSUME TypedInv, NEW t \in Tasks, Handle(t), ~ Rename(t), ~ Broadcast(t), ~ Reply(t)
  PROVE  Register!GiveUp
<1>1. UNCHANGED <<disk, past, told>>
  BY DEF Handle, Apply, Admit, Refuse, Hit, Miss, Fetch, Fill, Stale, Accept, Write,
         SaveFails, Install
<1>2. \/ Return(t) /\ pc[t] = "access"
      \/ /\ at' = at /\ req' = req
         /\ \A x \in Tasks \ {t} : pc'[x] = pc[x]
         /\ pc[t] \notin {"idle", "install", "broadcast", "reply"} \/ pc'[t] = "broadcast"
  BY DEF Handle, Apply, Admit, Refuse, Hit, Miss, Fetch, Fill, Stale, Accept, Write,
         SaveFails, Install, Proceed, local, TypedInv, TypeOK
<1>3. ASSUME NEW x \in Undecided' PROVE x \in Undecided /\ Update(x)' = Update(x)
  BY <1>2, <1>3 DEF Undecided, Update, Return, TypedInv, TypeOK
<1> QED BY <1>1, <1>3, GivesUp

\* An update arrives; the other requests are none.
LEMMA ArrivalSubmits ==
  ASSUME TypedInv, NEW t \in Tasks, NEW s \in Sockets, Arrive(t, s)
  PROVE  Register!Next
<1>1. UNCHANGED <<disk, past, told>>
  BY DEF Arrive, JoinRoom, Ask, Submit
<1>2. pc[t] = "idle" /\ \A x \in Tasks \ {t} : pc'[x] = pc[x] /\ at'[x] = at[x] /\ req'[x] = req[x]
  BY DEF Arrive, JoinRoom, Ask, Submit, Start, TypedInv, TypeOK
<1>3. CASE (\E r \in Rooms : JoinRoom(t, s, r)) \/ Ask(t, s)
  <2>1. req'[t].op # "update"
    BY <1>3 DEF JoinRoom, Ask, Start, Reading, TypedInv, TypeOK
  <2>2. ASSUME NEW x \in Undecided' PROVE x \in Undecided /\ Update(x)' = Update(x)
    BY <1>2, <2>1 DEF Undecided, Update
  <2> QED BY <1>1, <2>2, GivesUp DEF Register!Next
<1>4. ASSUME NEW e \in Revisions, NEW c \in Contents, Submit(t, s, e, c) PROVE Register!Next
  <2> DEFINE u == [client |-> t, room |-> place[s], expected |-> e, content |-> c]
  <2>1. u \in Register!Update
    BY <1>4 DEF Submit, Register!Update, TypedInv, TypeOK
  <2>2. /\ Update(t)' = u
        /\ Undecided' = Undecided \cup {t} /\ t \notin Undecided
    BY <1>2, <1>4 DEF Submit, Start, Update, Undecided, TypedInv, TypeOK
  <2>3. \A x \in Undecided : Update(x)' = Update(x)
    BY <1>2, <2>2 DEF Update, Undecided
  <2>4. {Update(x) : x \in Undecided}' = {Update(x) : x \in Undecided} \cup {u}
    <3> HIDE DEF u
    <3> QED BY <2>2, <2>3
  <2>5. Register!Submit(u)
    BY <1>1, <2>4 DEF Register!Submit, Stored
  <2> QED BY <2>1, <2>5 DEF Register!Next
<1> QED BY <1>3, <1>4 DEF Arrive

LEMMA StepRegister ==
  ASSUME ReadsWork, TypedInv, Durable, [Next]_vars
  PROVE  [Register!Next]_(Register!vars)
<1>1. ASSUME NEW t \in Tasks, Handle(t) PROVE Register!Next
  BY <1>1, RenameCommits, SendingAnnounces, QuietSteps DEF Register!Next
<1>2. ASSUME NEW t \in Tasks, NEW s \in Sockets, Arrive(t, s) PROVE Register!Next
  BY <1>2, ArrivalSubmits
<1>3. CASE (\E s \in Sockets : LeaveRoom(s)) \/ UNCHANGED vars
  BY <1>3 DEF LeaveRoom, vars, local, Register!vars, Stored, Undecided, Update
<1>4. CASE Restart
  <2>1. Undecided' = {} /\ UNCHANGED <<disk, past, told>>
    BY <1>4 DEF Restart, Undecided
  <2> QED BY <2>1, GivesUp DEF Register!Next
<1> QED BY <1>1, <1>2, <1>3, <1>4 DEF Next

\* The files behind their cache are the compare-and-set register: renaming a
\* file is the Commit of the update that is saved, sending a record is Announce.
THEOREM RegisterImplemented == ASSUME ReadsWork PROVE Spec => ImplementsRegister
<1>1. TypedInv /\ Durable /\ [Next]_vars => [Register!Next]_(Register!vars)
  BY StepRegister
<1> QED BY <1>1, InitRegister, Invariance, PTL DEF Spec, ImplementsRegister, Register!Spec

-----------------------------------------------------------------------------
(* Members.  None of this depends on the files: what clients were sent is    *)
(* compared with memory, so it also holds when reads fail.                   *)

\* What a handler is about to send is not newer than memory, and what it is
\* about to put there is the next revision.
AnswerInv ==
    \A t \in Tasks :
        LET r == at[t] IN
        /\ pc[t] \in {"reply", "broadcast"} =>
              memory[r] # NotLoaded /\ got[t].revision <= memory[r].revision
        /\ pc[t] \in SavePCs => got[t].revision = memory[r].revision + 1

\* t is a join of s that will send it the program its room is then at.
Welcomes(t, s) ==
    /\ by[t] = s /\ at[t] = place[s] /\ req[t].op = "join"
    /\ \/ pc[t] \in {"load", "fetch", "fill"}
       \/ pc[t] = "reply" /\ got[t].revision = memory[at[t]].revision

\* t will send room r the program it is at.
Spreads(t, r) ==
    at[t] = r /\ pc[t] = "broadcast" /\ got[t].revision = memory[r].revision

UpToDate(s) ==
    LET r == place[s] IN
    /\ memory[r] = NotLoaded => seen[s] = Unseen /\ \E t \in Tasks : Welcomes(t, s)
    /\ memory[r] # NotLoaded =>
          /\ seen[s] <= memory[r].revision
          /\ \/ seen[s] = memory[r].revision
             \/ \E t \in Tasks : Welcomes(t, s) \/ Spreads(t, r)

MemberInv == \A s \in Sockets : place[s] # NoRoom => UpToDate(s)

LEMMA StepAnswers == TypedInv /\ AnswerInv /\ [Next]_vars => AnswerInv'
<1> SUFFICES ASSUME TypedInv, AnswerInv, [Next]_vars PROVE AnswerInv'
  OBVIOUS
<1> USE DEF TypedInv, TypeOK, AnswerInv, SavePCs, local, Proceed, Return
<1>1. ASSUME NEW t \in Tasks, Admit(t) \/ Refuse(t) \/ Miss(t) PROVE AnswerInv'
  BY <1>1 DEF Admit, Refuse, Miss
<1>2. ASSUME NEW t \in Tasks, Hit(t) PROVE AnswerInv'
  <2>1. memory[at[t]].revision \in Nat
    BY <1>2 DEF Hit, TaskInv, Record, Revisions
  <2> QED BY <1>2, <2>1 DEF Hit, AfterLoad, TaskInv
<1>3. ASSUME NEW t \in Tasks, Fetch(t) PROVE AnswerInv'
  BY <1>3 DEF Fetch
<1>4. ASSUME NEW t \in Tasks, Fill(t) PROVE AnswerInv'
  <2>1. at[t] \in Rooms /\ got[t] \in Record /\ pc[t] = "fill"
    BY <1>4 DEF Fill, TaskInv
  <2>2. /\ memory'[at[t]] \in Record /\ got'[t] = memory'[at[t]] /\ memory'[at[t]].revision \in Nat
        /\ memory'[at[t]] # NotLoaded
    BY <1>4, <2>1 DEF Fill, Record, Revisions
  <2>3. \A r \in Rooms : memory[r] # NotLoaded => memory'[r] = memory[r]
    BY <1>4 DEF Fill
  <2>4. ASSUME NEW u \in Tasks, u # t
        PROVE  /\ pc'[u] = pc[u] /\ at'[u] = at[u] /\ got'[u] = got[u]
               /\ pc[u] \in {"reply", "broadcast"} \cup SavePCs => memory'[at[u]] = memory[at[u]]
    <3>1. pc[u] # "idle" => at[u] \in Rooms
      BY DEF TaskInv
    <3> QED BY <1>4, <2>3, <2>4, <3>1 DEF Fill, LoadedInv
  <2>5. pc'[t] \in {"cas", "reply"} /\ at'[t] = at[t]
    BY <1>4 DEF Fill, AfterLoad
  <2> QED BY <2>2, <2>4, <2>5
<1>5. ASSUME NEW t \in Tasks, Stale(t) PROVE AnswerInv'
  <2>1. memory[at[t]] \in Record /\ memory[at[t]].revision \in Nat /\ memory[at[t]] # NotLoaded
    BY <1>5 DEF Stale, TaskInv, LoadedInv, Record, Revisions
  <2> QED BY <1>5, <2>1 DEF Stale
<1>6. ASSUME NEW t \in Tasks, Accept(t) PROVE AnswerInv'
  BY <1>6 DEF Accept
<1>7. ASSUME NEW t \in Tasks, Write(t) \/ Rename(t) PROVE AnswerInv'
  BY <1>7 DEF Write, Rename
<1>8. ASSUME NEW t \in Tasks, SaveFails(t) PROVE AnswerInv'
  <2>1. memory[at[t]] \in Record /\ memory[at[t]].revision \in Nat /\ memory[at[t]] # NotLoaded
    BY <1>8 DEF SaveFails, TaskInv, LoadedInv, Record, Revisions
  <2> QED BY <1>8, <2>1 DEF SaveFails
<1>9. ASSUME NEW t \in Tasks, Install(t) PROVE AnswerInv'
  <2>1. /\ at[t] \in Rooms /\ memory[at[t]] \in Record /\ memory[at[t]] # NotLoaded
        /\ got[t] \in Record /\ got[t].revision = memory[at[t]].revision + 1
    BY <1>9 DEF Install, TaskInv, LoadedInv
  <2>2. got[t].revision \in Nat /\ memory[at[t]].revision \in Nat /\ got[t] # NotLoaded
    BY <2>1 DEF Record, Revisions
  <2>3. \A u \in Tasks : u # t => pc[u] \notin SavePCs /\ pc'[u] = pc[u]
    BY <1>9 DEF Install, LockInv
  <2>4. UNCHANGED <<at, got>> /\ memory' = [memory EXCEPT ![at[t]] = got[t]] /\ pc'[t] = "broadcast"
    BY <1>9 DEF Install
  <2>5. ASSUME NEW u \in Tasks, u # t, pc[u] \in {"reply", "broadcast"}
        PROVE  memory'[at[u]] # NotLoaded /\ got[u].revision <= memory'[at[u]].revision
    <3>1. memory[at[u]] # NotLoaded /\ got[u].revision <= memory[at[u]].revision /\ at[u] \in Rooms
      BY <2>5 DEF TaskInv
    <3>2. got[u].revision \in Nat
      BY DEF Record, Revisions
    <3> QED BY <2>1, <2>2, <2>4, <3>1, <3>2
  <2> QED BY <2>1, <2>2, <2>3, <2>4, <2>5
<1>10. ASSUME NEW t \in Tasks, Broadcast(t) \/ Reply(t) PROVE AnswerInv'
  BY <1>10 DEF Broadcast, Reply
<1>11. ASSUME NEW t \in Tasks, NEW s \in Sockets, Arrive(t, s) PROVE AnswerInv'
  <2>1. \E r, q : \E first \in {"load", "access"} : Start(t, s, r, q, first)
    BY <1>11 DEF Arrive, JoinRoom, Ask, Submit
  <2>2. UNCHANGED memory
    BY <1>11 DEF Arrive, JoinRoom, Ask, Submit
  <2> QED BY <2>1, <2>2 DEF Start
<1>12. ASSUME (\E s \in Sockets : LeaveRoom(s)) \/ Restart \/ UNCHANGED vars PROVE AnswerInv'
  BY <1>12 DEF LeaveRoom, Restart, vars
<1> HIDE DEF TypedInv, AnswerInv
<1> QED BY <1>1, <1>2, <1>3, <1>4, <1>5, <1>6, <1>7, <1>8, <1>9, <1>10, <1>11, <1>12
        DEF Next, Handle, Apply

\* Neither records nor members change, and nobody forgets whom to send what.
LEMMA SameMembers ==
  ASSUME MemberInv, UNCHANGED <<place, memory, seen>>,
         \A t \in Tasks : /\ \A s \in Sockets : Welcomes(t, s) => Welcomes(t, s)'
                          /\ \A r : Spreads(t, r) => Spreads(t, r)'
  PROVE  MemberInv'
<1> SUFFICES ASSUME NEW s \in Sockets, place'[s] # NoRoom PROVE UpToDate(s)'
  BY DEF MemberInv
<1>1. UpToDate(s)
  BY DEF MemberInv
<1>2. \A t \in Tasks : Spreads(t, place[s]) => Spreads(t, place[s])'
  BY DEF Spreads
<1> QED BY <1>1, <1>2 DEF UpToDate

LEMMA ArriveMembers ==
  ASSUME TypedInv, MemberInv, NEW t \in Tasks, NEW s \in Sockets, Arrive(t, s) PROVE MemberInv'
<1> USE DEF TypedInv, TypeOK
<1>1. UNCHANGED memory /\ pc[t] = "idle"
  BY DEF Arrive, JoinRoom, Ask, Submit, Start
<1>2. \A u \in Tasks \ {t} : /\ pc'[u] = pc[u] /\ by'[u] = by[u] /\ at'[u] = at[u]
                             /\ req'[u] = req[u] /\ got'[u] = got[u]
  BY DEF Arrive, JoinRoom, Ask, Submit, Start
<1>3. CASE UNCHANGED <<place, seen>>
  <2>1. \A u \in Tasks : /\ \A x \in Sockets : Welcomes(u, x) => Welcomes(u, x)'
                         /\ \A r : Spreads(u, r) => Spreads(u, r)'
    BY <1>1, <1>2, <1>3 DEF Welcomes, Spreads
  <2> QED BY <1>1, <1>3, <2>1, SameMembers
<1>4. ASSUME NEW r \in Rooms, JoinRoom(t, s, r) PROVE MemberInv'
  <2> SUFFICES ASSUME NEW x \in Sockets, place'[x] # NoRoom PROVE UpToDate(x)'
    BY DEF MemberInv
  <2>1. CASE x = s
    <3>1. seen'[s] = Unseen /\ Welcomes(t, s)'
      BY <1>4 DEF JoinRoom, Start, Welcomes, Reading
    <3>2. place'[s] = r /\ (memory[r] # NotLoaded => Unseen <= memory[r].revision)
      BY <1>4 DEF JoinRoom, Unseen, Record, Revisions
    <3> QED BY <1>1, <2>1, <3>1, <3>2 DEF UpToDate
  <2>2. CASE x # s
    <3>1. place'[x] = place[x] /\ seen'[x] = seen[x]
      BY <1>4, <2>2 DEF JoinRoom
    <3>2. UpToDate(x)
      BY <3>1 DEF MemberInv
    <3>3. \A u \in Tasks : /\ Welcomes(u, x) => Welcomes(u, x)'
                           /\ Spreads(u, place[x]) => Spreads(u, place[x])'
      BY <1>1, <1>2, <3>1 DEF Welcomes, Spreads
    <3> QED BY <1>1, <3>1, <3>2, <3>3 DEF UpToDate
  <2> QED BY <2>1, <2>2
<1>5. Ask(t, s) \/ (\E e \in Revisions, c \in Contents : Submit(t, s, e, c)) => UNCHANGED <<place, seen>>
  BY DEF Ask, Submit
<1> QED BY <1>3, <1>4, <1>5 DEF Arrive

\* The first access of a room: its members are all joining it.
LEMMA FillMembers ==
  ASSUME TypedInv, AnswerInv, MemberInv, NEW t \in Tasks, Fill(t) PROVE MemberInv'
<1> USE DEF TypedInv, TypeOK
<1>1. /\ at[t] \in Rooms /\ pc[t] = "fill" /\ pc'[t] = AfterLoad(t)
      /\ got'[t] = memory'[at[t]] /\ memory'[at[t]] # NotLoaded
  BY DEF Fill, TaskInv, Proceed
<1>2. /\ UNCHANGED <<place, seen, by, at, req>>
      /\ \A u \in Tasks \ {t} : pc'[u] = pc[u] /\ got'[u] = got[u]
  BY DEF Fill, Proceed
<1>3. \A r \in Rooms : /\ memory[r] # NotLoaded => memory'[r] = memory[r]
                       /\ r # at[t] => memory'[r] = memory[r]
                       /\ memory'[r] # NotLoaded => memory'[r].revision \in Nat
  BY DEF Fill, Record, Revisions
<1> SUFFICES ASSUME NEW s \in Sockets, place[s] # NoRoom PROVE UpToDate(s)'
  BY <1>2 DEF MemberInv
<1>4. UpToDate(s) /\ place[s] \in Rooms
  BY DEF MemberInv
<1>5. ASSUME NEW u \in Tasks, Welcomes(u, s) PROVE Welcomes(u, s)'
  <2>1. CASE u = t
    BY <1>1, <1>2, <1>5, <2>1 DEF Welcomes, AfterLoad
  <2>2. CASE u # t
    <3>1. pc[u] = "reply" => memory'[at[u]] = memory[at[u]]
      BY <1>3, <1>4, <1>5 DEF AnswerInv, Welcomes
    <3> QED BY <1>2, <1>5, <2>2, <3>1 DEF Welcomes
  <2> QED BY <2>1, <2>2
<1>6. ASSUME NEW u \in Tasks, Spreads(u, place[s]) PROVE Spreads(u, place[s])'
  <2>1. u # t /\ memory'[place[s]] = memory[place[s]]
    BY <1>1, <1>3, <1>4, <1>6 DEF Spreads, AnswerInv
  <2> QED BY <1>2, <1>6, <2>1 DEF Spreads
<1>7. CASE memory[place[s]] # NotLoaded
  BY <1>2, <1>3, <1>4, <1>5, <1>6, <1>7 DEF UpToDate
<1>8. CASE memory[place[s]] = NotLoaded
  <2>1. seen[s] = Unseen /\ \E u \in Tasks : Welcomes(u, s)'
    BY <1>4, <1>5, <1>8 DEF UpToDate
  <2>2. memory'[place[s]] # NotLoaded => Unseen <= memory'[place[s]].revision
    BY <1>3, <1>4 DEF Unseen
  <2> QED BY <1>2, <2>1, <2>2 DEF UpToDate
<1> QED BY <1>7, <1>8

\* The next revision: whoever was up to date is not, until it is broadcast.
LEMMA InstallMembers ==
  ASSUME TypedInv, AnswerInv, MemberInv, NEW t \in Tasks, Install(t) PROVE MemberInv'
<1> USE DEF TypedInv, TypeOK
<1>1. /\ at[t] \in Rooms /\ pc[t] = "install" /\ memory[at[t]] \in Record /\ memory[at[t]] # NotLoaded
      /\ got[t] \in Record /\ got[t].revision = memory[at[t]].revision + 1
  BY DEF Install, TaskInv, LoadedInv, AnswerInv, SavePCs
<1>2. /\ UNCHANGED <<place, seen, by, at, req, got>> /\ memory' = [memory EXCEPT ![at[t]] = got[t]]
      /\ pc'[t] = "broadcast" /\ \A u \in Tasks \ {t} : pc'[u] = pc[u]
  BY DEF Install, local, Proceed
<1>3. got[t].revision \in Nat /\ memory[at[t]].revision \in Nat /\ got[t] # NotLoaded
  BY <1>1 DEF Record, Revisions
<1> SUFFICES ASSUME NEW s \in Sockets, place[s] # NoRoom PROVE UpToDate(s)'
  BY <1>2 DEF MemberInv
<1>4. UpToDate(s) /\ place[s] \in Rooms /\ seen[s] \in Unseen..MaxRevision
  BY DEF MemberInv
<1>5. CASE place[s] = at[t]
  <2>1. memory'[place[s]] = got[t]
    BY <1>1, <1>2, <1>5
  <2>2. Spreads(t, place[s])'
    BY <1>2, <1>5, <2>1 DEF Spreads
  <2>3. seen[s] <= memory[at[t]].revision
    BY <1>1, <1>4, <1>5 DEF UpToDate
  <2>4. seen[s] <= got[t].revision
    BY <1>1, <1>3, <1>4, <2>3 DEF Unseen
  <2> QED BY <1>2, <1>3, <2>1, <2>2, <2>4 DEF UpToDate
<1>6. CASE place[s] # at[t]
  <2>1. memory'[place[s]] = memory[place[s]]
    BY <1>2, <1>6
  <2>2. ASSUME NEW u \in Tasks
        PROVE  /\ Welcomes(u, s) => Welcomes(u, s)'
               /\ Spreads(u, place[s]) => Spreads(u, place[s])'
    BY <1>1, <1>2, <1>6, <2>1 DEF Welcomes, Spreads
  <2> QED BY <1>2, <1>4, <2>1, <2>2 DEF UpToDate
<1> QED BY <1>5, <1>6

\* A record is sent to receivers, the members who wait for t among them.
LEMMA SentMembers ==
  ASSUME TypedInv, AnswerInv, MemberInv, NEW t \in Tasks, pc[t] \in {"reply", "broadcast"},
         NEW receivers, seen' = SentTo(receivers, at[t], got[t]), UNCHANGED <<place, memory>>, Return(t),
         \A s \in Sockets : Welcomes(t, s) \/ (Spreads(t, place[s]) /\ place[s] # NoRoom) => s \in receivers
  PROVE  MemberInv'
<1> USE DEF TypedInv, TypeOK
<1>1. /\ at[t] \in Rooms /\ memory[at[t]] # NotLoaded /\ got[t].revision <= memory[at[t]].revision
      /\ got[t].revision \in Nat /\ memory[at[t]].revision \in Nat
  BY DEF TaskInv, AnswerInv, Record, Revisions
<1>2. \A u \in Tasks \ {t} : /\ pc'[u] = pc[u] /\ by'[u] = by[u] /\ at'[u] = at[u]
                             /\ req'[u] = req[u] /\ got'[u] = got[u]
  BY DEF Return
<1> SUFFICES ASSUME NEW s \in Sockets, place[s] # NoRoom PROVE UpToDate(s)'
  BY DEF MemberInv
<1>3. UpToDate(s) /\ place[s] \in Rooms /\ seen[s] \in Unseen..MaxRevision
  BY DEF MemberInv
<1>4. seen'[s] = IF s \in receivers /\ place[s] = at[t] /\ seen[s] < got[t].revision
                 THEN got[t].revision ELSE seen[s]
  BY DEF SentTo
<1>5. ASSUME NEW u \in Tasks, u # t
      PROVE  /\ Welcomes(u, s) => Welcomes(u, s)'
             /\ Spreads(u, place[s]) => Spreads(u, place[s])'
  BY <1>2, <1>5 DEF Welcomes, Spreads
<1>6. CASE place[s] # at[t]
  <2>1. seen'[s] = seen[s] /\ ~ Welcomes(t, s) /\ ~ Spreads(t, place[s])
    BY <1>4, <1>6 DEF Welcomes, Spreads
  <2> QED BY <1>3, <1>5, <2>1 DEF UpToDate
<1>7. CASE place[s] = at[t]
  <2>1. seen[s] <= memory[at[t]].revision
    BY <1>1, <1>3, <1>7 DEF UpToDate
  <2>2. seen'[s] <= memory[at[t]].revision /\ (seen[s] = memory[at[t]].revision => seen'[s] = seen[s])
    BY <1>1, <1>3, <1>4, <2>1 DEF Unseen
  <2>3. ASSUME Welcomes(t, s) \/ Spreads(t, place[s]) PROVE seen'[s] = memory[at[t]].revision
    <3>1. got[t].revision = memory[at[t]].revision /\ s \in receivers
      BY <1>7, <2>3 DEF Welcomes, Spreads
    <3> QED BY <1>1, <1>3, <1>4, <1>7, <2>1, <3>1 DEF Unseen
  <2> QED BY <1>1, <1>3, <1>5, <1>7, <2>2, <2>3 DEF UpToDate
<1> QED BY <1>6, <1>7

LEMMA HandleMembers ==
  ASSUME TypedInv, AnswerInv, MemberInv, NEW t \in Tasks, Handle(t) PROVE MemberInv'
<1> USE DEF TypedInv, TypeOK, local, Proceed
<1> DEFINE Keeps ==
      /\ UNCHANGED <<place, memory, seen>>
      /\ \A u \in Tasks : /\ \A s \in Sockets : Welcomes(u, s) => Welcomes(u, s)'
                          /\ \A r : Spreads(u, r) => Spreads(u, r)'
<1>1. ASSUME Admit(t) \/ Refuse(t) \/ Miss(t) PROVE Keeps
  BY <1>1 DEF Admit, Refuse, Miss, Return, Welcomes, Spreads
<1>2. ASSUME Hit(t) PROVE Keeps
  BY <1>2 DEF Hit, AfterLoad, Welcomes, Spreads
<1>3. ASSUME Fetch(t) PROVE Keeps
  BY <1>3 DEF Fetch, Welcomes, Spreads
<1>4. ASSUME Stale(t) \/ Accept(t) PROVE Keeps
  BY <1>4 DEF Stale, Accept, Welcomes, Spreads
<1>5. ASSUME Write(t) \/ Rename(t) \/ SaveFails(t) PROVE Keeps
  BY <1>5 DEF Write, Rename, SaveFails, Welcomes, Spreads
<1>6. ASSUME Keeps PROVE MemberInv'
  BY <1>6, SameMembers
<1>7. CASE Broadcast(t)
  <2>1. /\ pc[t] = "broadcast" /\ seen' = SentTo(Sockets, at[t], got[t]) /\ Return(t)
        /\ UNCHANGED <<place, memory>>
    BY <1>7 DEF Broadcast
  <2> HIDE DEF TypedInv
  <2> QED BY <2>1, SentMembers
<1>8. CASE Reply(t)
  <2>1. /\ pc[t] = "reply" /\ seen' = SentTo({by[t]}, at[t], got[t]) /\ Return(t)
        /\ UNCHANGED <<place, memory>>
    BY <1>8 DEF Reply
  <2>2. \A s \in Sockets : Welcomes(t, s) \/ (Spreads(t, place[s]) /\ place[s] # NoRoom) => s \in {by[t]}
    BY <2>1 DEF Welcomes, Spreads
  <2> HIDE DEF TypedInv
  <2> QED BY <2>1, <2>2, SentMembers
<1> HIDE DEF TypedInv, Keeps
<1> QED BY <1>1, <1>2, <1>3, <1>4, <1>5, <1>6, <1>7, <1>8, FillMembers, InstallMembers DEF Handle, Apply

LEMMA StepMembers == TypedInv /\ AnswerInv /\ MemberInv /\ [Next]_vars => MemberInv'
<1> SUFFICES ASSUME TypedInv, AnswerInv, MemberInv, [Next]_vars PROVE MemberInv'
  OBVIOUS
<1>1. ASSUME NEW s \in Sockets, LeaveRoom(s) PROVE MemberInv'
  <2>1. /\ UNCHANGED <<memory, pc, by, at, req, got>>
        /\ \A x \in Sockets : place'[x] # NoRoom => place'[x] = place[x] /\ seen'[x] = seen[x]
    BY <1>1 DEF LeaveRoom, local, TypedInv, TypeOK
  <2> QED BY <2>1 DEF MemberInv, UpToDate, Welcomes, Spreads
<1>2. CASE Restart
  BY <1>2 DEF Restart, MemberInv
<1>3. CASE UNCHANGED vars
  BY <1>3, SameMembers DEF vars, local, Welcomes, Spreads
<1> QED BY <1>1, <1>2, <1>3, ArriveMembers, HandleMembers DEF Next

\* MembersUpToDate: nobody falls between the snapshot a join sends and the
\* broadcasts of updates, through failed reads and saves, moves between rooms
\* and restarts; once the answers are out a member's next update is not stale.
THEOREM MembersAreUpToDate == Spec => []MembersUpToDate
<1>1. Init => AnswerInv /\ MemberInv
  BY DEF Init, AnswerInv, SavePCs, MemberInv
<1>2. TypedInv /\ AnswerInv /\ MemberInv /\ [Next]_vars => (TypedInv /\ AnswerInv /\ MemberInv)'
  BY StepTyped, StepAnswers, StepMembers
<1>3. MemberInv => MembersUpToDate
  BY DEF MemberInv, UpToDate, MembersUpToDate, Informing, Joining, Welcomes, Spreads
<1> QED BY <1>1, <1>2, <1>3, InitTyped, PTL DEF Spec
=============================================================================
