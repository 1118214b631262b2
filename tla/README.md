# A verification of ekza-rust-server

ekza-rust-server is the realtime back end of Ekza Space: browsers connect with
Socket.IO, prove a Solana wallet if they want to, walk and chat in numbered
spaces, and the owners and editors of a space change the *room program* (the
objects in it). This directory holds TLA+ models of the parts whose correctness
depends on the order of things, TLC configurations that check them on small
instances, and TLAPS proofs of their central properties for all instances.
Paths below are relative to the repository; `mod.rs` is `src/realtime/mod.rs`.

## 1. The system

| component | state | operations | interacts through |
|---|---|---|---|
| Presence (`mod.rs`) | `ClientsState.inner`: one `ClientRecord` per connection (room, browser token, claim generation, move numbers, walk target, wallet, nonce); rooms of the Socket.IO adapter; `presence_transition` RwLock | `on_connect`, `on_auth`, `on_join_space`, `on_leave_space`, `on_set_user_data`, `on_chat_message`, `on_move`, `on_goto`, `on_disconnect`, the 50 ms motion loop | the lock; emits to adapter rooms; asks Space access |
| Room programs (`mod.rs`, `store.rs`) | `room_programs` map behind one RwLock; `<room>.json` and `.tmp` files | `request room program`, `room program update`, the tail of `join-space`; load, compare-and-set, save | membership of Presence; edit right of Space access; broadcast to the adapter room |
| Space access (`chain.rs`, `access_for`) | `space_cache`, `config_cache` with `fetched_at` | `space_access`, `config`: cache hit, RPC calls, stale fallback | HTTP to a Solana node; called by join, auth and update handlers |
| Rate limits (`limits.rs`) | six token buckets per connection | `try_take` | first step of each handler |
| Wallet proof (`auth.rs`) | none (the nonce is in the record) | message to sign, signature check | `on_auth` |
| Validation (`validate.rs`) | none | `validate_room_state` and the string and number sanitisers | first steps of the handlers |
| Agent bridge (`bin/agent_bridge.rs`) | mirror of the world, event log with ids (2000 entries), registry of agent sockets | Socket.IO callbacks, REST calls | client of Presence; polled by the agent bot |
| Agent bot (`bin/agent_bot.rs`) | event cursor, whom it greeted, its agent's id | poll, read the state, greet, ask the LLM, speak | REST client of the agent bridge |
| World agent (`bin/world_agent.rs`) | per session: own id, map of the room, chat pacing, LLM in flight; across sessions: backoff | reconnect loop, Socket.IO callbacks, `select!` loop with a decision in each pass | client of Presence; LLM over HTTP |
| HTTP application, origin guard, config, errors, telemetry | none that changes | routing | - |

What is hard here:

* Every async handler runs as a task of its own. Two events of the *same*
  socket may overlap and finish in the other order; a join awaits an on-chain
  lookup between its two phases.
* What is true of a connection is spread over its record, the adapter and the
  screens of the others, and changes in several calls with awaits in between.
  `presence_transition` is taken for writing by transitions and for reading by
  broadcasts, and tokio hands it out in order of arrival.
* A browser that reconnects has a new connection while the old one still
  exists; a token ties them together and the newer one supersedes the older.
* A room program lives in memory, in a file, in a temporary file and in the
  clients; the process may die between any two of them.
* The bridge learns of the room through callbacks that overlap with the REST
  requests of its clients; its log is bounded, its ids begin again when it is
  restarted, and its clients outlive it.
* The world agent's LLM calls have no timeout and outlive the sessions that
  made them; the server goes away and comes back at any moment.
* Who may edit is decided from three RPC calls that are not atomic, cached, and
  served stale when the node does not answer.

What makes each part correct: presence - one avatar per browser token, records
and adapter agree, the newest navigation wins, nothing is broadcast for an
avatar that is gone, every screen has exactly who is there, and where, unless an
older position was sent last; room programs - a durable
compare-and-set register per room; space access - nobody is let in on older
knowledge than the cache permits, and stale knowledge does not outlive the
failure; rate limits - burst plus rate over any stretch of time, and no refusal
at the documented rate; bridge and bot - the mirror is the room once the events
are applied, a poller misses nothing it is not too late for, and a maker's
commands move its own avatar; world agent - one pace for everything it says, one
LLM call at a time, no silence after an error, and restarts are survived.

`PROJECT.json` lists the hazards by line with the properties that cover them,
and for every definition the lines it models.

## 2. The modules

| module | models | abstract / detailed |
|---|---|---|
| `Presence` | the presence half of `mod.rs` | - |
| `RoomRegister` | what room programs promise: a compare-and-set register that survives restarts | abstract |
| `RoomPrograms` | the lazily loaded map, the store, the handlers, restarts | implements `RoomRegister` |
| `TokenBucket` | `limits.rs` | - |
| `SpaceAccess` | `space_access`, its cache and RPC calls, `can_edit`, `access_for` | - |
| `AgentBridge` | `agent_bridge.rs` and what the server sends to it | component of `AgentBot` |
| `AgentBot` | `agent_bot.rs`, composed with the bridge and its other clients | - |
| `WorldAgent` | `world_agent.rs` with a server that stops and starts, and an LLM | - |
| `MC...` | finite instances for TLC | |
| `...Proofs` | theorems and proofs about the module of that name; `PresenceClientProofs`, what clients of `Presence` rely on, builds on `PresenceProofs` | |

### Presence

A handler is a task: a program counter `pc`, the socket `by` and request `req`
it serves, and the locals it read before its last await (`here`, `dups`, `num`,
`who`). An action is one stretch of code between two awaits that other tasks
can observe. `JoinClaim` is the first locked block of `on_join_space` (claim
noted, current room taken), `JoinValidated`/`JoinRefused` the on-chain
validation, `JoinCommit`/`JoinSuperseded` the call of `set_room` under the
second lock, `Switch`, `Evict` and `Enter` the adapter calls that follow under
the same guard, `JoinWallet`/`JoinAnswer` the unlocked tail. `Leave`,
`UserData`, `Authenticate`-`Revalidate`-`Publish`, `Chat`-`Say`,
`Move`-`Moved` and `Goto` are the other handlers in the same manner, with
`Dropped` for what chat, move and goto give up once they have the read lock, and
`AuthFailed` for a signature that does not pass; `Tick` and `TickEmit` the
motion loop; `Open`, `Register`, `GoDown`, `OnDisconnect` the
life of a connection. A handler may be spawned while a connection goes down and
run on after it: such delayed handlers find no record, and the code must not
create one.

`presence_transition` is `writer`, `readers` and `queue`. The safety
specification `Spec` lets anybody take a free lock (more behaviours than tokio
allows), `FairSpec` adds the steps by which waiting writers stand in line.
`shown` is the client side: for each receiver the avatars it displays once all
events emitted so far are delivered (Socket.IO keeps the order per connection),
each at the position it was sent last. Receivers overwrite what they had, as
those in this repository do (`agent_bridge.rs:217-235`, `277-306`,
`world_agent.rs:256-265`): a "move" has a `serverSeq` that they do not look at,
and a "new user" has a position without one. `Moved`, `TickEmit` and `Publish`
are readers of the lock that emit what they read before, in any order;
`overtaken`, a history variable, has the avatars whose position emitted last was
not the newest when it went out. `told` and `newest` are history too.

`GoDown` of a connection that is still `opening` leaves its record for ever: the
disconnect handler is registered last, and the model assumes that a handler
registered after the close is not run.

Data the properties do not tell apart is left out: nicknames are "set or not",
positions are their sequence numbers, and a signature is "valid for this wallet
over the first nonce". The claim comparison treats an absent `claimId` as 0 -
all three places that read it do.

### RoomPrograms

Tasks again. `Hit`, `Miss`, `Fetch`, `Fill` are `room_program` (a read lock,
the load without a lock, `or_insert` under the write lock); `Stale`, `Accept`,
`Write`, `Rename`, `SaveFails`, `Install` are `apply_room_update`, which holds
the write lock from `Accept` to `Install`; `Broadcast` and `Reply` send.
`Restart` may come at any point and keeps `disk` and `tmp` only. `Faults` says
which I/O may fail: `"save"` (write or rename; also in the checks and proofs)
and `"read"` (only in `room_read_error`). Presence is reduced to `place`, one
variable for record and adapter, which `AdapterAgreement` justifies.

`RoomRegister` is the abstract promise: an update is submitted and then commits
at most once, over exactly the revision its client sent, or is given up. The
refinement maps the register to the file (`Stored`) and the pending updates to
the handlers that have not renamed or refused yet (`Undecided`): `Rename` is the
commit point, sending a record is `Announce`, refusals, failed saves and
restarts are `GiveUp`.

### TokenBucket

Ticks and fractions of a token are integers, so the arithmetic is exact where
the code rounds in f64. `Observe` restarts the count at any time: `since..now`
ranges over all stretches of time.

### SpaceAccess

One space, since entries share nothing. The chain (external) may mint, trade,
appoint, burn and close accounts between any two RPC answers. The three calls
are `ReadSpace`, `ReadLargest`, `ReadAccount`; each has its own `wait` bounded
by the 8 s request timeout (`InTime`), and the time between an answer and the
next call is part of it. Time appears as ages only, saturated one above the
bound the property compares with, so the state space is finite without a clock.

### AgentBridge and AgentBot

The server is a roster of avatars with positions, and emits to the observer while
that is in the room (`watching`). It is reduced from `Presence` by who holds the
lock: writers (`Arrive`, `Renamed`, `Depart`, `Watch`, `Unwatch`) change and emit
in one action, and only when no reader has anything to emit (`CanWrite`);
readers (`Moves`, `Renews`, which is auth) put a position into `unsent`, and
`Delivers` emits it later, in any order; `overtaken` is as in `Presence`. What is
emitted arrives in order (`inbox`). Avatars without a name are not announced and
are left out. It is the operator who has the observer join and leave, with
`command/emit`. A callback is
two actions: `Callback` changes the mirror under its lock, `PushEvent` takes an
id and appends to the log. They are the only steps of the bridge that requests
can come between: `push_event` itself takes two locks, but callbacks run one at
a time and nobody else pushes once requests are served, so it is one action. An
event is an id and who spoke in it; `last_chat`, names and rotations are left
out. `upto` is history: the newest event the mirror reflects.

A maker creates one agent: `CreateAgent` takes the id, `AgentConnected` inserts
the connection (or fails, and the id is used up), `DeleteAgent` removes it and
`AgentClosed` disconnects it, later or never. `Restart` empties all of it.

The bot is a maker with a program counter. Each request is an action that may
fail; a failure of `get_events` is the poll that does not happen. `BotCommands`
is the look-up of `with_agent`, `BotSpeaks` the emit on the handle it gave: the
agent may be deleted in between. How long ago the bot spoke or asked, and how
near somebody is, are choices.

### WorldAgent

One pass of the `select!` loop is one action: the branch (`Tick`, `Identified`,
`Answered`; `Refused`, whose `continue` skips the rest) and then `Decide`, whose
stages are operators on the session record `s`, in the order of the code
(`Discover`, `Resends`, `Spawn`, `Greet`, `Nearby`, `GreetNearby`, `WantsLlm` or
`Reply`). They may be one action because nobody else writes the locals, and the
map of the room is read once, at the start of the pass. Ages of `last_sent_chat_ms`,
`last_llm_ms` and the session are counted in ticks up to the largest that is
compared. `Connect`, `ConnectFails` and `EndSession` are the loop of `main`;
a new session has new channels, so the calls of the old one become `orphans`
whose answers nobody gets. `Stops`, `Starts` and the delivery of events belong
to the server; that a lost connection is reported is an assumption about
`rust_socketio`, which is not part of the repository. What was sent last
(`last_sent_chat_text`) is a choice of what the LLM says being said or not.

The program expects a server that puts a connection into a room and shows it
its own avatar there. `RoomOnConnect` says whether the server does: this
repository's does not (section 5), and with it the program's logic would never
run. The passing run therefore checks it against any server that does, and says
nothing else about that server but that it shows an avatar once it has a name.

## 3. What the runs check

Deadlock is not checked in the presence runs, where connections are finite and
never reused, so a state in which all are closed is a legitimate end; nor in the
agent runs, where users may be gone, events be used up and the bot have ended.

| run | instance | shows |
|---|---|---|
| `tabs` | 3 sockets, 2 handlers, 1 token | `UniquePresence`, `RosterExact`: two tabs of a browser and an observer (or three tabs), in any order of join, leave and `set user data` |
| `navigation` | 1 socket, 3 handlers, 2 rooms and an invalid one, claims 0-2, 2 wallets | `TypeOK`, `AdapterAgreement`, `AccessAnswered`, `OneIdentity`, `NewestClaimWins` |
| `traffic` | 2 sockets that join with or without the token, move, walk and authenticate, 2 handlers, 1 move number, 1 wallet, the motion loop | `UniquePresence` (token sent with the join), `NoGhostTraffic`, `MotionInRoom`, `PositionsConverge` |
| `lock` | an observer and a socket that joins, leaves, chats, moves, walks and goes down, 2 handlers and the motion loop, 1 move number, `FairSpec` | `HandlersReturn`: no handler waits for ever; `GhostsSwept`: a connection that goes down disappears everywhere |
| `room_programs` | 1 room, 2 members, 2 handlers, 2 revisions, failing saves, restarts | `TypeOK`, `MemoryIsDurable`, `ToldIsDurable`, `MembersUpToDate`, refinement `ImplementsRegister` |
| `room_read_error` | the same with failing reads | **violation** of `ToldIsDurable` |
| `token_bucket` | 3 tokens, rate 2/3 per tick, 10 ticks | `TypeOK`, `RateBounded`, `SteadyNeverRefused` |
| `space_access` | 2 lookups, 2 wallets, TTL and timeout of 1 tick | `EntitledRecently` |
| `space_access_faults` | 1 lookup, failing calls, burns, closed accounts, `FairSpec` | `TypeOK`, `EventuallyAccurate` |
| `agents` | 1 user, the bot and another maker, a log of 3 events, 1 event per poll, 3 events counted, 1 restart | `TypeOK`, `MirrorExact`, `StateCoversEvents`, `NothingSkipped`, `OwnAvatar`, `UnreadKept`, `PollAdvances` |
| `world_agent` | 1 namesake, chat interval of 2 ticks, LLM gap and tick of 1, backoff 1 to 3, 1 orphaned call | `TypeOK`, `ChatPaced`, `BusyExact`, `NotItself`, `BrainFreed`, `Reconnects`, `Spawns` |
| `world_agent_unseen` | the same on a server without `RoomOnConnect` | **violation** of `Spawns` |

**Bounds.** The races of presence are between two handlers, with a third that
changes what both assume; claims 0, 1, 2 give an older, an equal and a newer
generation; two rooms are a switch. Each instance sends only the events its
property is about, which keeps it exhaustive (up to 2 million states). `MaxSeq`
bounds `server_move_seq`: a move beyond it counts as dropped and the motion loop
stops there (the code counts to 2^64); a rejoin starts the numbering again, so
numbers are reused below it. With `MaxSeq` 1 in `traffic` it is the "new user" of
auth, with position 0, that goes out after a move; that two moves overtake each
other is in the theorem, which is about any `MaxSeq`. An action constraint
(`MembersAct`) keeps one of the two connections, has clients send moves, walks and
signatures only while they are in a room (they may be superseded or gone before
the handler runs), and lets one of them authenticate; connections that drop while
they are opened, failed signatures and events from outside a room are in
`navigation`, `tabs` and `lock`.

In `lock` both handlers contend: for the lock as writers and readers, with each
other, with `on_disconnect` and with the motion loop. An action constraint
(`ObserverStays`, module `MCPresenceLock`) has the observer join once and keep
its connection, so that somebody is there to see the others go and both handlers
are free for them. It constrains steps of clients only, of which no fairness is
assumed. Between them, two handlers, a disconnect and the motion loop are every
pair of a reader or a writer that waits and one that holds; starvation by a
crowd of readers is ruled out by the line, whatever their number.

`MaxRevision` stops updates at revision 2: two racing updates and one that builds on either. In `SpaceAccess`,
`HolderAge` = TTL + 2 timeouts (the holder is read by the second call),
`EditorAge` = TTL + 3 timeouts (the editors by the first).
In `agents`, `Window` and `MaxEvents` are such that the log drops events the bot
has not read, and the limit of one makes every poll a partial one; `MaxPos`
bounds moves; `MaxEvents` counts what is emitted while the observer is in the room
and every move and auth (leaving is not counted, so that the room can empty at
any time). Its action constraint `OneOrTheOther` has the other maker create its
agent only before the second event is counted: what the two makers race for is
the registry, which the room's events do not touch. In `world_agent` the namesake
is also the other avatar that gets greeted; a chat interval of two ticks is the
smallest in which "too soon" and "never" differ from "at once"; `MaxOrphans`
bounds how many LLM calls of ended sessions are running, by stopping the server
only while there are fewer.

**Views.** `traffic` compares states without `told`, `who` and `newest`, and of a
request only the token of a join that has not used it (`TrafficView`): no guard
reads the rest, no variable that is compared depends on it, and none of the run's
invariants mentions it. `agents` compares states without who said what (the
authors in events and log, and `fresh`), and events by what they do to the mirror
(`BotView`): the bot may speak or not whatever it heard, the ids in the log follow
from its length and `next_event_id`, and only `TypeOK` mentions the authors.

**Symmetry** is used for sockets, tasks, contents, only in runs without liveness
properties.

**Fairness.** `Presence!FairSpec`: a handler that can run again and again does
run (strong fairness per task and per disconnect handler). tokio polls every
woken task, and its RwLock is a FIFO queue, so a waiting writer, which keeps
later readers out, cannot be passed over for ever; the model's queue is a set,
and strong fairness stands for its order among writers. The motion loop's emits
return (weak fairness). Nothing is assumed of clients, of connections going
down, or of the timer. `SpaceAccess!FairSpec`: time passes, and an RPC call is
answered or fails; nobody has to ask or trade. `EventuallyAccurate` is an
implication: *if* from some point on the chain stays as it is and no call fails.

`WorldAgent!Spec`: `select!` picks among ready branches at random, so each that
stays ready is taken (weak fairness per branch), and `main` reconnects while the
server runs. Assumed of others: an LLM call ends, a lost connection is reported,
and a server with `RoomOnConnect` shows the program its avatar. The server need
neither stop nor start: `Reconnects` is about behaviours in which it is up for
good from some point on. `AgentBot` states no liveness: a bot on a bridge that
does not answer waits, as its HTTP client has no timeout.

**Mutants.** For each property `PROJECT.json` names a definition and a mutated
form of it (`Mutant...`, defined just before it): a plausible bug with which the
same run reports the property violated.

## 4. What is proved

By TLAPS, for all values of the constants that meet the named assumptions
(the constants that stand for absent values are distinct from real ones; bounds
are naturals). None of these theorems assumes fairness or a bound on tasks.

* `PresenceProofs!TypeCorrect`, `TokenUnique`, `GhostFree`, `MembershipAgrees`:
  `TypeOK`, `UniquePresence`, `NoGhostTraffic`, `AdapterAgreement`.
  `TypeOK` is inductive with `TaskInv`, what a task's locals are at each of its
  program counters. `UniquePresence` needs `PresentIsKnown` (only records of
  known sockets name a room). `NoGhostTraffic` needs `LockInv` (who is at a
  writer's or reader's program counter holds the lock so, and never both) and
  `GhostInv` (under a reader's guard the room it read is still the record's).
  `AdapterAgreement` needs `AdapterInv`: what exactly is still to be done to the
  adapter at each program counter of the transition that holds the lock.
* `PresenceClientProofs!WalkersAreInRooms`, `NewestClaimEnters`,
  `OneWalletPerConnection`, `AccessIsAnswered`, `RosterIsExact`,
  `PositionsAreExact`: `MotionInRoom`, `NewestClaimWins`, `OneIdentity`,
  `AccessAnswered`, `RosterExact`, `PositionsConverge`.
  `NewestClaimWins` names the task that commits, its room and its claim; it rests
  on `ClaimInv`: a record's claim is the newest that was accepted. `OneIdentity` rests on the nonce (`WalletInv`: once there is a wallet
  the first nonce is used up; `IdleInv`: what an idle task is left with).
  `AccessInv` names, for each connection in a room with a wallet that was not
  told, the handler that will tell it: the join while it has not read the wallet
  yet, the authentication once it has read the room - whichever was second
  holds the answer for both.
  `RosterInv` says what a receiver displays *inside* a transition: who is
  `Arriving` has an old view that is about to be replaced, who is `Coming` is in
  the record but not announced, who is `Leaving` was announced and is about to
  be withdrawn; all of them are named by the one task that holds the lock, so
  without a writer the view is exact. `PositionInv` says that a receiver who
  `Watches` an avatar has a position that is not ahead of the record, and its
  newest one unless that is `Underway` (in the batch of the motion loop, or in a
  move or "new user" about to be emitted) or the avatar is `overtaken`;
  `EmitInv`, that nothing newer than the record is about to be emitted;
  `SwitchInv`, that nobody displays an avatar in the room it is switching to. A
  rejoin, which restarts the numbers, takes the write lock and so finds nothing
  about to be emitted and nobody displaying the old ones. What is claimed where
  something was overtaken is therefore still this: the position shown is one of
  the present stay.
  `QueueIsSafe`: all of these, and those of `PresenceProofs`, hold under
  `FairSpec` too, whose next-state relation has the line of waiting writers.
  Every step lemma of both modules is about `QueuedNext` for that reason.
* `RoomProgramsProofs!ProgramTypes` (with any faults), and, under `ReadsWork`
  (reads do not fail), `MemoryFollowsDisk`, `ToldSurvives` and
  `RegisterImplemented`: `MemoryIsDurable`, `ToldIsDurable`, and the refinement
  `Spec => Register!Spec`. The invariant is a conjunction: `LockInv`
  (exclusive saving), `SaveInv` (what a saving task has in hand is one revision
  above memory and, after `Rename`, is the file), `MemoryInv` (a loaded record
  is the stored one, except between the rename and the assignment), `LoadInv`
  (what a loader fetched is still stored, or somebody has filled memory since)
  and `PastInv` (the file's history
  has one record per revision, none above the file's).
  `MembersAreUpToDate`: `MembersUpToDate`, whatever fails. Its invariant has
  `AnswerInv` (an answer in hand is not newer than memory, a record about to be
  installed is one newer) and `MemberInv`: a member has been sent the revision in
  memory, or its own join is still going to read it (`Welcomes`), or an update
  has it in hand to broadcast (`Spreads`).
* `TokenBucketProofs!BucketBounded`, `SteadyServed`: `RateBounded` from the
  budget invariant "granted plus left is at most a burst plus the refill until
  the last call", and `SteadyNeverRefused`; `BucketTypes`: `TypeOK`.
* `WorldAgentProofs!WorldAgentTypes`, `WorldAgentPaced`, `WorldAgentFlag`,
  `WorldAgentSelf`: `TypeOK`, `ChatPaced`, `BusyExact`, `NotItself`, for any
  namesakes, intervals and configuration. The inductive invariant adds
  `Orderly` (the program's clock of its last chat is the true one, which is why
  the pace holds; whom it greeted) and `LinkInv` (an end of the connection is
  reported only when it was lost, so that the bound on orphans, which `Stops`
  respects, is kept by `EndSession`). Each stage of a decision (`Discover`,
  `Spawn`, `Greet`, `GreetNearby`, `Reply`) has a lemma that it keeps a session
  `Orderly`, and `DecideKeeps` composes them; `TakesAnswer` is why an answer may
  clear the flag: it was the only one, and no call was running.

* `SpaceAccessProofs!AccessTypes`, `KnowledgeIsRecent`: `TypeOK`,
  `EntitledRecently`, for any wallets, lifetimes, number of overlapping lookups
  and faults among those of the model. The invariant follows the knowledge of an
  answer from call to call: `ReadInv` (at the k-th call of a lookup what the
  first one read is at most k-1 timeouts and the wait of this call old, and
  likewise the holder from the second), `CacheInv` (an entry was three, or two,
  timeouts old when it was stored and is older by its age since) and `ChainInv`
  (the history is up to date with the chain). Ages are counted up to one above the
  bounds they are compared with, which is why the invariant may speak of sums.
* `AgentBotProofs!BotTypesHold`, `MirrorHolds`, `StateCovers`,
  `NothingIsSkipped`, `CommandsOwnAvatar`, and the action properties
  `UnreadIsKept`, `PollsAdvance`: the seven properties of `agents`, for any
  users, makers (finitely many), `Window`, `Limit` and bounds.
  `AgentBridgeProofs` has the lemmas on the bridge alone. Its type invariant
  says that the log is a stretch of consecutive ids, which is what makes "the
  events after the cursor" the next ids (`LogIds`,
  `EventsPrefix`, `EventsFirst`).
  `MirrorInv` is `MirrorExact` before the inbox is empty: of each user, the last
  event in the inbox that concerns it is `Right`, or the mirror is when there is
  none: the user as it is, or an earlier position of a user that is there and
  either is overtaken or has its newest one still `unsent`. `UnsentInv` says that
  readers have only positions of avatars that are there, which `CanWrite` keeps
  true, so that a late position brings nobody back. `UptoInv` puts a callback one event behind its log entry at
  most. `CursorInv` says where a cursor can be: not past the log, or at most
  where it was when the bridge restarted (`deaf`). `AgentInv` says that an id is
  given once between two restarts and that a registered connection is under the
  id of its maker, so the bot's id finds the bot's avatar or nothing.

Every invariant and every action property of the passing runs is thereby proved.
Only model-checked are the temporal properties that need fairness, which is out of
the prover's reach together with ENABLED: `HandlersReturn`, `GhostsSwept`,
`EventuallyAccurate`, `BrainFreed`, `Reconnects`, `Spawns`; and the two
violations, which are counterexamples.

The proofs rest on the `ASSUME`s of the modules, which TLC evaluates in the
runs: absent values are none of the real ones; requests are of the shapes a
client can send, and a join or leave names some space; bounds and times are
naturals, those that divide or limit something are positive; makers of agents are
finitely many (ids are counted by how many of them there are). `MaxSeq`,
`MaxRevision`, `MaxEvents`, `MaxPos`, `MaxTime` and `MaxOrphans` are arbitrary
naturals in the theorems: they bound a counter, and no proof uses that it is
small.

## 5. Findings

1. `mod.rs:394`: a room file that exists but cannot be read or parsed is cached
   as an empty program of revision 0, and the next update, whose
   `serverRevision` is 0 or absent, replaces the file. The README promises that
   applied updates survive restarts. Run `room_read_error`.
2. `world_agent.rs:339`: the program sends its user data and waits to see its
   own avatar, but no event reaches a connection that has not sent `join-space`,
   which the program never does: on this server it connects, ticks and does
   nothing, where its header (line 20) promises to spawn. Run
   `world_agent_unseen`.

Also true of the code, without a run:

* `mod.rs:859-892`, `1061-1087`, `1495-1508`: moves, the motion loop and the "new
  user" that follows `auth` read a position and emit it as readers of
  `presence_transition`, so an older one may be emitted after a newer one. A
  "new user" has no number to tell (`mod.rs:108-119`), and the receivers in this
  repository do not look at that of a "move" (`agent_bridge.rs:217-235`,
  `277-306`; `world_agent.rs:256-265`): they keep an old position until the
  avatar moves again. `PositionsConverge` and `MirrorExact` say that this is the
  only way to an old position, and that it does not bring an avatar back nor
  show one of an earlier stay.
* `chain.rs:244`: the token account is read with the function whose `NotFound`
  means "not minted" for the space account, so a transfer that closes the old
  account between two RPC calls makes a minted space look unminted
  (`chain.rs:140`, `mod.rs:455`) until the next lookup.
* `agent_bot.rs:551`: the bot's chat interval counts from before the LLM was
  asked, and from the start of the program if there was a greeting (line 427),
  so messages may be closer than `AGENT_MIN_CHAT_INTERVAL_MS` ("rate limit
  outgoing chat", line 370).
* `agent_bot.rs:485`: after a restart of the bridge the bot's cursor and agent
  id belong to the old one (`NothingSkipped` and `OwnAvatar` say what is left).
* `world_agent.rs:829`: a namesake, such as its own avatar of the session before,
  is taken for itself and never given up in that session (`NotItself`). Then the
  user data is not sent again either (line 836), so an avatar whose first user
  data was lost stays nameless, against line 20 ("nickname+avatar must be
  non-empty"); `Spawns` excepts it.

## 6. What is not modelled

* Contents: `validate.rs`, decoding of account data, names, f32 positions.
  Pure functions whose verdict is an input of the models.
* A power failure (the temporary file is not synced); the models restart the
  process, not the machine.
* Whether socketioxide runs a disconnect handler that is registered after the
  connection has dropped: the model assumes that it does not, so the record stays.
* Which of two access answers of one connection is sent last (`mod.rs:1201`), and
  which of two room programs (`mod.rs:1188`): the properties say that the right
  one was sent.
* Rate limiting inside `Presence` and `RoomPrograms`: a refused event is an
  event that was not sent.
* HTTP routes, CORS, origin guard, configuration: stateless.
* Agents: walking (`goto`) and its timers, which nothing else depends on; the
  bridge's commands other than chat, which have the same control; names and
  prompts; the disconnects when bridge or agent are stopped.

## 7. Plan

Done, in this order: `Presence`, `RoomPrograms` refining `RoomRegister`,
`TokenBucket`, `SpaceAccess`, `AgentBridge` and `AgentBot`, `WorldAgent`, and the
proofs of all their safety properties.

Next modules, if runs are to be added: edits in context (`RoomPrograms` with the
membership of `Presence` and the answers of `SpaceAccess`, to bound how old
membership and right are when an update takes effect, `mod.rs:1298-1340`), and
`config` of `chain.rs` as a second instance of the cache.

Next proofs: those modules' safety; a refinement of the mirror (the bridge
implements a register of the room that lags behind by its inbox), which would
state `MirrorExact` before the inbox is empty.
