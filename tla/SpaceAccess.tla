---------------------------- MODULE SpaceAccess -----------------------------
(***************************************************************************)
(* Who may edit a space: ChainClient.space_access of src/src/chain.rs with *)
(* its cache, and ClientsState.access_for on top of it.  The cache keeps   *)
(* one entry per space and the entries share nothing, so one space is      *)
(* modelled.                                                               *)
(*                                                                         *)
(* A lookup that misses makes three RPC calls, and the chain (external)    *)
(* may change between any two of them; lookups overlap.  Time runs in      *)
(* ticks and only enters through ages.                                     *)
(***************************************************************************)
EXTENDS Integers

CONSTANTS
    Wallets,     \* wallet public keys
    Moderators,  \* MODERATOR_WALLETS
    EditorSets,  \* the sets of editors that holders appoint in this instance
    Tasks,       \* concurrent lookups
    NoWallet,    \* holder = None
    Missing,     \* no cache entry
    TTL,         \* ownership_cache_secs, in ticks
    Timeout,     \* of one RPC call, in ticks
    Faults       \* what may happen besides: "rpc" calls fail, former holders
                 \* "close" their token account, holders "burn" the NFT

VARIABLES
    minted, holder, owner, editors, accounts,
              \* the chain: the space account exists, holder of the NFT,
              \* Space.owner, Space.editors, and the wallets whose token
              \* account for the mint is open
    cache, age,
              \* space_cache: the entry and the ticks since fetched_at
    pc, wait, got, outcome,
              \* per lookup: program counter, ticks since the RPC call it
              \* awaits was made, what it learned, and how it ended
    held, listed
              \* history: ticks since a wallet last held the NFT, and since an
              \* owner last had another wallet among the editors

chain   == <<minted, holder, owner, editors, accounts>>
lookups == <<pc, wait, got, outcome>>
past    == <<held, listed>>
vars    == <<chain, cache, age, lookups, past>>

\* SpaceAccess, without what the decision does not depend on.
Value == [owner : Wallets \cup {NoWallet}, editors : SUBSET Wallets,
          holder : Wallets \cup {NoWallet}]
Pairs == {p \in Wallets \X Wallets : p[1] # p[2]}
Blank == [owner |-> NoWallet, editors |-> {}, holder |-> NoWallet]

ASSUME NamesAssumption ==
    /\ NoWallet \notin Wallets /\ Missing \notin Value
    /\ Moderators \subseteq Wallets /\ EditorSets \subseteq SUBSET Wallets
    /\ Faults \subseteq {"rpc", "close", "burn"}
ASSUME TimeAssumption == TTL \in Nat /\ Timeout \in Nat

\* The holder is found by the second call, the editors by the first one.
HolderAge == TTL + 2 * Timeout
EditorAge == TTL + 3 * Timeout

RequestPCs == {"space", "largest", "account"}
ResponsePCs == {"spaceRead", "largestRead", "accountRead"}

TypeOK ==
    /\ minted \in BOOLEAN
    /\ holder \in Wallets \cup {NoWallet} /\ owner \in Wallets \cup {NoWallet}
    /\ editors \subseteq Wallets /\ accounts \subseteq Wallets
    /\ cache \in Value \cup {Missing}
    /\ age \in 0..TTL
    /\ pc \in [Tasks -> {"idle", "fallback", "answered"} \cup RequestPCs \cup ResponsePCs]
    /\ wait \in [Tasks -> 0..Timeout]
    /\ got \in [Tasks -> Value]
    /\ outcome \in [Tasks -> {"none", "fresh", "stale", "NotFound", "error"}]
    /\ held \in [Wallets -> 0..HolderAge + 1]
    /\ listed \in [Pairs -> 0..EditorAge + 1]

Init ==
    /\ minted = FALSE
    /\ holder = NoWallet /\ owner = NoWallet /\ editors = {} /\ accounts = {}
    /\ cache = Missing /\ age = 0
    /\ pc = [t \in Tasks |-> "idle"]
    /\ wait = [t \in Tasks |-> 0]
    /\ got = [t \in Tasks |-> Blank]
    /\ outcome = [t \in Tasks |-> "none"]
    /\ held = [w \in Wallets |-> HolderAge + 1]
    /\ listed = [p \in Pairs |-> EditorAge + 1]

-----------------------------------------------------------------------------
(* The chain *)

\* The space and its NFT are minted; the minter is the recorded owner.
Mint(w) ==
    /\ ~ minted
    /\ minted' = TRUE
    /\ holder' = w /\ owner' = w /\ accounts' = {w}
    /\ held' = [held EXCEPT ![w] = 0]
    /\ UNCHANGED <<editors, cache, age, lookups, listed>>

\* The NFT changes hands; Space.owner lags behind.
Transfer(w) ==
    /\ holder \notin {NoWallet, w}
    /\ holder' = w
    /\ \/ accounts' = accounts \cup {w}
       \/ "close" \in Faults /\ accounts' = (accounts \ {holder}) \cup {w}
    /\ held' = [held EXCEPT ![w] = 0]
    /\ UNCHANGED <<minted, owner, editors, cache, age, lookups, listed>>

\* The NFT is burned; the space account stays.
Burn ==
    /\ "burn" \in Faults
    /\ holder # NoWallet
    /\ holder' = NoWallet
    /\ UNCHANGED <<minted, owner, editors, accounts, cache, age, lookups, past>>

\* The holder has itself recorded as the owner, with editors E.
Appoint(E) ==
    /\ holder # NoWallet
    /\ owner' = holder
    /\ editors' = E
    /\ listed' = [p \in Pairs |->
                      IF p[1] = holder /\ p[2] \in E THEN 0 ELSE listed[p]]
    /\ UNCHANGED <<minted, holder, accounts, cache, age, lookups, held>>

-----------------------------------------------------------------------------
(* space_access *)

Proceed(t, to) == pc' = [pc EXCEPT ![t] = to]

MutantFresh == cache # Missing   \* mutant: entries never expire
Fresh == cache # Missing /\ age < TTL

\* A lookup begins: the cached value, or the first RPC call.
Lookup(t) ==
    /\ pc[t] = "idle"
    /\ IF Fresh
       THEN /\ Proceed(t, "answered")
            /\ got' = [got EXCEPT ![t] = cache]
            /\ outcome' = [outcome EXCEPT ![t] = "fresh"]
       ELSE Proceed(t, "space") /\ UNCHANGED <<got, outcome>>
    /\ UNCHANGED <<chain, cache, age, wait, past>>

\* The error err ends the fetch.
Abort(t, err) ==
    /\ Proceed(t, "fallback")
    /\ wait' = [wait EXCEPT ![t] = 0]
    /\ got' = [got EXCEPT ![t] = Blank]
    /\ outcome' = [outcome EXCEPT ![t] = err]

\* The node answers getAccountInfo for the space account.
ReadSpace(t) ==
    /\ pc[t] = "space"
    /\ IF minted
       THEN /\ Proceed(t, "spaceRead")
            /\ got' = [got EXCEPT ![t] = [Blank EXCEPT !.owner = owner, !.editors = editors]]
            /\ UNCHANGED <<wait, outcome>>
       ELSE Abort(t, "NotFound")
    /\ UNCHANGED <<chain, cache, age, past>>

\* The node answers getTokenLargestAccounts: the account with amount 1, if any.
ReadLargest(t) ==
    /\ pc[t] = "largest"
    /\ got' = [got EXCEPT ![t].holder = holder]
    /\ Proceed(t, "largestRead")
    /\ UNCHANGED <<chain, cache, age, wait, outcome, past>>

\* The node answers getAccountInfo for that token account.  Its owner is the
\* wallet it was opened for, whatever it holds by now.
ReadAccount(t) ==
    /\ pc[t] = "account"
    /\ IF got[t].holder \in accounts
       THEN Proceed(t, "accountRead") /\ UNCHANGED <<wait, got, outcome>>
       ELSE Abort(t, "NotFound")
    /\ UNCHANGED <<chain, cache, age, past>>

\* The answer arrives and the next call is made.
Advance(t) ==
    /\ \/ pc[t] = "spaceRead" /\ Proceed(t, "largest")
       \/ pc[t] = "largestRead" /\ got[t].holder # NoWallet /\ Proceed(t, "account")
    /\ wait' = [wait EXCEPT ![t] = 0]
    /\ UNCHANGED <<chain, cache, age, got, outcome, past>>

\* The last answer arrives: insert it with fetched_at = now.
Store(t) ==
    /\ pc[t] = "accountRead" \/ (pc[t] = "largestRead" /\ got[t].holder = NoWallet)
    /\ cache' = got[t]
    /\ age' = 0
    /\ Proceed(t, "answered")
    /\ wait' = [wait EXCEPT ![t] = 0]
    /\ outcome' = [outcome EXCEPT ![t] = "fresh"]
    /\ UNCHANGED <<chain, got, past>>

\* Transport error, timeout, RPC error or malformed data.
Fail(t) ==
    /\ "rpc" \in Faults
    /\ pc[t] \in RequestPCs \cup ResponsePCs
    /\ Abort(t, "error")
    /\ UNCHANGED <<chain, cache, age, past>>

\* The refresh failed: a cached value is served however old it is.
Fallback(t) ==
    /\ pc[t] = "fallback"
    /\ Proceed(t, "answered")
    /\ IF cache = Missing
       THEN UNCHANGED <<got, outcome>>
       ELSE /\ got' = [got EXCEPT ![t] = cache]
            /\ outcome' = [outcome EXCEPT ![t] = "stale"]
    /\ UNCHANGED <<chain, cache, age, wait, past>>

Return(t) ==
    /\ pc[t] = "answered"
    /\ Proceed(t, "idle")
    /\ got' = [got EXCEPT ![t] = Blank]
    /\ outcome' = [outcome EXCEPT ![t] = "none"]
    /\ UNCHANGED <<chain, cache, age, wait, past>>

-----------------------------------------------------------------------------
Older(n, limit) == IF n < limit THEN n + 1 ELSE n

\* A call that took Timeout ticks is answered or has failed.
MutantInTime == TRUE   \* mutant: the client sets no timeout
InTime == \A t \in Tasks : pc[t] \in RequestPCs \cup ResponsePCs => wait[t] < Timeout

Tick ==
    /\ InTime
    /\ age' = IF cache = Missing THEN age ELSE Older(age, TTL)
    /\ wait' = [t \in Tasks |-> IF pc[t] \in RequestPCs \cup ResponsePCs
                                THEN wait[t] + 1 ELSE wait[t]]
    /\ held' = [w \in Wallets |-> IF w = holder THEN 0 ELSE Older(held[w], HolderAge + 1)]
    /\ listed' = [p \in Pairs |->
                      IF p[1] = owner /\ p[2] \in editors THEN 0
                      ELSE Older(listed[p], EditorAge + 1)]
    /\ UNCHANGED <<chain, cache, pc, got, outcome>>

Progress(t) ==
    \/ ReadSpace(t) \/ ReadLargest(t) \/ ReadAccount(t) \/ Advance(t)
    \/ Store(t) \/ Fallback(t) \/ Return(t)

Next ==
    \/ \E w \in Wallets : Mint(w) \/ Transfer(w)
    \/ \E E \in EditorSets : Appoint(E)
    \/ Burn
    \/ \E t \in Tasks : Lookup(t) \/ Progress(t) \/ Fail(t)
    \/ Tick

Spec == Init /\ [][Next]_vars

\* Calls are answered and time passes; nobody has to ask or to trade.
FairSpec == Spec /\ WF_vars(Tick) /\ \A t \in Tasks : WF_vars(Progress(t))

-----------------------------------------------------------------------------
(* The decision *)

\* Mutant: editors count whoever appointed them.
MutantCanEdit(v, w) == v.holder # NoWallet /\ (v.holder = w \/ w \in v.editors)

\* SpaceAccess.can_edit
CanEdit(v, w) ==
    /\ v.holder # NoWallet
    /\ \/ v.holder = w
       \/ v.owner = v.holder /\ w \in v.editors

\* access_for, once a lookup is answered: what wallet w is told.  A moderator
\* needs no lookup.
Access(t, w) ==
    CASE w \in Moderators        -> "edit"
      [] outcome[t] = "NotFound" -> "unminted"
      [] outcome[t] = "error"    -> "unavailable"
      [] OTHER                   -> IF CanEdit(got[t], w) THEN "edit" ELSE "view"

-----------------------------------------------------------------------------
(* Properties *)

Answers(t) == pc[t] # "answered" /\ pc'[t] = "answered"

\* w held the NFT, or was an editor of a wallet that held it, a short while
\* ago.
EntitledLately(v, w) ==
    /\ held[v.holder] <= HolderAge
    /\ w # v.holder => listed[<<v.holder, w>>] <= EditorAge

LetsInLately(t) ==
    \A w \in Wallets \ Moderators :
        Access(t, w) = "edit" => EntitledLately(got[t], w)

\* While the RPC node answers, nobody is let in on knowledge that is older than
\* the cache allows and the calls of one lookup take: not by an entry that an
\* overlapping, slower lookup overwrote, nor by owner, editors and holder that
\* were read at different times ("current NFT holder", "editor only while
\* Space.owner still equals the holder", "cached OWNERSHIP_CACHE_SECS").
EntitledRecently ==
    [][\A t \in Tasks :
         Answers(t) /\ outcome'[t] = "fresh" => LetsInLately(t)']_vars

\* The answer is what the chain says now.
Accurate(t) ==
    IF minted THEN outcome[t] = "fresh" /\ got[t] = [owner |-> owner, editors |-> editors, holder |-> holder]
    ELSE outcome[t] = "NotFound"

\* Once the chain stays as it is and calls no longer fail, every answer is the
\* chain's in the end: no stale entry survives, although failed refreshes
\* serve it and overlapping lookups may put it back.
EventuallyAccurate ==
    <>[][UNCHANGED chain /\ \A t \in Tasks : ~ Fail(t)]_vars
        => <>[](\A t \in Tasks : pc[t] = "answered" => Accurate(t))
=============================================================================
