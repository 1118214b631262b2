-------------------------- MODULE SpaceAccessProofs --------------------------
(***************************************************************************)
(* Nobody is let in on old knowledge, for any wallets, any number of       *)
(* overlapping lookups and any times: the argument follows what a lookup   *)
(* read, and how long ago at most, from call to call into the cache and    *)
(* out of it again.                                                        *)
(***************************************************************************)
EXTENDS SpaceAccess, TLAPS

USE NamesAssumption, TimeAssumption

-----------------------------------------------------------------------------
(* Types *)

LEMMA BlankType == Blank \in Value
  BY DEF Blank, Value

LEMMA InitTypes == Init => TypeOK
<1>1. HolderAge + 1 \in 0..HolderAge + 1 /\ EditorAge + 1 \in 0..EditorAge + 1
  BY DEF HolderAge, EditorAge
<1>2. /\ [w \in Wallets |-> HolderAge + 1] \in [Wallets -> 0..HolderAge + 1]
      /\ [p \in Pairs |-> EditorAge + 1] \in [Pairs -> 0..EditorAge + 1]
  BY <1>1
<1>3. [t \in Tasks |-> 0] \in [Tasks -> 0..Timeout] /\ [t \in Tasks |-> Blank] \in [Tasks -> Value]
      /\ 0 \in 0..TTL
  BY BlankType
<1> QED BY <1>2, <1>3 DEF Init, TypeOK

LEMMA ChainTypes ==
  ASSUME TypeOK,
         \/ \E w \in Wallets : Mint(w) \/ Transfer(w)
         \/ \E E \in EditorSets : Appoint(E)
         \/ Burn
  PROVE  TypeOK'
<1>1. UNCHANGED <<cache, age, pc, wait, got, outcome>>
  BY DEF Mint, Transfer, Appoint, Burn, lookups
<1>2. 0 \in 0..HolderAge + 1 /\ 0 \in 0..EditorAge + 1
  BY DEF HolderAge, EditorAge
<1>3. ASSUME NEW w \in Wallets, Mint(w) PROVE TypeOK'
  BY <1>1, <1>2, <1>3 DEF Mint, TypeOK
<1>4. ASSUME NEW w \in Wallets, Transfer(w) PROVE TypeOK'
  BY <1>1, <1>2, <1>4 DEF Transfer, TypeOK
<1>5. ASSUME NEW E \in EditorSets, Appoint(E) PROVE TypeOK'
  BY <1>1, <1>2, <1>5 DEF Appoint, TypeOK
<1>6. CASE Burn
  BY <1>1, <1>6 DEF Burn, TypeOK, past
<1> QED BY <1>3, <1>4, <1>5, <1>6

\* A step of a lookup leaves the chain and the past as they are.
LEMMA LookupTypes ==
  ASSUME TypeOK, NEW t \in Tasks, Lookup(t) \/ Progress(t) \/ Fail(t)
  PROVE  TypeOK'
<1>1. UNCHANGED <<minted, holder, owner, editors, accounts, held, listed>>
  BY DEF Lookup, Progress, Fail, ReadSpace, ReadLargest, ReadAccount, Advance, Store,
         Fallback, Return, chain, past
<1>2. 0 \in 0..Timeout /\ 0 \in 0..TTL
  OBVIOUS
<1>3. ASSUME NEW err \in {"NotFound", "error"}, Abort(t, err), UNCHANGED <<cache, age>>
      PROVE  TypeOK'
  BY <1>1, <1>2, <1>3, BlankType DEF Abort, Proceed, TypeOK
<1>4. CASE Lookup(t)
  BY <1>1, <1>4 DEF Lookup, Proceed, Fresh, TypeOK, RequestPCs
<1>5. CASE ReadSpace(t)
  <2>1. [Blank EXCEPT !.owner = owner, !.editors = editors] \in Value
    BY DEF Blank, Value, TypeOK
  <2> QED BY <1>1, <1>3, <1>5, <2>1 DEF ReadSpace, Proceed, TypeOK, ResponsePCs
<1>6. CASE ReadLargest(t)
  <2>1. [got[t] EXCEPT !.holder = holder] \in Value
    BY DEF Value, TypeOK
  <2> QED BY <1>1, <1>6, <2>1 DEF ReadLargest, Proceed, TypeOK, ResponsePCs
<1>7. CASE ReadAccount(t)
  BY <1>1, <1>3, <1>7 DEF ReadAccount, Proceed, TypeOK, ResponsePCs
<1>8. CASE Advance(t)
  BY <1>1, <1>2, <1>8 DEF Advance, Proceed, TypeOK, RequestPCs
<1>9. CASE Store(t)
  BY <1>1, <1>2, <1>9 DEF Store, Proceed, TypeOK
<1>10. CASE Fail(t)
  BY <1>3, <1>10 DEF Fail
<1>11. CASE Fallback(t)
  BY <1>1, <1>11 DEF Fallback, Proceed, TypeOK
<1>12. CASE Return(t)
  BY <1>1, <1>12, BlankType DEF Return, Proceed, TypeOK
<1> QED BY <1>4, <1>5, <1>6, <1>7, <1>8, <1>9, <1>10, <1>11, <1>12 DEF Progress

LEMMA OlderType ==
  ASSUME NEW limit \in Nat, NEW n \in 0..limit
  PROVE  Older(n, limit) \in 0..limit
  BY DEF Older

LEMMA TickTypes ==
  ASSUME TypeOK, Tick
  PROVE  TypeOK'
<1>1. UNCHANGED <<minted, holder, owner, editors, accounts, cache, pc, got, outcome>>
  BY DEF Tick, chain
<1>2. age' \in 0..TTL
  BY OlderType DEF Tick, TypeOK
<1>3. wait' \in [Tasks -> 0..Timeout]
  BY DEF Tick, InTime, TypeOK
<1>4. held' \in [Wallets -> 0..HolderAge + 1]
  BY OlderType DEF Tick, TypeOK, HolderAge
<1>5. listed' \in [Pairs -> 0..EditorAge + 1]
  BY OlderType DEF Tick, TypeOK, EditorAge
<1> QED BY <1>1, <1>2, <1>3, <1>4, <1>5 DEF TypeOK

LEMMA StepTypes == TypeOK /\ [Next]_vars => TypeOK'
<1> SUFFICES ASSUME TypeOK, [Next]_vars PROVE TypeOK'
  OBVIOUS
<1>1. CASE UNCHANGED vars
  BY <1>1 DEF TypeOK, vars, chain, lookups, past
<1> QED BY <1>1, ChainTypes, LookupTypes, TickTypes DEF Next

\* Every variable keeps its type, with any faults; no call is awaited for longer
\* than its timeout.
THEOREM AccessTypes == Spec => []TypeOK
  BY InitTypes, StepTypes, PTL DEF Spec
-----------------------------------------------------------------------------
(* How old knowledge is                                                     *)

\* The editors of v were read n ticks ago or less, its holder likewise.
EditorsWithin(v, n) ==
    \A p \in Pairs : p[1] = v.owner /\ p[2] \in v.editors => listed[p] <= n
HolderWithin(v, n) == v.holder # NoWallet => held[v.holder] <= n

\* The history is up to date with the chain.
ChainInv ==
    /\ ~ minted => holder = NoWallet /\ editors = {}
    /\ holder # NoWallet => held[holder] = 0
    /\ \A p \in Pairs : p[1] = owner /\ p[2] \in editors => listed[p] = 0

\* What a lookup has read is as old as the call it was read by and the calls
\* since: the editors come with the first of three, the holder with the second.
ReadInv(t) ==
    /\ pc[t] = "spaceRead" => EditorsWithin(got[t], wait[t])
    /\ pc[t] \in {"largest", "largestRead"} => EditorsWithin(got[t], Timeout + wait[t])
    /\ pc[t] \in {"account", "accountRead"} => EditorsWithin(got[t], 2 * Timeout + wait[t])
    /\ pc[t] = "largestRead" => HolderWithin(got[t], wait[t])
    /\ pc[t] \in {"account", "accountRead"} => HolderWithin(got[t], Timeout + wait[t])
    /\ outcome[t] = "fresh" => pc[t] = "answered"

\* An entry of the cache was as old when it was stored, and is older by its age.
CacheInv ==
    Fresh => EditorsWithin(cache, 3 * Timeout + age) /\ HolderWithin(cache, 2 * Timeout + age)

KnowledgeInv == ChainInv /\ CacheInv /\ \A t \in Tasks : ReadInv(t)

LEMMA InitKnowledge == Init => KnowledgeInv
  BY DEF Init, KnowledgeInv, ChainInv, CacheInv, ReadInv, Fresh

\* As long as no time passes what was read gets no older.
Younger ==
    /\ \A w \in Wallets : held'[w] <= held[w]
    /\ \A p \in Pairs : listed'[p] <= listed[p]

LEMMA StaysWithin ==
  ASSUME TypeOK, TypeOK', Younger, NEW v \in Value, NEW n \in Int
  PROVE  /\ EditorsWithin(v, n) => EditorsWithin(v, n)'
         /\ HolderWithin(v, n) => HolderWithin(v, n)'
<1>1. ASSUME EditorsWithin(v, n) PROVE EditorsWithin(v, n)'
  <2> SUFFICES ASSUME NEW p \in Pairs, p[1] = v.owner /\ p[2] \in v.editors
               PROVE  listed'[p] <= n
    BY DEF EditorsWithin
  <2>1. listed[p] <= n /\ listed'[p] <= listed[p]
    BY <1>1 DEF EditorsWithin, Younger
  <2>2. listed[p] \in Int /\ listed'[p] \in Int
    BY DEF TypeOK
  <2> QED BY <2>1, <2>2
<1>2. ASSUME HolderWithin(v, n) PROVE HolderWithin(v, n)'
  <2> SUFFICES ASSUME v.holder # NoWallet
               PROVE  held'[v.holder] <= n
    BY DEF HolderWithin
  <2>0. v.holder \in Wallets
    BY DEF Value
  <2>1. held[v.holder] <= n /\ held'[v.holder] <= held[v.holder]
    BY <2>0, <1>2 DEF HolderWithin, Younger
  <2>2. held[v.holder] \in Int /\ held'[v.holder] \in Int
    BY <2>0 DEF TypeOK
  <2> QED BY <2>1, <2>2
<1> QED BY <1>1, <1>2

\* Whatever happens on the chain leaves every clock but those of the past.
LEMMA ChainKnowledge ==
  ASSUME TypeOK, TypeOK', KnowledgeInv,
         \/ \E w \in Wallets : Mint(w) \/ Transfer(w)
         \/ \E E \in EditorSets : Appoint(E)
         \/ Burn
  PROVE  KnowledgeInv'
<1>1. UNCHANGED <<cache, age, pc, wait, got, outcome>>
  BY DEF Mint, Transfer, Appoint, Burn, lookups
<1>2. Younger
  BY DEF Younger, Mint, Transfer, Appoint, Burn, past, TypeOK
<1>3. ChainInv'
  <2>1. ASSUME NEW w \in Wallets, Mint(w) PROVE ChainInv'
    BY <2>1 DEF Mint, ChainInv, KnowledgeInv, TypeOK
  <2>2. ASSUME NEW w \in Wallets, Transfer(w) PROVE ChainInv'
    BY <2>2 DEF Transfer, ChainInv, KnowledgeInv, TypeOK
  <2>3. ASSUME NEW E \in EditorSets, Appoint(E) PROVE ChainInv'
    BY <2>3 DEF Appoint, ChainInv, KnowledgeInv, TypeOK
  <2>4. CASE Burn
    BY <2>4 DEF Burn, ChainInv, KnowledgeInv, TypeOK, past
  <2> QED BY <2>1, <2>2, <2>3, <2>4
<1>4. CacheInv'
  <2> SUFFICES ASSUME Fresh
               PROVE  (EditorsWithin(cache, 3 * Timeout + age) /\ HolderWithin(cache, 2 * Timeout + age))'
    BY <1>1 DEF CacheInv, Fresh
  <2>1. cache \in Value /\ 3 * Timeout + age \in Int /\ 2 * Timeout + age \in Int
    BY DEF TypeOK, Fresh
  <2>2. EditorsWithin(cache, 3 * Timeout + age) /\ HolderWithin(cache, 2 * Timeout + age)
    BY DEF KnowledgeInv, CacheInv
  <2> QED BY <1>1, <1>2, <2>1, <2>2, StaysWithin DEF EditorsWithin, HolderWithin
<1>5. ASSUME NEW t \in Tasks PROVE ReadInv(t)'
  <2>1. got[t] \in Value /\ wait[t] \in Int /\ Timeout + wait[t] \in Int /\ 2 * Timeout + wait[t] \in Int
    BY DEF TypeOK
  <2>2. ReadInv(t)
    BY DEF KnowledgeInv
  <2>3. /\ pc[t] = "spaceRead" => EditorsWithin(got[t], wait[t])'
        /\ pc[t] \in {"largest", "largestRead"} => EditorsWithin(got[t], Timeout + wait[t])'
        /\ pc[t] \in {"account", "accountRead"} => EditorsWithin(got[t], 2 * Timeout + wait[t])'
        /\ pc[t] = "largestRead" => HolderWithin(got[t], wait[t])'
        /\ pc[t] \in {"account", "accountRead"} => HolderWithin(got[t], Timeout + wait[t])'
    BY <1>1, <1>2, <2>1, <2>2, StaysWithin DEF ReadInv, EditorsWithin, HolderWithin
  <2> QED BY <1>1, <2>2, <2>3 DEF ReadInv
<1> QED BY <1>3, <1>4, <1>5 DEF KnowledgeInv

\* A step of a lookup that stores nothing concerns only itself.
LEMMA OwnKnowledge ==
  ASSUME KnowledgeInv, NEW t \in Tasks,
         UNCHANGED <<minted, holder, owner, editors, held, listed, cache, age>>,
         \A u \in Tasks \ {t} : /\ pc'[u] = pc[u] /\ wait'[u] = wait[u]
                                /\ got'[u] = got[u] /\ outcome'[u] = outcome[u],
         ReadInv(t)'
  PROVE  KnowledgeInv'
  BY DEF KnowledgeInv, ChainInv, CacheInv, ReadInv, EditorsWithin, HolderWithin, Fresh

LEMMA LookupKnowledge ==
  ASSUME TypeOK, KnowledgeInv, NEW t \in Tasks, Lookup(t) \/ Progress(t) \/ Fail(t)
  PROVE  KnowledgeInv'
<1>1. UNCHANGED <<minted, holder, owner, editors, accounts, held, listed>>
  BY DEF Lookup, Progress, Fail, ReadSpace, ReadLargest, ReadAccount, Advance, Store,
         Fallback, Return, chain, past
<1>2. \A u \in Tasks \ {t} : /\ pc'[u] = pc[u] /\ wait'[u] = wait[u]
                             /\ got'[u] = got[u] /\ outcome'[u] = outcome[u]
  BY DEF Lookup, Progress, Fail, Abort, ReadSpace, ReadLargest, ReadAccount, Advance, Store,
         Fallback, Return, Proceed, TypeOK
<1>3. ReadInv(t) /\ ChainInv /\ CacheInv
  BY DEF KnowledgeInv
<1>4. PICK PC, Outcome :
        /\ pc \in [Tasks -> PC] /\ outcome \in [Tasks -> Outcome]
        /\ wait \in [Tasks -> 0..Timeout] /\ got \in [Tasks -> Value]
  BY DEF TypeOK
<1>5. ASSUME NEW err \in {"NotFound", "error"}, Abort(t, err) PROVE ReadInv(t)'
  BY <1>4, <1>5 DEF Abort, Proceed, ReadInv
<1>6. CASE Lookup(t)
  <2>1. ReadInv(t)'
    BY <1>3, <1>4, <1>6 DEF Lookup, Proceed, ReadInv
  <2> QED BY <1>1, <1>2, <1>6, <2>1, OwnKnowledge DEF Lookup
<1>7. CASE ReadSpace(t)
  <2>1. ReadInv(t)'
    <3>1. CASE minted
      <4>1. got'[t] = [Blank EXCEPT !.owner = owner, !.editors = editors]
        BY <1>4, <1>7, <3>1 DEF ReadSpace
      <4>2. got'[t].owner = owner /\ got'[t].editors = editors
        BY <4>1 DEF Blank
      <4>3. EditorsWithin(got[t], wait[t])'
        BY <1>1, <1>3, <1>4, <1>7, <3>1, <4>2 DEF ReadSpace, EditorsWithin, ChainInv
      <4> QED BY <1>3, <1>4, <1>7, <3>1, <4>3 DEF ReadSpace, Proceed, ReadInv
    <3>2. CASE ~ minted
      BY <1>5, <1>7, <3>2 DEF ReadSpace
    <3> QED BY <3>1, <3>2
  <2> QED BY <1>1, <1>2, <1>7, <2>1, OwnKnowledge DEF ReadSpace
<1>8. CASE ReadLargest(t)
  <2>1. got'[t] = [got[t] EXCEPT !.holder = holder]
    BY <1>4, <1>8 DEF ReadLargest
  <2>2. got'[t].owner = got[t].owner /\ got'[t].editors = got[t].editors /\ got'[t].holder = holder
    BY <1>4, <2>1 DEF Value
  <2>3. HolderWithin(got[t], wait[t])'
    BY <1>1, <1>3, <1>4, <1>8, <2>2 DEF ReadLargest, HolderWithin, ChainInv
  <2>4. EditorsWithin(got[t], Timeout + wait[t])'
    BY <1>1, <1>3, <1>8, <2>2 DEF ReadLargest, EditorsWithin, ReadInv
  <2>5. ReadInv(t)'
    BY <1>3, <1>4, <1>8, <2>3, <2>4 DEF ReadLargest, Proceed, ReadInv
  <2> QED BY <1>1, <1>2, <1>8, <2>5, OwnKnowledge DEF ReadLargest
<1>9. CASE ReadAccount(t)
  <2>1. ReadInv(t)'
    BY <1>1, <1>3, <1>4, <1>5, <1>9 DEF ReadAccount, Proceed, ReadInv, EditorsWithin, HolderWithin
  <2> QED BY <1>1, <1>2, <1>9, <2>1, OwnKnowledge DEF ReadAccount
<1>10. CASE Advance(t)
  <2>1. wait'[t] = 0 /\ got'[t] = got[t] /\ outcome'[t] = outcome[t]
    BY <1>4, <1>10 DEF Advance
  <2>2. ASSUME pc[t] = "spaceRead" PROVE ReadInv(t)'
    <3>1. pc'[t] = "largest"
      BY <1>4, <1>10, <2>2 DEF Advance, Proceed
    <3>2. EditorsWithin(got[t], Timeout + wait[t])'
      BY <1>1, <1>3, <1>4, <2>1, <2>2 DEF ReadInv, EditorsWithin, TypeOK
    <3> QED BY <1>3, <2>1, <2>2, <3>1, <3>2 DEF ReadInv
  <2>3. ASSUME pc[t] = "largestRead" PROVE ReadInv(t)'
    <3>1. pc'[t] = "account"
      BY <1>4, <1>10, <2>3 DEF Advance, Proceed
    <3>2. EditorsWithin(got[t], 2 * Timeout + wait[t])'
      BY <1>1, <1>3, <1>4, <2>1, <2>3 DEF ReadInv, EditorsWithin, TypeOK
    <3>3. HolderWithin(got[t], Timeout + wait[t])'
      BY <1>1, <1>3, <1>4, <2>1, <2>3 DEF ReadInv, HolderWithin, TypeOK, Value
    <3> QED BY <1>3, <2>1, <2>3, <3>1, <3>2, <3>3 DEF ReadInv
  <2> QED BY <1>1, <1>2, <1>10, <2>2, <2>3, OwnKnowledge DEF Advance
<1>11. CASE Store(t)
  <2>1. cache' = got[t] /\ age' = 0
    BY <1>11 DEF Store
  <2>2. CacheInv'
    <3>1. EditorsWithin(got[t], 3 * Timeout)
      BY <1>3, <1>4, <1>11 DEF Store, ReadInv, EditorsWithin, TypeOK
    <3>2. HolderWithin(got[t], 2 * Timeout)
      BY <1>3, <1>4, <1>11 DEF Store, ReadInv, HolderWithin, TypeOK, Value
    <3> QED BY <1>1, <2>1, <3>1, <3>2 DEF CacheInv, EditorsWithin, HolderWithin
  <2>3. ReadInv(t)'
    BY <1>4, <1>11 DEF Store, Proceed, ReadInv
  <2> QED BY <1>1, <1>2, <2>2, <2>3 DEF KnowledgeInv, ChainInv, ReadInv, EditorsWithin, HolderWithin
<1>12. CASE Fail(t)
  BY <1>1, <1>2, <1>5, <1>12, OwnKnowledge DEF Fail
<1>13. CASE Fallback(t)
  <2>1. ReadInv(t)'
    BY <1>3, <1>4, <1>13 DEF Fallback, Proceed, ReadInv
  <2> QED BY <1>1, <1>2, <1>13, <2>1, OwnKnowledge DEF Fallback
<1>14. CASE Return(t)
  <2>1. ReadInv(t)'
    BY <1>4, <1>14 DEF Return, Proceed, ReadInv
  <2> QED BY <1>1, <1>2, <1>14, <2>1, OwnKnowledge DEF Return
<1> QED BY <1>6, <1>7, <1>8, <1>9, <1>10, <1>11, <1>12, <1>13, <1>14 DEF Progress

\* A tick makes what was read older by one at most.
LEMMA TickOlder ==
  ASSUME TypeOK, Tick, NEW v \in Value, NEW n \in Int
  PROVE  /\ EditorsWithin(v, n) => EditorsWithin(v, n + 1)'
         /\ HolderWithin(v, n) => HolderWithin(v, n + 1)'
<1>1. ASSUME NEW p \in Pairs PROVE listed[p] \in Nat /\ (listed'[p] = 0 \/ listed'[p] <= listed[p] + 1)
                                   /\ listed'[p] \in Nat
  BY DEF Tick, TypeOK, Older, EditorAge
<1>2. ASSUME NEW w \in Wallets PROVE held[w] \in Nat /\ (held'[w] = 0 \/ held'[w] <= held[w] + 1)
                                     /\ held'[w] \in Nat
  BY DEF Tick, TypeOK, Older, HolderAge
<1>3. ASSUME EditorsWithin(v, n) PROVE EditorsWithin(v, n + 1)'
  <2> SUFFICES ASSUME NEW p \in Pairs, p[1] = v.owner /\ p[2] \in v.editors
               PROVE  listed'[p] <= n + 1
    BY DEF EditorsWithin
  <2>1. listed[p] <= n
    BY <1>3 DEF EditorsWithin
  <2> QED BY <1>1, <2>1
<1>4. ASSUME HolderWithin(v, n) PROVE HolderWithin(v, n + 1)'
  <2> SUFFICES ASSUME v.holder # NoWallet
               PROVE  held'[v.holder] <= n + 1
    BY DEF HolderWithin
  <2>1. held[v.holder] <= n /\ v.holder \in Wallets
    BY <1>4 DEF HolderWithin, Value
  <2> QED BY <1>2, <2>1
<1> QED BY <1>3, <1>4

LEMMA TickKnowledge ==
  ASSUME TypeOK, TypeOK', KnowledgeInv, Tick
  PROVE  KnowledgeInv'
<1>1. UNCHANGED <<minted, holder, owner, editors, accounts, cache, pc, got, outcome>>
  BY DEF Tick, chain
<1>2. ChainInv'
  BY <1>1 DEF KnowledgeInv, ChainInv, Tick, TypeOK
<1>3. CacheInv'
  <2> SUFFICES ASSUME Fresh'
               PROVE  (EditorsWithin(cache, 3 * Timeout + age) /\ HolderWithin(cache, 2 * Timeout + age))'
    BY DEF CacheInv
  <2>1. Fresh /\ age' = age + 1 /\ cache \in Value /\ age \in Int
    BY <1>1 DEF Fresh, Tick, Older, TypeOK
  <2>2. EditorsWithin(cache, 3 * Timeout + age) /\ HolderWithin(cache, 2 * Timeout + age)
    BY <2>1 DEF KnowledgeInv, CacheInv
  <2>3. PICK v \in Value, e \in Int, h \in Int :
          v = cache /\ e = 3 * Timeout + age /\ h = 2 * Timeout + age
    BY <2>1
  <2>4. EditorsWithin(v, e + 1)' /\ HolderWithin(v, h + 1)'
    BY <2>2, <2>3, TickOlder
  <2>5. cache' = v /\ 3 * Timeout + age' = e + 1 /\ 2 * Timeout + age' = h + 1
    BY <1>1, <2>1, <2>3
  <2> QED BY <2>4, <2>5 DEF EditorsWithin, HolderWithin
<1>4. ASSUME NEW t \in Tasks PROVE ReadInv(t)'
  <2>1. got[t] \in Value /\ wait[t] \in Int
    BY DEF TypeOK
  <2>2. pc[t] \in RequestPCs \cup ResponsePCs => wait'[t] = wait[t] + 1
    BY DEF Tick, TypeOK
  <2>3. ReadInv(t)
    BY DEF KnowledgeInv
  <2> QED BY <1>1, <2>1, <2>2, <2>3, TickOlder DEF ReadInv, RequestPCs, ResponsePCs
<1> QED BY <1>2, <1>3, <1>4 DEF KnowledgeInv
LEMMA StepKnowledge == TypeOK /\ TypeOK' /\ KnowledgeInv /\ [Next]_vars => KnowledgeInv'
<1> SUFFICES ASSUME TypeOK, TypeOK', KnowledgeInv, [Next]_vars PROVE KnowledgeInv'
  OBVIOUS
<1>1. CASE UNCHANGED vars
  BY <1>1 DEF vars, chain, lookups, past, KnowledgeInv, ChainInv, CacheInv, ReadInv,
             EditorsWithin, HolderWithin, Fresh
<1> QED BY <1>1, ChainKnowledge, LookupKnowledge, TickKnowledge DEF Next

-----------------------------------------------------------------------------
(* The decision *)

LEMMA FreshAnswers ==
  ASSUME TypeOK, TypeOK', KnowledgeInv, KnowledgeInv', [Next]_vars, NEW t \in Tasks,
         Answers(t), outcome'[t] = "fresh"
  PROVE  LetsInLately(t)'
<1>1. PICK u \in Tasks : Lookup(u) \/ Progress(u) \/ Fail(u)
  BY DEF Answers, Next, vars, lookups, Mint, Transfer, Appoint, Burn, Tick
<1>2. u = t
  BY <1>1 DEF Answers, Lookup, Progress, Fail, Abort, ReadSpace, ReadLargest, ReadAccount,
              Advance, Store, Fallback, Return, Proceed, TypeOK
<1>3. pc \in [Tasks -> {"idle", "fallback", "answered"} \cup RequestPCs \cup ResponsePCs]
      /\ (outcome[t] = "fresh" => pc[t] = "answered")
  BY DEF TypeOK, KnowledgeInv, ReadInv
<1>4. (Lookup(t) /\ Fresh) \/ Store(t)
  BY <1>1, <1>2, <1>3 DEF Answers, Lookup, Progress, Fail, Abort, ReadSpace, ReadLargest,
     ReadAccount, Advance, Fallback, Return, Proceed, TypeOK
<1>5. got'[t] = cache' /\ age' \in 0..TTL /\ cache' # Missing
      /\ UNCHANGED <<held, listed>>
  BY <1>4 DEF Lookup, Store, Fresh, TypeOK, past
<1>6. (EditorsWithin(got[t], EditorAge) /\ HolderWithin(got[t], HolderAge))'
  <2>1. CASE Lookup(t) /\ Fresh
    <3>1. EditorsWithin(cache, 3 * Timeout + age) /\ HolderWithin(cache, 2 * Timeout + age)
          /\ age \in 0..TTL /\ cache' = cache /\ cache \in Value
      BY <2>1 DEF KnowledgeInv, CacheInv, Lookup, TypeOK, Fresh
    <3>2. \A p \in Pairs : p[1] = cache.owner /\ p[2] \in cache.editors => listed'[p] <= EditorAge
      BY <1>5, <3>1 DEF EditorsWithin, EditorAge, TypeOK
    <3>3. cache.holder # NoWallet => held'[cache.holder] <= HolderAge
      BY <1>5, <3>1 DEF HolderWithin, HolderAge, TypeOK, Value
    <3> QED BY <1>5, <3>1, <3>2, <3>3 DEF EditorsWithin, HolderWithin
  <2>2. CASE Store(t)
    <3>1. ReadInv(t) /\ cache' = got[t] /\ got[t] \in Value /\ wait[t] \in 0..Timeout
      BY <2>2 DEF Store, KnowledgeInv, TypeOK
    <3>2. \A p \in Pairs : p[1] = got[t].owner /\ p[2] \in got[t].editors => listed'[p] <= EditorAge
      BY <1>5, <2>2, <3>1 DEF Store, ReadInv, EditorsWithin, EditorAge, TypeOK
    <3>3. got[t].holder # NoWallet => held'[got[t].holder] <= HolderAge
      BY <1>5, <2>2, <3>1 DEF Store, ReadInv, HolderWithin, HolderAge, TypeOK, Value
    <3> QED BY <1>5, <3>1, <3>2, <3>3 DEF EditorsWithin, HolderWithin
  <2> QED BY <1>4, <2>1, <2>2
<1> SUFFICES ASSUME NEW w \in Wallets \ Moderators, (Access(t, w) = "edit")'
             PROVE  EntitledLately(got[t], w)'
  BY DEF LetsInLately
<1>7. CanEdit(got'[t], w)
  BY DEF Access, CanEdit
<1>8. got'[t].holder \in Wallets /\ held'[got'[t].holder] <= HolderAge
  BY <1>6, <1>7 DEF CanEdit, HolderWithin, TypeOK, Value
<1>9. ASSUME w # got'[t].holder PROVE listed'[<<got'[t].holder, w>>] <= EditorAge
  <2>1. got'[t].owner = got'[t].holder /\ w \in got'[t].editors
    BY <1>7, <1>9 DEF CanEdit
  <2>2. <<got'[t].holder, w>> \in Pairs
    BY <1>8, <1>9 DEF Pairs
  <2> QED BY <1>6, <2>1, <2>2 DEF EditorsWithin
<1> QED BY <1>8, <1>9 DEF EntitledLately

\* For any number of overlapping lookups, with failing calls, burns, transfers
\* and closed accounts: a fresh answer lets in only who held the NFT within
\* HolderAge, or was its holder's editor within EditorAge.
THEOREM KnowledgeIsRecent == Spec => EntitledRecently
<1>1. TypeOK /\ TypeOK' /\ KnowledgeInv /\ KnowledgeInv' /\ [Next]_vars
      => [\A t \in Tasks : Answers(t) /\ outcome'[t] = "fresh" => LetsInLately(t)']_vars
  BY FreshAnswers
<1>2. Spec => [](TypeOK /\ KnowledgeInv)
  <2>1. TypeOK /\ KnowledgeInv /\ [Next]_vars => (TypeOK /\ KnowledgeInv)'
    BY StepTypes, StepKnowledge
  <2> QED BY <2>1, InitTypes, InitKnowledge, PTL DEF Spec
<1> QED BY <1>1, <1>2, PTL DEF Spec, EntitledRecently
=============================================================================
