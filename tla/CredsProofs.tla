----------------------------- MODULE CredsProofs -----------------------------
(* The credentials cache for any number of streams, groups, lifetimes and    *)
(* calls of InvalidateAll: locks, validity, and what a fetch may overwrite.  *)
EXTENDS Creds, TLAPS

Fetching(s) == pc[s] \in {"fetchLock", "fetching", "issued"}

\* A call works on an entry of its stream's group, one that is not from the future.
OwnGroup == \A s \in Streams : obj[s][1] = groupID(s) /\ obj[s][2] <= epoch

\* An entry holds no credentials issued before it was created.
StoredSince == \A o \in Objs : cred[o] # NoCred => cred[o].epoch >= o[2]

\* Credentials on their way from the provider are fresh, and of a lifetime it gives.
IssuedFresh ==
    \A s \in Streams : pc[s] = "issued" =>
        /\ held[s] # NoCred
        /\ held[s].life \in Lifetimes
        /\ now <= held[s].issued + ReplyDelay

\* An entry expires before its credentials do.
ExpiresFirst ==
    \A o \in Objs : cred[o] # NoCred =>
        expires[o] <= cred[o].issued + Lifetime(cred[o].life)

\* An entry with credentials bears the hint of its group.
LinkOfGroup ==
    \A o \in Objs, s \in Streams :
        cred[o] # NoCred /\ o[1] = groupID(s) => link[o] = hintFor(s)

\* Who fetches does so for an entry that has run out, and it stays so.
FetchNeeded ==
    \A s \in Streams : Fetching(s) /\ cred[obj[s]] # NoCred => now >= expires[obj[s]]

LockTypes ==
    /\ mu \in [Objs -> Streams \cup {Nobody}]
    /\ fetchMu \in Streams \cup {Nobody}
    /\ pc \in [Streams -> Pcs] /\ obj \in [Streams -> Objs]

CredTypes ==
    /\ now \in 0 .. MaxTime /\ epoch \in 0 .. MaxInvalidations
    /\ cred \in [Objs -> Creds \cup {NoCred}] /\ expires \in [Objs -> Int]
    /\ pc \in [Streams -> Pcs] /\ obj \in [Streams -> Objs]
    /\ held \in [Streams -> Creds \cup {NoCred}]

LinkTypes == link \in [Objs -> {hintFor(s) : s \in Streams} \cup {""}]

EpochInv == OwnGroup /\ StoredSince /\ InvalidatedForGood
ValidInv == IssuedFresh /\ ExpiresFirst
NeedInv == LinkOfGroup /\ FetchNeeded

CacheInv == TypeOK /\ LocksInUse /\ EpochInv /\ ValidInv /\ NeedInv

\* nil is neither a stream nor credentials.
LEMMA Nil == Nobody \notin Streams /\ NoCred \notin Creds
  <1>1. \A c \in Creds : c \in [issued : Nat, life : Int, epoch : Nat]
    BY DEF Creds
  <1> QED BY <1>1, CredsConstants, Zenon

\* The constants that are counted or compared.
LEMMA Numbers ==
    /\ MaxTime \in Nat /\ MaxInvalidations \in Nat /\ ErrorWindow \in Nat
    /\ MaxCacheErrors \in Nat \ {0, 1}
    /\ DefaultLifetime \in Nat \ {0} /\ SafetyMargin \in Nat /\ ReplyDelay \in Nat
    /\ Lifetimes \subseteq Int
  BY CredsConstants, Zenon

\* The types that the arithmetic of Get and HandleAuthError needs.
LEMMA Fields ==
    ASSUME TypeOK
    PROVE  /\ now \in 0 .. MaxTime /\ epoch \in 0 .. MaxInvalidations
           /\ \A s \in Streams : obj[s] \in Objs /\ stamp[s] \in 0 .. MaxTime
           /\ \A o \in Objs : /\ errorCount[o] \in 0 .. (MaxCacheErrors - 1)
                             /\ lastErrorTime[o] \in Int
  BY Zenon DEF TypeOK

\* getEntry finds or creates an entry of the stream's group, in the current map.
LEMMA EntryIsObj ==
    ASSUME epoch \in 0 .. MaxInvalidations, NEW s \in Streams
    PROVE  EntryOf(s) \in Objs /\ EntryOf(s)[1] = groupID(s) /\ EntryOf(s)[2] = epoch
  BY DEF EntryOf, Objs, Groups

\* An entry's name says how many InvalidateAll calls came before it.
LEMMA ObjEpoch == \A o \in Objs : o[2] \in Int
  BY DEF Objs

\* The streams of a group ask with one hint (Hub.hintFor).
LEMMA HintOfGroup ==
    \A s, t \in Streams : groupID(s) = groupID(t) => hintFor(s) = hintFor(t)
  BY DEF hintFor

\* The margin leaves something of the lifetime, and covers the time an answer takes.
LEMMA MarginFits ==
    ASSUME NEW x \in Lifetimes
    PROVE  /\ Lifetime(x) \in Nat /\ Margin(Lifetime(x)) \in Nat
           /\ Margin(Lifetime(x)) < Lifetime(x)
           /\ ReplyDelay <= Margin(Lifetime(x))
  <1>1. x \in Int /\ Lifetime(x) \in Nat \ {0}
    BY Numbers DEF Lifetime
  <1>2. ReplyDelay <= SafetyMargin /\ 2 * ReplyDelay <= Lifetime(x)
    BY ReplyInTime
  <1>3. SUFFICES ASSUME NEW L \in Nat \ {0}, 2 * ReplyDelay <= L
                 PROVE  Margin(L) \in Nat /\ Margin(L) < L /\ ReplyDelay <= Margin(L)
    BY <1>1, <1>2
  <1> QED BY <1>2, <1>3, Numbers DEF Margin

\* Every operation of the cache keeps the types of its fields.
LEMMA TypesKept == TypeOK /\ IssuedFresh /\ [Next]_vars => TypeOK'
  <1> SUFFICES ASSUME TypeOK, IssuedFresh, [Next]_vars PROVE TypeOK'
    OBVIOUS
  <1>1. ASSUME NEW s \in Streams, GetBegin(s) PROVE TypeOK'
    BY <1>1, EntryIsObj, Zenon DEF TypeOK, Pcs, GetBegin, lockVars, cacheVars, errorVars
  <1>2. ASSUME NEW s \in Streams, GetHit(s) PROVE TypeOK'
    BY <1>2, Zenon DEF TypeOK, Pcs, GetHit, lockVars, cacheVars, errorVars
  <1>3. ASSUME NEW s \in Streams, GetCancelled(s) PROVE TypeOK'
    BY <1>3, Zenon DEF TypeOK, Pcs, GetCancelled, lockVars, cacheVars, errorVars
  <1>4. ASSUME NEW s \in Streams, GetMiss(s) PROVE TypeOK'
    BY <1>4, Zenon DEF TypeOK, Pcs, GetMiss, cacheVars, errorVars
  <1>5. ASSUME NEW s \in Streams, FetchBegin(s) PROVE TypeOK'
    BY <1>5, Zenon DEF TypeOK, Pcs, FetchBegin, cacheVars, errorVars
  <1>6. ASSUME NEW s \in Streams, NEW x \in Lifetimes, FetchIssue(s, x) PROVE TypeOK'
    BY <1>6, Numbers, Zenon DEF TypeOK, Pcs, FetchIssue, lockVars, cacheVars, errorVars, Creds
  <1>7. ASSUME NEW s \in Streams, FetchFails(s) PROVE TypeOK'
    BY <1>7, Zenon DEF TypeOK, Pcs, FetchFails, Unlock, cacheVars, errorVars
  <1>8. ASSUME NEW s \in Streams, FetchReturns(s) PROVE TypeOK'
    <2>1. held[s] \in Creds
      BY <1>8, Zenon DEF FetchReturns, IssuedFresh, TypeOK
    <2>2. Lifetime(held[s].life) - Margin(Lifetime(held[s].life)) \in Int
      BY <2>1, Numbers DEF Creds, Lifetime, Margin
    <2>3. now + (Lifetime(held[s].life) - Margin(Lifetime(held[s].life))) \in Int
      BY <2>2, Fields, Numbers
    <2> QED
      BY <1>8, <2>1, <2>3, Zenon DEF TypeOK, Pcs, FetchReturns, Unlock, errorVars
  <1>9. ASSUME NEW s \in Streams, AuthErrorBegin(s) PROVE TypeOK'
    BY <1>9, EntryIsObj, Zenon DEF TypeOK, Pcs, AuthErrorBegin, lockVars, cacheVars, errorVars
  <1>10. ASSUME NEW s \in Streams, AuthErrorCount(s) PROVE TypeOK'
    <2>1. obj[s] \in Objs /\ Past \in Int /\ stamp[s] \in Int /\ 0 \in 0 .. MaxTime
      BY Fields, Numbers DEF Past
    <2>2. Count(s) \in Nat /\ 0 \in 0 .. (MaxCacheErrors - 1)
      BY <2>1, Fields, Numbers DEF Count
    <2>3. CASE Threshold(s)
      <3>1. /\ cred' = [cred EXCEPT ![obj[s]] = NoCred]
            /\ link' = [link EXCEPT ![obj[s]] = ""]
            /\ expires' = [expires EXCEPT ![obj[s]] = Past]
            /\ errorCount' = [errorCount EXCEPT ![obj[s]] = 0]
            /\ lastErrorTime' = [lastErrorTime EXCEPT ![obj[s]] = Past]
            /\ pc' = [pc EXCEPT ![s] = "idle"] /\ stamp' = [stamp EXCEPT ![s] = 0]
            /\ UNCHANGED <<now, epoch, mu, fetchMu, obj, held>>
        BY <1>10, <2>3, Zenon DEF AuthErrorCount, lockVars
      <3> QED BY <2>1, <2>2, <3>1, Zenon DEF TypeOK, Pcs
    <2>4. CASE ~Threshold(s)
      <3>1. Count(s) \in 0 .. (MaxCacheErrors - 1)
        BY <2>2, <2>4, Numbers DEF Threshold
      <3> QED
        BY <1>10, <2>1, <2>4, <3>1, Zenon DEF TypeOK, Pcs, AuthErrorCount, lockVars, cacheVars
    <2> QED BY <2>3, <2>4
  <1>11. CASE InvalidateAll
    <2>1. epoch' \in 0 .. MaxInvalidations
      BY <1>11, Fields, Numbers DEF InvalidateAll
    <2> QED BY <1>11, <2>1, Zenon DEF TypeOK, InvalidateAll, lockVars, cacheVars, errorVars, callVars
  <1>12. CASE Tick
    <2>1. now' \in 0 .. MaxTime
      BY <1>12, Fields, Numbers DEF Tick
    <2> QED BY <1>12, <2>1, Zenon DEF TypeOK, Tick, lockVars, cacheVars, errorVars, callVars
  <1>13. CASE UNCHANGED vars
    BY <1>13, Zenon DEF TypeOK, Pcs, vars, lockVars, cacheVars, errorVars, callVars
  <1> QED
    BY <1>1, <1>2, <1>3, <1>4, <1>5, <1>6, <1>7, <1>8, <1>9, <1>10, <1>11, <1>12, <1>13
    DEF Next, GetStep, AuthErrorStep

\* Get locks the entry, then fetchMu, and releases both on every return (cache.go:148-164).
LEMMA LocksKept == LockTypes /\ LocksInUse /\ [Next]_vars => LocksInUse'
  <1> SUFFICES ASSUME LockTypes /\ LocksInUse, [Next]_vars PROVE LocksInUse'
    OBVIOUS
  <1>1. ASSUME NEW s \in Streams, GetBegin(s) PROVE LocksInUse'
    BY <1>1, Nil DEF LockTypes, LocksInUse, GetBegin, lockVars, cacheVars, errorVars
  <1>2. ASSUME NEW s \in Streams, GetHit(s) PROVE LocksInUse'
    BY <1>2, Nil DEF LockTypes, LocksInUse, GetHit, lockVars, cacheVars, errorVars
  <1>3. ASSUME NEW s \in Streams, GetCancelled(s) PROVE LocksInUse'
    BY <1>3, Nil DEF LockTypes, LocksInUse, GetCancelled, lockVars, cacheVars, errorVars
  <1>4. ASSUME NEW s \in Streams, GetMiss(s) PROVE LocksInUse'
    BY <1>4, Nil DEF LockTypes, LocksInUse, GetMiss, cacheVars, errorVars
  <1>5. ASSUME NEW s \in Streams, FetchBegin(s) PROVE LocksInUse'
    BY <1>5, Nil DEF LockTypes, LocksInUse, FetchBegin, cacheVars, errorVars
  <1>6. ASSUME NEW s \in Streams, NEW x \in Lifetimes, FetchIssue(s, x) PROVE LocksInUse'
    BY <1>6, Nil DEF LockTypes, LocksInUse, FetchIssue, lockVars, cacheVars, errorVars
  <1>7. ASSUME NEW s \in Streams, FetchFails(s) PROVE LocksInUse'
    BY <1>7, Nil DEF LockTypes, LocksInUse, FetchFails, Unlock, cacheVars, errorVars
  <1>8. ASSUME NEW s \in Streams, FetchReturns(s) PROVE LocksInUse'
    BY <1>8, Nil DEF LockTypes, LocksInUse, FetchReturns, Unlock, errorVars
  <1>9. ASSUME NEW s \in Streams, AuthErrorBegin(s) PROVE LocksInUse'
    BY <1>9, Nil DEF LockTypes, LocksInUse, AuthErrorBegin, lockVars, cacheVars, errorVars
  <1>10. ASSUME NEW s \in Streams, AuthErrorCount(s) PROVE LocksInUse'
    <2>1. pc[s] = "errLock" /\ pc' = [pc EXCEPT ![s] = "idle"] /\ UNCHANGED <<mu, fetchMu, obj>>
      BY <1>10, Zenon DEF AuthErrorCount, lockVars
    <2> QED BY <2>1, Nil DEF LockTypes, LocksInUse
  <1>11. CASE InvalidateAll
    BY <1>11, Nil
    DEF LockTypes, LocksInUse, InvalidateAll, lockVars, cacheVars, errorVars, callVars
  <1>12. CASE Tick
    BY <1>12, Nil DEF LockTypes, LocksInUse, Tick, lockVars, cacheVars, errorVars, callVars
  <1>13. CASE UNCHANGED vars
    BY <1>13, Nil DEF LockTypes, LocksInUse, vars, lockVars, cacheVars, errorVars, callVars
  <1> QED
    BY <1>1, <1>2, <1>3, <1>4, <1>5, <1>6, <1>7, <1>8, <1>9, <1>10, <1>11, <1>12, <1>13
    DEF Next, GetStep, AuthErrorStep

\* What a call holds is no older than the entry it works on, and what an entry holds no
\* older than the entry (getEntry, cache.go:115-134; InvalidateAll, 224-228).
LEMMA EpochsKept ==
    CredTypes /\ EpochInv /\ [Next]_vars => EpochInv'
  <1> SUFFICES ASSUME CredTypes, EpochInv, [Next]_vars
               PROVE  EpochInv'
    OBVIOUS
  <1> USE DEF EpochInv, OwnGroup, StoredSince, InvalidatedForGood
  <1>1. ASSUME NEW s \in Streams, GetBegin(s) PROVE EpochInv'
    BY <1>1, Nil, EntryIsObj DEF CredTypes, GetBegin, cacheVars
  <1>2. ASSUME NEW s \in Streams, GetHit(s) PROVE EpochInv'
    BY <1>2, Nil DEF CredTypes, GetHit, cacheVars
  <1>3. ASSUME NEW s \in Streams, GetCancelled(s) PROVE EpochInv'
    BY <1>3, Nil DEF CredTypes, GetCancelled, cacheVars
  <1>4. ASSUME NEW s \in Streams, GetMiss(s) PROVE EpochInv'
    BY <1>4, Nil DEF CredTypes, GetMiss, cacheVars
  <1>5. ASSUME NEW s \in Streams, FetchBegin(s) PROVE EpochInv'
    BY <1>5, Nil DEF CredTypes, FetchBegin, cacheVars
  <1>6. ASSUME NEW s \in Streams, NEW x \in Lifetimes, FetchIssue(s, x)
         PROVE  EpochInv'
    BY <1>6, Nil DEF CredTypes, FetchIssue, cacheVars, Creds
  <1>7. ASSUME NEW s \in Streams, FetchFails(s) PROVE EpochInv'
    BY <1>7, Nil DEF CredTypes, FetchFails, Unlock, cacheVars
  <1>8. ASSUME NEW s \in Streams, FetchReturns(s) PROVE EpochInv'
    BY <1>8, Nil DEF CredTypes, FetchReturns, Unlock
  <1>9. ASSUME NEW s \in Streams, AuthErrorBegin(s) PROVE EpochInv'
    BY <1>9, Nil, EntryIsObj DEF CredTypes, AuthErrorBegin, cacheVars
  <1>10. ASSUME NEW s \in Streams, AuthErrorCount(s) PROVE EpochInv'
    BY <1>10, Nil, Zenon DEF CredTypes, AuthErrorCount, cacheVars
  <1>11. CASE InvalidateAll
    BY <1>11, Nil, ObjEpoch DEF CredTypes, InvalidateAll, cacheVars, callVars
  <1>12. CASE Tick
    BY <1>12, Nil DEF CredTypes, Tick, cacheVars, callVars
  <1>13. CASE UNCHANGED vars
    BY <1>13, Nil DEF CredTypes, vars, cacheVars, callVars
  <1> QED
    BY <1>1, <1>2, <1>3, <1>4, <1>5, <1>6, <1>7, <1>8, <1>9, <1>10, <1>11, <1>12, <1>13
    DEF Next, GetStep, AuthErrorStep

\* The safety margin covers the time between issue and storage (cache.go:171-182).
LEMMA ValidityKept ==
    CredTypes /\ ValidInv /\ [Next]_vars => ValidInv'
  <1> SUFFICES ASSUME CredTypes, ValidInv, [Next]_vars
               PROVE  ValidInv'
    OBVIOUS
  <1> USE DEF ValidInv, IssuedFresh, ExpiresFirst
  <1>1. ASSUME NEW s \in Streams, GetBegin(s) PROVE ValidInv'
    BY <1>1, Nil, Numbers DEF CredTypes, GetBegin, cacheVars
  <1>2. ASSUME NEW s \in Streams, GetHit(s) PROVE ValidInv'
    BY <1>2, Nil, Numbers DEF CredTypes, GetHit, cacheVars
  <1>3. ASSUME NEW s \in Streams, GetCancelled(s) PROVE ValidInv'
    BY <1>3, Nil, Numbers DEF CredTypes, GetCancelled, cacheVars
  <1>4. ASSUME NEW s \in Streams, GetMiss(s) PROVE ValidInv'
    BY <1>4, Nil, Numbers DEF CredTypes, GetMiss, cacheVars
  <1>5. ASSUME NEW s \in Streams, FetchBegin(s) PROVE ValidInv'
    BY <1>5, Nil, Numbers DEF CredTypes, FetchBegin, cacheVars
  <1>6. ASSUME NEW s \in Streams, NEW x \in Lifetimes, FetchIssue(s, x)
         PROVE  ValidInv'
    <2> DEFINE c == [issued |-> now, life |-> x, epoch |-> epoch]
    <2>1. c \in Creds /\ now <= now + ReplyDelay
      BY Numbers DEF CredTypes, Creds
    <2>2. c # NoCred /\ c.life \in Lifetimes /\ now <= c.issued + ReplyDelay
      BY <2>1, Nil
    <2>3. held' = [held EXCEPT ![s] = c] /\ pc' = [pc EXCEPT ![s] = "issued"]
      BY <1>6 DEF FetchIssue
    <2>4. UNCHANGED <<now, cred, expires>>
      BY <1>6 DEF FetchIssue, cacheVars
    <2> HIDE DEF c
    <2>5. IssuedFresh'
      BY <2>2, <2>3, <2>4 DEF CredTypes, IssuedFresh
    <2> QED BY <2>4, <2>5 DEF ExpiresFirst
  <1>7. ASSUME NEW s \in Streams, FetchFails(s) PROVE ValidInv'
    BY <1>7, Nil, Numbers DEF CredTypes, FetchFails, Unlock, cacheVars
  <1>8. ASSUME NEW s \in Streams, FetchReturns(s) PROVE ValidInv'
    <2> DEFINE life == Lifetime(held[s].life)
    <2>1. /\ pc[s] = "issued" /\ pc' = [pc EXCEPT ![s] = "idle"]
          /\ cred' = [cred EXCEPT ![obj[s]] = held[s]]
          /\ expires' = [expires EXCEPT ![obj[s]] = now + (life - Margin(life))]
          /\ UNCHANGED <<now, held>>
      BY <1>8 DEF FetchReturns, Unlock
    <2>2. /\ held[s] # NoCred /\ held[s].life \in Lifetimes
          /\ now <= held[s].issued + ReplyDelay
      BY <2>1 DEF IssuedFresh
    <2>3. now \in Int /\ held[s].issued \in Int /\ ReplyDelay \in Int
      BY <2>2, Numbers DEF CredTypes, Creds
    <2>4. life \in Int /\ Margin(life) \in Int /\ ReplyDelay <= Margin(life)
      BY <2>2, MarginFits
    <2> HIDE DEF life
    <2>5. now + (life - Margin(life)) <= held[s].issued + life
      BY <2>2, <2>3, <2>4
    <2>6. IssuedFresh'
      BY <2>1 DEF IssuedFresh, CredTypes
    <2>7. ExpiresFirst'
      BY <2>1, <2>5 DEF ExpiresFirst, CredTypes, life
    <2> QED BY <2>6, <2>7
  <1>9. ASSUME NEW s \in Streams, AuthErrorBegin(s) PROVE ValidInv'
    BY <1>9, Nil, Numbers DEF CredTypes, AuthErrorBegin, cacheVars
  <1>10. ASSUME NEW s \in Streams, AuthErrorCount(s) PROVE ValidInv'
    BY <1>10, Nil, Numbers, Zenon DEF CredTypes, AuthErrorCount, cacheVars
  <1>11. CASE InvalidateAll
    BY <1>11, Nil, Numbers DEF CredTypes, InvalidateAll, cacheVars, callVars
  <1>12. CASE Tick
    <2>1. UNCHANGED <<cred, expires, pc, held>> /\ now' = now + 1
      BY <1>12 DEF Tick, cacheVars, callVars
    <2>2. ASSUME NEW s \in Streams, pc[s] = "issued"
          PROVE  now + 1 <= held[s].issued + ReplyDelay
      <3>1. now \in Int /\ held[s].issued \in Int /\ ReplyDelay \in Int
        BY <2>2, Numbers DEF CredTypes, Creds, IssuedFresh
      <3> QED BY <1>12, <2>2, <3>1 DEF Tick
    <2> QED BY <2>1, <2>2 DEF IssuedFresh, ExpiresFirst
  <1>13. CASE UNCHANGED vars
    BY <1>13, Nil, Numbers DEF CredTypes, vars, cacheVars, callVars
  <1> QED
    BY <1>1, <1>2, <1>3, <1>4, <1>5, <1>6, <1>7, <1>8, <1>9, <1>10, <1>11, <1>12, <1>13
    DEF Next, GetStep, AuthErrorStep

\* Nobody else stores in an entry that is being fetched (e.mu, cache.go:148-149).
LEMMA NeedKept ==
    CredTypes /\ LinkTypes /\ LocksInUse /\ OwnGroup /\ NeedInv /\ [Next]_vars => NeedInv'
  <1> SUFFICES ASSUME CredTypes, LinkTypes, LocksInUse, OwnGroup, NeedInv, [Next]_vars
               PROVE  NeedInv'
    OBVIOUS
  <1> USE DEF NeedInv
  <1>1. ASSUME NEW s \in Streams, GetBegin(s) PROVE NeedInv'
    BY <1>1, Nil, EntryIsObj
    DEF CredTypes, LinkOfGroup, FetchNeeded, Fetching, GetBegin, cacheVars
  <1>2. ASSUME NEW s \in Streams, GetHit(s) PROVE NeedInv'
    BY <1>2, Nil DEF CredTypes, LinkOfGroup, FetchNeeded, Fetching, GetHit, cacheVars
  <1>3. ASSUME NEW s \in Streams, GetCancelled(s) PROVE NeedInv'
    BY <1>3, Nil DEF CredTypes, LinkOfGroup, FetchNeeded, Fetching, GetCancelled, cacheVars
  <1>4. ASSUME NEW s \in Streams, GetMiss(s) PROVE NeedInv'
    <2>1. /\ pc' = [pc EXCEPT ![s] = "fetchLock"] /\ ~Cached(obj[s], hintFor(s))
          /\ UNCHANGED <<now, cred, link, expires, obj>>
      BY <1>4 DEF GetMiss, cacheVars
    <2>2. cred[obj[s]] # NoCred => link[obj[s]] = hintFor(s)
      BY DEF LinkOfGroup, OwnGroup, CredTypes
    <2>3. now \in Int /\ expires[obj[s]] \in Int
      BY Numbers DEF CredTypes
    <2>4. cred[obj[s]] # NoCred => now >= expires[obj[s]]
      BY <2>1, <2>2, <2>3 DEF Cached
    <2>5. FetchNeeded'
      BY <2>1, <2>4 DEF FetchNeeded, Fetching, CredTypes
    <2> QED BY <2>1, <2>5 DEF LinkOfGroup
  <1>5. ASSUME NEW s \in Streams, FetchBegin(s) PROVE NeedInv'
    BY <1>5, Nil DEF CredTypes, LinkOfGroup, FetchNeeded, Fetching, FetchBegin, cacheVars
  <1>6. ASSUME NEW s \in Streams, NEW x \in Lifetimes, FetchIssue(s, x)
         PROVE  NeedInv'
    BY <1>6, Nil DEF CredTypes, LinkOfGroup, FetchNeeded, Fetching, FetchIssue, cacheVars
  <1>7. ASSUME NEW s \in Streams, FetchFails(s) PROVE NeedInv'
    BY <1>7, Nil
    DEF CredTypes, LinkOfGroup, FetchNeeded, Fetching, FetchFails, Unlock, cacheVars
  <1>8. ASSUME NEW s \in Streams, FetchReturns(s) PROVE NeedInv'
    <2>1. /\ pc[s] = "issued" /\ pc' = [pc EXCEPT ![s] = "idle"]
          /\ \A o \in Objs : o # obj[s] =>
                cred'[o] = cred[o] /\ link'[o] = link[o] /\ expires'[o] = expires[o]
          /\ UNCHANGED <<now, obj>>
      BY <1>8, Zenon DEF FetchReturns, Unlock, CredTypes, LinkTypes
    <2>2. link'[obj[s]] = hintFor(s) /\ obj[s] \in Objs
      BY <1>8, Zenon DEF FetchReturns, CredTypes, LinkTypes
    <2>3. \A t \in Streams : Fetching(t)' => t # s /\ Fetching(t)
      BY <2>1 DEF Fetching, CredTypes
    <2>4. \A t \in Streams : t # s /\ Fetching(t) => obj[t] # obj[s] /\ obj[t] \in Objs
      BY <2>1 DEF LocksInUse, Fetching, CredTypes
    <2>5. FetchNeeded'
      BY <2>1, <2>3, <2>4 DEF FetchNeeded
    <2>6. LinkOfGroup'
      BY <2>1, <2>2, HintOfGroup DEF LinkOfGroup, OwnGroup
    <2> QED BY <2>5, <2>6
  <1>9. ASSUME NEW s \in Streams, AuthErrorBegin(s) PROVE NeedInv'
    BY <1>9, Nil, EntryIsObj
    DEF CredTypes, LinkOfGroup, FetchNeeded, Fetching, AuthErrorBegin, cacheVars
  <1>10. ASSUME NEW s \in Streams, AuthErrorCount(s) PROVE NeedInv'
    <2>1. pc' = [pc EXCEPT ![s] = "idle"] /\ UNCHANGED <<now, obj>>
      BY <1>10, Zenon DEF AuthErrorCount
    <2>2. \A o \in Objs :
             cred'[o] = NoCred
             \/ (cred'[o] = cred[o] /\ link'[o] = link[o] /\ expires'[o] = expires[o])
      BY <1>10, Zenon DEF AuthErrorCount, cacheVars, CredTypes, LinkTypes
    <2>3. FetchNeeded'
      BY <2>1, <2>2 DEF FetchNeeded, Fetching, CredTypes
    <2>4. LinkOfGroup'
      BY <2>2 DEF LinkOfGroup
    <2> QED BY <2>3, <2>4
  <1>11. CASE InvalidateAll
    BY <1>11, Nil
    DEF CredTypes, LinkOfGroup, FetchNeeded, Fetching, InvalidateAll, cacheVars, callVars
  <1>12. CASE Tick
    BY <1>12, Nil DEF CredTypes, LinkOfGroup, FetchNeeded, Fetching, Tick, cacheVars, callVars
  <1>13. CASE UNCHANGED vars
    BY <1>13, Nil DEF CredTypes, LinkOfGroup, FetchNeeded, Fetching, vars, cacheVars, callVars
  <1> QED
    BY <1>1, <1>2, <1>3, <1>4, <1>5, <1>6, <1>7, <1>8, <1>9, <1>10, <1>11, <1>12, <1>13
    DEF Next, GetStep, AuthErrorStep

\* The invariant holds of a new cache (NewCache, cache.go:97-109).
LEMMA CacheInit == Init => CacheInv
  <1> SUFFICES ASSUME Init PROVE CacheInv
    OBVIOUS
  <1>1. \A s \in Streams : <<groupID(s), 0>> \in Objs
    BY Numbers DEF Objs, Groups
  <1>2. Past \in Int /\ 0 \in 0 .. MaxTime /\ 0 \in 0 .. MaxInvalidations
        /\ 0 \in 0 .. (MaxCacheErrors - 1)
    BY Numbers DEF Past
  <1>3. TypeOK
    BY <1>1, <1>2, Zenon DEF Init, TypeOK, Pcs
  <1>4. LocksInUse
    BY Nil, Zenon DEF Init, LocksInUse
  <1>5. EpochInv
    <2>1. epoch = 0 /\ \A s \in Streams : obj[s] = <<groupID(s), 0>>
      BY Zenon DEF Init
    <2>2. OwnGroup
      BY <2>1 DEF OwnGroup
    <2>3. StoredSince /\ InvalidatedForGood
      BY Zenon DEF Init, StoredSince, InvalidatedForGood
    <2> QED BY <2>2, <2>3 DEF EpochInv
  <1>6. ValidInv /\ NeedInv
    BY <1>1, Zenon DEF Init, ValidInv, IssuedFresh, ExpiresFirst, NeedInv, LinkOfGroup, FetchNeeded, Fetching
  <1> QED BY <1>3, <1>4, <1>5, <1>6 DEF CacheInv

\* Every step of the streams, of InvalidateAll and of the clock keeps the invariant.
LEMMA CacheNext == CacheInv /\ [Next]_vars => CacheInv'
  <1> SUFFICES ASSUME CacheInv, [Next]_vars PROVE CacheInv'
    OBVIOUS
  <1>1. LockTypes /\ CredTypes /\ LinkTypes
    BY Zenon DEF CacheInv, TypeOK, LockTypes, CredTypes, LinkTypes
  <1>2. TypeOK'
    BY TypesKept DEF CacheInv, ValidInv
  <1>3. LocksInUse'
    BY <1>1, LocksKept DEF CacheInv
  <1>4. EpochInv'
    BY <1>1, EpochsKept DEF CacheInv
  <1>5. ValidInv'
    BY <1>1, ValidityKept DEF CacheInv
  <1>6. NeedInv'
    BY <1>1, NeedKept DEF CacheInv, EpochInv
  <1> QED BY <1>2, <1>3, <1>4, <1>5, <1>6 DEF CacheInv

\* The inductive invariant of the cache (Get, HandleAuthError, InvalidateAll;
\* cache.go:115-228).
THEOREM CacheInvariance == Spec => []CacheInv
  BY CacheInit, CacheNext, PTL DEF Spec

\* Locks are held exactly by the calls that will release them, and fetches take turns
\* (cache.go:148-164).
THEOREM LocksCorrect == Spec => []LocksInUse
  <1>1. CacheInv => LocksInUse
    BY DEF CacheInv
  <1> QED BY <1>1, CacheInvariance, PTL

\* Credentials the cache would hand out are valid at the provider (cache.go:151-154,
\* 171-182), for every lifetime the provider gives.
THEOREM ServedValid == Spec => []ServedWhileValid
  <1>1. ASSUME CacheInv PROVE ServedWhileValid
    <2> SUFFICES ASSUME NEW o \in Objs, NEW s \in Streams, cred[o] # NoCred,
                        Cached(o, hintFor(s))
                 PROVE  now < cred[o].issued + Lifetime(cred[o].life)
      BY DEF ServedWhileValid
    <2>1. now < expires[o] /\ expires[o] <= cred[o].issued + Lifetime(cred[o].life)
      BY <1>1 DEF Cached, CacheInv, ValidInv, ExpiresFirst
    <2>2. CredTypes
      BY <1>1, Zenon DEF CacheInv, TypeOK, CredTypes
    <2>3. now \in Int /\ expires[o] \in Int /\ cred[o] \in Creds
      BY <2>2, Numbers DEF CredTypes
    <2>4. cred[o].issued \in Int /\ Lifetime(cred[o].life) \in Int
      BY <2>3, Numbers DEF Creds, Lifetime
    <2> QED BY <2>1, <2>3, <2>4
  <1> QED BY <1>1, CacheInvariance, PTL

\* No Get called after InvalidateAll returns credentials issued before it
\* (cache.go:224-228).
THEOREM InvalidationHolds == Spec => []InvalidatedForGood
  <1>1. CacheInv => InvalidatedForGood
    BY DEF CacheInv, EpochInv
  <1> QED BY <1>1, CacheInvariance, PTL

\* Credentials come into an entry only when its fetch returns, and leave it only when
\* the threshold is reached.
LEMMA WhoStores ==
    ASSUME CacheInv, [Next]_vars, NEW o \in Objs, cred'[o] # cred[o]
    PROVE  \E s \in Streams : obj[s] = o /\
              ((FetchReturns(s) /\ cred'[o] # NoCred)
               \/ (AuthErrorCount(s) /\ Threshold(s) /\ cred'[o] = NoCred))
  <1>1. CredTypes /\ ValidInv
    BY Zenon DEF CacheInv, TypeOK, CredTypes
  <1>2. ASSUME NEW s \in Streams, FetchReturns(s)
        PROVE  obj[s] = o /\ cred'[o] # NoCred
    BY <1>1, <1>2 DEF FetchReturns, CredTypes, ValidInv, IssuedFresh
  <1>3. ASSUME NEW s \in Streams, AuthErrorCount(s)
        PROVE  obj[s] = o /\ Threshold(s) /\ cred'[o] = NoCred
    BY <1>1, <1>3, Zenon DEF AuthErrorCount, cacheVars, CredTypes
  <1>4. (\E s \in Streams : FetchReturns(s)) \/ (\E s \in Streams : AuthErrorCount(s))
    BY DEF Next, GetStep, AuthErrorStep, GetBegin, GetHit, GetCancelled, GetMiss, FetchBegin,
           FetchIssue, FetchFails, AuthErrorBegin, InvalidateAll, Tick, vars, cacheVars
  <1> QED BY <1>2, <1>3, <1>4

\* What is stored can be used at once, however short its lifetime (cache.go:175-182).
THEOREM StoredUsable == Spec => StoredIsUsable
  <1>1. ASSUME CacheInv, [Next]_vars, NEW o \in Objs, cred'[o] # NoCred, cred'[o] # cred[o]
        PROVE  now < expires'[o]
    <2>1. PICK s \in Streams : obj[s] = o /\ FetchReturns(s)
      BY <1>1, WhoStores
    <2>2. CredTypes /\ IssuedFresh
      BY <1>1, Zenon DEF CacheInv, TypeOK, CredTypes, ValidInv
    <2> DEFINE life == Lifetime(held[s].life)
    <2>3. expires'[o] = now + (life - Margin(life)) /\ held[s].life \in Lifetimes
      BY <2>1, <2>2 DEF FetchReturns, CredTypes, IssuedFresh
    <2>4. life \in Int /\ Margin(life) \in Int /\ Margin(life) < life
      BY <2>3, MarginFits
    <2>5. now \in Int
      BY <2>2, Numbers DEF CredTypes
    <2> HIDE DEF life
    <2> QED BY <2>3, <2>4, <2>5
  <1>2. CacheInv /\ [Next]_vars =>
          [\A o \in Objs : cred'[o] # NoCred /\ cred'[o] # cred[o] => now < expires'[o]]_vars
    BY <1>1
  <1> QED BY <1>2, CacheInvariance, PTL DEF Spec, StoredIsUsable

\* Usable credentials are never overwritten: no fetch was unnecessary (cache.go:148-184).
THEOREM FetchesNeeded == Spec => NoWastedFetch
  <1>1. ASSUME CacheInv, [Next]_vars, NEW o \in Objs, cred[o] # NoCred,
               cred'[o] # cred[o], cred'[o] # NoCred
        PROVE  now >= expires[o]
    <2>1. PICK s \in Streams : obj[s] = o /\ FetchReturns(s)
      BY <1>1, WhoStores
    <2> QED
      BY <1>1, <2>1 DEF FetchReturns, CacheInv, NeedInv, FetchNeeded, Fetching
  <1>2. CacheInv /\ [Next]_vars =>
          [\A o \in Objs : cred[o] # NoCred /\ cred'[o] # cred[o] /\ cred'[o] # NoCred =>
              now >= expires[o]]_vars
    BY <1>1
  <1> QED BY <1>2, CacheInvariance, PTL DEF Spec, NoWastedFetch

\* Credentials are dropped only when MaxCacheErrors - 1 errors are on record and the
\* window has not put them out of account (cache.go:192-221).
THEOREM DropsAtThreshold == Spec => DroppedOnThreshold
  <1>1. ASSUME CacheInv, [Next]_vars, NEW o \in Objs, cred[o] # NoCred, cred'[o] = NoCred
        PROVE  errorCount[o] = MaxCacheErrors - 1
               /\ \E s \in Streams :
                     pc[s] = "errLock" /\ stamp[s] - lastErrorTime[o] <= ErrorWindow
    <2>1. PICK s \in Streams : obj[s] = o /\ AuthErrorCount(s) /\ Threshold(s)
      BY <1>1, WhoStores
    <2>2. pc[s] = "errLock"
      BY <2>1, Zenon DEF AuthErrorCount
    <2>3. /\ errorCount[o] \in 0 .. (MaxCacheErrors - 1)
          /\ lastErrorTime[o] \in Int /\ stamp[s] \in 0 .. MaxTime
      BY <1>1, Fields DEF CacheInv
    <2>4. /\ errorCount[o] = MaxCacheErrors - 1
          /\ stamp[s] - lastErrorTime[o] <= ErrorWindow
      BY <2>1, <2>3, Numbers DEF Threshold, Count
    <2> QED BY <2>2, <2>4
  <1>2. CacheInv /\ [Next]_vars =>
          [\A o \in Objs : cred[o] # NoCred /\ cred'[o] = NoCred =>
              errorCount[o] = MaxCacheErrors - 1
              /\ \E s \in Streams :
                    pc[s] = "errLock" /\ stamp[s] - lastErrorTime[o] <= ErrorWindow]_vars
    BY <1>1
  <1> QED BY <1>2, CacheInvariance, PTL DEF Spec, DroppedOnThreshold
=============================================================================
