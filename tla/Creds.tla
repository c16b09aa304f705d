------------------------------- MODULE Creds -------------------------------
(***************************************************************************)
(* internal/creds: the credentials cache that the streams of a Hub share.  *)
(* A stream asks for credentials (Get), uses them, and on an               *)
(* authentication failure reports it (HandleAuthError) before it asks      *)
(* again.  The mutex of an entry is held over the provider's Fetch, which  *)
(* can take long, and fetchMu makes fetches take turns.                    *)
(*                                                                         *)
(* Time is discrete.  An entry of the map is named by its group and by the *)
(* number of InvalidateAll calls before its creation: getEntry creates     *)
(* entries on demand, so an absent one and a blank one are the same.       *)
(***************************************************************************)
EXTENDS Integers, Sequences

CONSTANTS
    N,                \* number of streams; their ids are 0 .. N - 1
    StreamsPerCred,   \* streams per credential group
    Hints,            \* HubConfig.Hints
    Lifetimes,        \* values of Credentials.ExpiresIn
    DefaultLifetime, SafetyMargin, MaxCacheErrors, ErrorWindow,
    ReplyDelay,       \* time from the issue of credentials to their storage
    MaxTime,          \* bound on the clock
    MaxInvalidations, \* bound on InvalidateAll calls
    Nobody, NoCred    \* nil

Streams == 0 .. N - 1

\* Cache.groupID
groupID(s) == s \div StreamsPerCred

\* Hub.hintFor; "" when no hints are configured.
hintFor(s) == IF Hints = <<>> THEN "" ELSE Hints[(groupID(s) % Len(Hints)) + 1]

\* Get: ExpiresIn, or the default when the provider gives none.
Lifetime(x) == IF x <= 0 THEN DefaultLifetime ELSE x

\* Faulty variant: the margin is not cut down for short lifetimes.
MarginUncapped(life) == SafetyMargin

\* Faulty variant: no safety margin.
MarginDropped(life) == 0

\* Get: the margin, at most half of the lifetime.
Margin(life) == IF SafetyMargin > life \div 2 THEN life \div 2 ELSE SafetyMargin

ASSUME CredsConstants ==
    /\ N \in Nat \ {0} /\ StreamsPerCred \in Nat \ {0}
    /\ Hints \in Seq(STRING \ {""})
    /\ Lifetimes \subseteq Int /\ DefaultLifetime \in Nat \ {0} /\ SafetyMargin \in Nat
    /\ MaxCacheErrors \in Nat \ {0, 1} /\ ErrorWindow \in Nat
    /\ ReplyDelay \in Nat /\ MaxTime \in Nat /\ MaxInvalidations \in Nat
    /\ Nobody \notin Streams
    /\ NoCred \notin [issued : Nat, life : Int, epoch : Nat]

\* What the margin is for: credentials are stored within it after their issue,
\* and before half of their lifetime is over.
ASSUME ReplyInTime ==
    ReplyDelay <= SafetyMargin /\ \A x \in Lifetimes : 2 * ReplyDelay <= Lifetime(x)

VARIABLES
    now,
    epoch,          \* InvalidateAll calls so far
    mu,             \* entry.mu of each entry: holder across Fetch
    fetchMu,        \* Cache.fetchMu: holder
    cred,           \* entry.creds
    link,           \* entry.link
    expires,        \* entry.expires
    errorCount, lastErrorTime,
    pc,             \* what each stream is doing
    obj,            \* the entry its call works on
    stamp,          \* HandleAuthError's now
    held            \* the credentials the stream has in hand

cacheVars == <<cred, link, expires>>
errorVars == <<errorCount, lastErrorTime>>
lockVars == <<mu, fetchMu>>
callVars == <<pc, obj, stamp, held>>
vars == <<now, epoch, lockVars, cacheVars, errorVars, callVars>>

Groups == {groupID(s) : s \in Streams}
Objs == Groups \X (0 .. MaxInvalidations)
Creds == [issued : 0 .. MaxTime, life : Int, epoch : 0 .. MaxInvalidations]
Pcs == {"idle", "getLock", "fetchLock", "fetching", "issued", "errLock"}

\* The types of the fields of entry and Cache and of a caller's locals; a count
\* of MaxCacheErrors never survives the call that reached it.
TypeOK ==
    /\ now \in 0 .. MaxTime /\ epoch \in 0 .. MaxInvalidations
    /\ mu \in [Objs -> Streams \cup {Nobody}]
    /\ fetchMu \in Streams \cup {Nobody}
    /\ cred \in [Objs -> Creds \cup {NoCred}]
    /\ link \in [Objs -> {hintFor(s) : s \in Streams} \cup {""}]
    /\ expires \in [Objs -> Int]
    /\ errorCount \in [Objs -> 0 .. (MaxCacheErrors - 1)]
    /\ lastErrorTime \in [Objs -> Int]
    /\ pc \in [Streams -> Pcs]
    /\ obj \in [Streams -> Objs]
    /\ stamp \in [Streams -> 0 .. MaxTime]
    /\ held \in [Streams -> Creds \cup {NoCred}]

\* NewCache.  The zero time.Time and the zero lastErrorTime are long past.
Past == -(ErrorWindow + 1)
Init ==
    /\ now = 0 /\ epoch = 0
    /\ mu = [o \in Objs |-> Nobody] /\ fetchMu = Nobody
    /\ cred = [o \in Objs |-> NoCred] /\ link = [o \in Objs |-> ""]
    /\ expires = [o \in Objs |-> Past]
    /\ errorCount = [o \in Objs |-> 0] /\ lastErrorTime = [o \in Objs |-> Past]
    /\ pc = [s \in Streams |-> "idle"] /\ obj = [s \in Streams |-> <<groupID(s), 0>>]
    /\ stamp = [s \in Streams |-> 0] /\ held = [s \in Streams |-> NoCred]

-----------------------------------------------------------------------------
(* Get *)

\* getEntry: the group's entry in the current map.
EntryOf(s) == <<groupID(s), epoch>>

\* Get is called; the stream has no credentials in hand.
GetBegin(s) ==
    /\ pc[s] = "idle"
    /\ pc' = [pc EXCEPT ![s] = "getLock"]
    /\ obj' = [obj EXCEPT ![s] = EntryOf(s)]
    /\ held' = [held EXCEPT ![s] = NoCred]
    /\ UNCHANGED <<now, epoch, lockVars, cacheVars, errorVars, stamp>>

\* The entry's credentials can be used for this hint now.
Cached(o, hint) == link[o] = hint /\ now < expires[o]

\* e.mu is free and the entry is good.
GetHit(s) ==
    /\ pc[s] = "getLock" /\ mu[obj[s]] = Nobody
    /\ Cached(obj[s], hintFor(s))
    /\ held' = [held EXCEPT ![s] = cred[obj[s]]]
    /\ pc' = [pc EXCEPT ![s] = "idle"]
    /\ UNCHANGED <<now, epoch, lockVars, cacheVars, errorVars, obj, stamp>>

\* A miss, but the caller's context is already cancelled.
GetCancelled(s) ==
    /\ pc[s] = "getLock" /\ mu[obj[s]] = Nobody
    /\ ~Cached(obj[s], hintFor(s))
    /\ pc' = [pc EXCEPT ![s] = "idle"]
    /\ UNCHANGED <<now, epoch, lockVars, cacheVars, errorVars, obj, stamp, held>>

\* Faulty variant: e.mu is released for the duration of the fetch.
GetMissUnlocked(s) ==
    /\ pc[s] = "getLock" /\ mu[obj[s]] = Nobody
    /\ ~Cached(obj[s], hintFor(s))
    /\ pc' = [pc EXCEPT ![s] = "fetchLock"]
    /\ UNCHANGED <<now, epoch, lockVars, cacheVars, errorVars, obj, stamp, held>>

\* A miss: e.mu stays locked until Get returns.
GetMiss(s) ==
    /\ pc[s] = "getLock" /\ mu[obj[s]] = Nobody
    /\ ~Cached(obj[s], hintFor(s))
    /\ mu' = [mu EXCEPT ![obj[s]] = s]
    /\ pc' = [pc EXCEPT ![s] = "fetchLock"]
    /\ UNCHANGED <<now, epoch, fetchMu, cacheVars, errorVars, obj, stamp, held>>

\* fetchMu.Lock() and the call of Fetch.
FetchBegin(s) ==
    /\ pc[s] = "fetchLock" /\ fetchMu = Nobody
    /\ fetchMu' = s
    /\ pc' = [pc EXCEPT ![s] = "fetching"]
    /\ UNCHANGED <<now, epoch, mu, cacheVars, errorVars, obj, stamp, held>>

\* Fetch, at the provider: credentials are issued, with or without a lifetime.
FetchIssue(s, x) ==
    /\ pc[s] = "fetching"
    /\ held' = [held EXCEPT ![s] = [issued |-> now, life |-> x, epoch |-> epoch]]
    /\ pc' = [pc EXCEPT ![s] = "issued"]
    /\ UNCHANGED <<now, epoch, lockVars, cacheVars, errorVars, obj, stamp>>

\* Get returns from its miss path: both locks are released.
Unlock(s) ==
    /\ fetchMu' = Nobody
    /\ mu' = [mu EXCEPT ![obj[s]] = Nobody]
    /\ pc' = [pc EXCEPT ![s] = "idle"]

\* Faulty variant: the error return leaves fetchMu locked.
FetchFailsLocked(s) ==
    /\ pc[s] \in {"fetching", "issued"}
    /\ mu' = [mu EXCEPT ![obj[s]] = Nobody]
    /\ pc' = [pc EXCEPT ![s] = "idle"]
    /\ held' = [held EXCEPT ![s] = NoCred]
    /\ UNCHANGED <<now, epoch, fetchMu, cacheVars, errorVars, obj, stamp>>

\* Fetch returns an error (also when the answer with the credentials is lost).
FetchFails(s) ==
    /\ pc[s] \in {"fetching", "issued"}
    /\ Unlock(s)
    /\ held' = [held EXCEPT ![s] = NoCred]
    /\ UNCHANGED <<now, epoch, cacheVars, errorVars, obj, stamp>>

\* Faulty variant: the entry to store in is looked up again after the fetch.
FetchReturnsLookup(s) ==
    LET life == Lifetime(held[s].life) IN
    /\ pc[s] = "issued"
    /\ cred' = [cred EXCEPT ![EntryOf(s)] = held[s]]
    /\ link' = [link EXCEPT ![EntryOf(s)] = hintFor(s)]
    /\ expires' = [expires EXCEPT ![EntryOf(s)] = now + (life - Margin(life))]
    /\ Unlock(s)
    /\ UNCHANGED <<now, epoch, errorVars, obj, stamp, held>>

\* Fetch returns the credentials, which are cached in the entry that is locked.
FetchReturns(s) ==
    LET life == Lifetime(held[s].life) IN
    /\ pc[s] = "issued"
    /\ cred' = [cred EXCEPT ![obj[s]] = held[s]]
    /\ link' = [link EXCEPT ![obj[s]] = hintFor(s)]
    /\ expires' = [expires EXCEPT ![obj[s]] = now + (life - Margin(life))]
    /\ Unlock(s)
    /\ UNCHANGED <<now, epoch, errorVars, obj, stamp, held>>

-----------------------------------------------------------------------------
(* HandleAuthError, called by a stream whose credentials were rejected. *)

\* getEntry, and the clock is read, before e.mu is locked.
AuthErrorBegin(s) ==
    /\ pc[s] = "idle" /\ held[s] # NoCred
    /\ obj' = [obj EXCEPT ![s] = EntryOf(s)]
    /\ stamp' = [stamp EXCEPT ![s] = now]
    /\ held' = [held EXCEPT ![s] = NoCred]
    /\ pc' = [pc EXCEPT ![s] = "errLock"]
    /\ UNCHANGED <<now, epoch, lockVars, cacheVars, errorVars>>

\* Faulty variant: the count is not reset outside the window.
CountKept(s) == errorCount[obj[s]] + 1

\* The count with this error, after the reset that ErrorWindow asks for.
Count(s) ==
    1 + IF stamp[s] - lastErrorTime[obj[s]] > ErrorWindow THEN 0 ELSE errorCount[obj[s]]

\* This error invalidates the entry.
Threshold(s) == Count(s) >= MaxCacheErrors

\* Under e.mu: count, and invalidate at the threshold.
AuthErrorCount(s) ==
    LET o == obj[s] IN
    /\ pc[s] = "errLock" /\ mu[o] = Nobody
    /\ IF Threshold(s)
       THEN /\ cred' = [cred EXCEPT ![o] = NoCred]
            /\ link' = [link EXCEPT ![o] = ""]
            /\ expires' = [expires EXCEPT ![o] = Past]
            /\ errorCount' = [errorCount EXCEPT ![o] = 0]
            /\ lastErrorTime' = [lastErrorTime EXCEPT ![o] = Past]
       ELSE /\ errorCount' = [errorCount EXCEPT ![o] = Count(s)]
            /\ lastErrorTime' = [lastErrorTime EXCEPT ![o] = stamp[s]]
            /\ UNCHANGED cacheVars
    /\ pc' = [pc EXCEPT ![s] = "idle"]
    /\ stamp' = [stamp EXCEPT ![s] = 0]
    /\ UNCHANGED <<now, epoch, lockVars, obj, held>>

-----------------------------------------------------------------------------
\* A new map; calls under way keep the entries they have.
InvalidateAll ==
    /\ epoch < MaxInvalidations
    /\ epoch' = epoch + 1
    /\ UNCHANGED <<now, lockVars, cacheVars, errorVars, callVars>>

\* Time passes; issued credentials are stored within ReplyDelay.
Tick ==
    /\ now < MaxTime
    /\ \A s \in Streams : pc[s] = "issued" => now < held[s].issued + ReplyDelay
    /\ now' = now + 1
    /\ UNCHANGED <<epoch, lockVars, cacheVars, errorVars, callVars>>

GetStep(s) ==
    \/ GetBegin(s) \/ GetHit(s) \/ GetCancelled(s) \/ GetMiss(s)
    \/ FetchBegin(s) \/ (\E x \in Lifetimes : FetchIssue(s, x))
    \/ FetchFails(s) \/ FetchReturns(s)

AuthErrorStep(s) == AuthErrorBegin(s) \/ AuthErrorCount(s)

Next == (\E s \in Streams : GetStep(s) \/ AuthErrorStep(s)) \/ InvalidateAll \/ Tick

Spec == Init /\ [][Next]_vars

-----------------------------------------------------------------------------
\* Get: credentials that the cache would hand out have not run out at the
\* provider, although the cache counts from the moment it stores them.
ServedWhileValid ==
    \A o \in Objs, s \in Streams : cred[o] # NoCred /\ Cached(o, hintFor(s)) =>
        now < cred[o].issued + Lifetime(cred[o].life)

\* Get: what was just stored can be used at once, however short its lifetime:
\* the margin never eats it up, which would make every Get fetch.
StoredIsUsable ==
    [][\A o \in Objs : cred'[o] # NoCred /\ cred'[o] # cred[o] => now < expires'[o]]_vars

\* Get: a fetch is never wasted: whoever waited for the entry while it was being
\* fetched finds it there, so usable credentials are never overwritten.
NoWastedFetch ==
    [][\A o \in Objs : cred[o] # NoCred /\ cred'[o] # cred[o] /\ cred'[o] # NoCred =>
          now >= expires[o]]_vars

\* InvalidateAll: a Get called after it never returns credentials whose issue
\* came before it.
InvalidatedForGood ==
    \A s \in Streams : held[s] # NoCred => held[s].epoch >= obj[s][2]

\* HandleAuthError: credentials are dropped only by a stream that had some
\* rejected, when MaxCacheErrors - 1 others are on record, none of which the
\* window had put out of account.
DroppedOnThreshold ==
    [][\A o \in Objs : cred[o] # NoCred /\ cred'[o] = NoCred =>
          errorCount[o] = MaxCacheErrors - 1
          /\ \E s \in Streams : pc[s] = "errLock" /\ stamp[s] - lastErrorTime[o] <= ErrorWindow]_vars

\* Get: the locks are held exactly by the calls on their way to release them: no call
\* waits on a lock that stays locked, no two wait for each other, and fetches take
\* turns, also those of entries that InvalidateAll has orphaned.
LocksInUse ==
    /\ \A o \in Objs, s \in Streams :
          mu[o] = s <=> obj[s] = o /\ pc[s] \in {"fetchLock", "fetching", "issued"}
    /\ \A s \in Streams : fetchMu = s <=> pc[s] \in {"fetching", "issued"}
=============================================================================
