----------------------------- MODULE TokenCache -----------------------------
(***************************************************************************)
(* TokenLookup and its cache: proxy/token.go.  A request that carries no   *)
(* usable ticket is given one by the control platform; the answer is kept  *)
(* for TTL under a key that genKey makes of the request.  get and set are  *)
(* critical sections of c.mu; the platform is called between them without  *)
(* it, so several requests of one key may be on their way at once.         *)
(***************************************************************************)
EXTENDS Naturals, FiniteSets

CONSTANTS
  CacheKeys,    \* the values of genKey
  Lookups,      \* goroutines that call Lookup
  NoCacheKey,   \* the key of a goroutine that is not inside Lookup
  TTL,          \* tokenCacheTTL
  MaxEntries,   \* maxTokenCacheEntries
  MaxTime       \* bound: the clock

ASSUME CacheAssumption ==
  /\ IsFiniteSet(CacheKeys) /\ NoCacheKey \notin CacheKeys
  /\ TTL \in Nat \ {0} /\ MaxEntries \in Nat \ {0} /\ MaxTime \in Nat

VARIABLES
  now,          \* c.now(), from 1 on
  expiresAt,    \* [key -> its entry's expiresAt, 0 without an entry]
  asking        \* [goroutine -> the key it asks the platform about]

cacheVars == <<now, expiresAt, asking>>

CacheInit ==
  /\ now = 1
  /\ expiresAt = [k \in CacheKeys |-> 0]
  /\ asking = [l \in Lookups |-> NoCacheKey]

Entries == {k \in CacheKeys : expiresAt[k] # 0}

\* The entries that have not expired; one expires at the very instant.
Live == {k \in CacheKeys : expiresAt[k] > now}

Earliest == {k \in Live : \A j \in Live : expiresAt[k] <= expiresAt[j]}

\* Fault: expired entries are counted, and make live ones go.
Displaced_CountsExpired(key) ==
  IF key \in Entries \/ Cardinality(Entries) < MaxEntries THEN {{}} ELSE {{k} : k \in Earliest}

\* Fault: room is made only when the cache has overflowed.
Displaced_OffByOne(key) ==
  IF key \in Live \/ Cardinality(Live) <= MaxEntries THEN {{}} ELSE {{k} : k \in Earliest}

\* What set may displace: nothing, or for a new key in a full cache an entry that
\* expires first (the order of the map decides between several).
Displaced(key) ==
  IF key \in Live \/ Cardinality(Live) < MaxEntries THEN {{}} ELSE {{k} : k \in Earliest}

\* set: expired entries go, too.
set(key) ==
  \E gone \in Displaced(key) :
    expiresAt' = [k \in CacheKeys |->
                    IF k = key THEN now + TTL ELSE IF k \in Live \ gone THEN expiresAt[k] ELSE 0]

\* Lookup up to the call of the platform: get serves a live entry and drops an
\* expired one.
LookupCache(l) ==
  /\ asking[l] = NoCacheKey
  /\ \E key \in CacheKeys :
       \/ key \in Live /\ UNCHANGED <<expiresAt, asking>>
       \/ /\ key \notin Live
          /\ expiresAt' = [expiresAt EXCEPT ![key] = 0]
          /\ asking' = [asking EXCEPT ![l] = key]
  /\ UNCHANGED now

\* callPlatform answers with a token, which set keeps, or fails.
PlatformAnswers(l) ==
  /\ asking[l] # NoCacheKey
  /\ set(asking[l]) \/ UNCHANGED expiresAt
  /\ asking' = [asking EXCEPT ![l] = NoCacheKey]
  /\ UNCHANGED now

Tick == now < MaxTime /\ now' = now + 1 /\ UNCHANGED <<expiresAt, asking>>

CacheNext == Tick \/ \E l \in Lookups : LookupCache(l) \/ PlatformAnswers(l)

CacheSpec == CacheInit /\ [][CacheNext]_cacheVars

-----------------------------------------------------------------------------
\* The cache never holds more than maxTokenCacheEntries entries, expired ones
\* included, however many lookups of different keys answer at once.
CacheBounded == Cardinality(Entries) <= MaxEntries

\* A live entry leaves the cache only for a new one, only when MaxEntries
\* entries are live, and no other live entry expires before it: requests
\* that repeat do not lose their tokens to entries that are over anyway.
LiveLeavesLast ==
  [][\A k \in Live : expiresAt'[k] = 0 =>
       Cardinality(Live) = MaxEntries /\ k \in Earliest]_cacheVars
=============================================================================
