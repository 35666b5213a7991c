------------------------------ MODULE KeyCache ------------------------------
(***************************************************************************)
(* The in-process cache of resolved API keys (app/services/auth.py).       *)
(*                                                                         *)
(* A lookup asks the cache; on a miss it reads the key's row in a session  *)
(* and, when that session has ended, decides and caches the decision, a    *)
(* refusal like a grant.  The awaits between miss, read and decision let   *)
(* other lookups run and the row change.  Nothing in app/ writes api_keys: *)
(* an operator issues, re-scopes and revokes keys.  JWTs are not cached.   *)
(***************************************************************************)
EXTENDS Naturals, FiniteSets

CONSTANTS
  Keys,     \* API keys, each standing for its hash
  Lookups,  \* requests that authenticate at the same time
  Grants,   \* what a valid key may give: a tenant and scopes
  Refused,  \* the answer AuthError, and what a missing or revoked row gives
  Nothing,  \* what a lookup or the cache holds before it holds anything
  Expiries, \* when keys may expire
  TTL,      \* _CACHE_TTL_S
  MaxSize,  \* _TTLCache._maxsize
  Lag,      \* how long a session may take to end after its read
  MaxTime   \* where the clock of the model stops

ASSUME Times == /\ TTL \in Nat /\ Lag \in Nat /\ MaxTime \in Nat
                /\ Expiries \subseteq Nat

ASSUME Sizes == MaxSize \in Nat \ {0} /\ IsFiniteSet(Keys)

ASSUME KeyValues == Refused \notin Grants /\ Nothing \notin Grants \cup Keys \cup {Refused}

Answers == Grants \cup {Refused}

VARIABLES
  now,      \* the clock
  grant,    \* api_keys: what the row says but for its expiry
  expires,  \* api_keys.expires_at, which is never changed
  cache,    \* _TTLCache._data
  at,       \* where each lookup is
  key,      \* the key it resolves
  read,     \* what its session read
  readAt,   \* and when
  answer,   \* what it was answered
  lastRight \* observer: when each answer was last the right one for the key

keyVars == <<now, grant, expires, cache, at, key, read, readAt, answer, lastRight>>

\* lastRight of an answer that never was.
Never == MaxTime + 1

Absent == [value |-> Nothing, until |-> 0]

KeyTypeOK ==
  /\ now \in 0..MaxTime
  /\ grant \in [Keys -> Answers]
  /\ expires \in [Keys -> Expiries]
  /\ cache \in [Keys -> [value : Answers, until : TTL..(MaxTime + TTL)] \cup {Absent}]
  /\ at \in [Lookups -> {"idle", "waiting", "read", "answered"}]
  /\ key \in [Lookups -> Keys \cup {Nothing}]
  /\ read \in [Lookups -> Answers \cup {Nothing}]
  /\ readAt \in [Lookups -> 0..MaxTime]
  /\ answer \in [Lookups -> Answers \cup {Nothing}]
  /\ lastRight \in [Keys -> [Answers -> 0..Never]]

\* Mutant of Right: an expired key resolves to no context instead of an error.
RightNone(k, g, t) == IF t < expires[k] THEN g ELSE Nothing

\* The answer for key k at time t if its row says g: no row, a revoked one and
\* an expired one are refused.
Right(k, g, t) == IF t < expires[k] THEN g ELSE Refused

KeyInit ==
  /\ now = 0
  /\ grant = [k \in Keys |-> Refused]
  /\ expires \in [Keys -> Expiries]
  /\ cache = [k \in Keys |-> Absent]
  /\ at = [l \in Lookups |-> "idle"]
  /\ key = [l \in Lookups |-> Nothing]
  /\ read = [l \in Lookups |-> Nothing]
  /\ readAt = [l \in Lookups |-> 0]
  /\ answer = [l \in Lookups |-> Nothing]
  /\ lastRight = [k \in Keys |-> [a \in Answers |-> IF a = Refused THEN 0 ELSE Never]]

-----------------------------------------------------------------------------
(* The environment: the operator's statements and the clock.               *)

\* The operator issues, re-scopes, revokes or restores key k.
Write(k, g) ==
  /\ grant[k] # g
  /\ grant' = [grant EXCEPT ![k] = g]
  /\ lastRight' = [lastRight EXCEPT ![k][Right(k, g, now)] = now]
  /\ UNCHANGED <<now, expires, cache, at, key, read, readAt, answer>>

\* Time passes, but no session takes longer than Lag to end.
Tick ==
  /\ now < MaxTime
  /\ \A l \in Lookups : at[l] = "read" => now < readAt[l] + Lag
  /\ now' = now + 1
  /\ lastRight' = [k \in Keys |->
                    [lastRight[k] EXCEPT ![Right(k, grant[k], now + 1)] = now + 1]]
  /\ UNCHANGED <<grant, expires, cache, at, key, read, readAt, answer>>

-----------------------------------------------------------------------------
(* resolve_api_key.                                                        *)

\* Mutant of Fresh: a cached refusal never ages.
FreshIfRefused(k) == cache[k] # Absent /\ (now <= cache[k].until \/ cache[k].value = Refused)

\* What _TTLCache.get serves.
Fresh(k) == cache[k] # Absent /\ now <= cache[k].until

\* _TTLCache.get finds the key: no session, no await.
Hit(l, k) ==
  /\ at[l] = "idle" /\ Fresh(k)
  /\ at' = [at EXCEPT ![l] = "answered"]
  /\ key' = [key EXCEPT ![l] = k]
  /\ answer' = [answer EXCEPT ![l] = cache[k].value]
  /\ UNCHANGED <<now, grant, expires, cache, read, readAt, lastRight>>

\* It does not, and drops an entry that is too old; the lookup needs a session.
Miss(l, k) ==
  /\ at[l] = "idle" /\ ~Fresh(k)
  /\ at' = [at EXCEPT ![l] = "waiting"]
  /\ key' = [key EXCEPT ![l] = k]
  /\ cache' = [cache EXCEPT ![k] = Absent]
  /\ UNCHANGED <<now, grant, expires, read, readAt, answer, lastRight>>

\* The session has a connection, and auth_resolve_api_key returns the row.
Resolve(l) ==
  /\ at[l] = "waiting"
  /\ at' = [at EXCEPT ![l] = "read"]
  /\ read' = [read EXCEPT ![l] = grant[key[l]]]
  /\ readAt' = [readAt EXCEPT ![l] = now]
  /\ UNCHANGED <<now, grant, expires, cache, key, answer, lastRight>>

Cached == {k \in Keys : cache[k] # Absent}

\* Mutant of Stored: the cache never makes room.
StoredAlways(k, a) == [cache EXCEPT ![k] = [value |-> a, until |-> now + TTL]]

\* _TTLCache.set: a full cache is emptied first, even if k is in it.
Stored(k, a) ==
  [(IF Cardinality(Cached) >= MaxSize THEN [j \in Keys |-> Absent] ELSE cache)
     EXCEPT ![k] = [value |-> a, until |-> now + TTL]]

\* Mutant of Decide: the row is judged by the clock of the read, as SQL would.
DecideAsRead(l) ==
  LET a == Right(key[l], read[l], readAt[l])
  IN  /\ at[l] = "read"
      /\ at' = [at EXCEPT ![l] = "answered"]
      /\ cache' = Stored(key[l], a)
      /\ answer' = [answer EXCEPT ![l] = a]
      /\ read' = [read EXCEPT ![l] = Nothing]
      /\ readAt' = [readAt EXCEPT ![l] = 0]
      /\ UNCHANGED <<now, grant, expires, key, lastRight>>

\* The session has ended: the row is judged by the clock of now, and cached.
Decide(l) ==
  LET a == Right(key[l], read[l], now)
  IN  /\ at[l] = "read"
      /\ at' = [at EXCEPT ![l] = "answered"]
      /\ cache' = Stored(key[l], a)
      /\ answer' = [answer EXCEPT ![l] = a]
      /\ read' = [read EXCEPT ![l] = Nothing]
      /\ readAt' = [readAt EXCEPT ![l] = 0]
      /\ UNCHANGED <<now, grant, expires, key, lastRight>>

\* No connection, or a session that fails: the request fails, nothing is cached.
Fail(l) ==
  /\ at[l] \in {"waiting", "read"}
  /\ at' = [at EXCEPT ![l] = "idle"]
  /\ key' = [key EXCEPT ![l] = Nothing]
  /\ read' = [read EXCEPT ![l] = Nothing]
  /\ readAt' = [readAt EXCEPT ![l] = 0]
  /\ UNCHANGED <<now, grant, expires, cache, answer, lastRight>>

\* require_auth turns the answer into the request's context or a 401.
Return(l) ==
  /\ at[l] = "answered"
  /\ at' = [at EXCEPT ![l] = "idle"]
  /\ key' = [key EXCEPT ![l] = Nothing]
  /\ answer' = [answer EXCEPT ![l] = Nothing]
  /\ UNCHANGED <<now, grant, expires, cache, read, readAt, lastRight>>

Lookup(l) ==
  \/ \E k \in Keys : Hit(l, k) \/ Miss(l, k)
  \/ Resolve(l) \/ Decide(l) \/ Fail(l) \/ Return(l)

KeyNext == \/ \E k \in Keys, g \in Answers : Write(k, g)
           \/ Tick
           \/ \E l \in Lookups : Lookup(l)

KeySpec == KeyInit /\ [][KeyNext]_keyVars

-----------------------------------------------------------------------------
(* Properties.                                                             *)

\* Answer a was right for key k at some time in the last d.
RightWithin(k, a, d) == lastRight[k][a] # Never /\ now <= lastRight[k][a] + d

Answered(l) == at[l] # "answered" /\ at'[l] = "answered"

\* What authentication claims: a revoked or expired key is rejected.  The time a
\* session takes is granted: a key is accepted if its row allowed that within Lag,
\* as a lookup that read the row for each request would.
RevokedIsRefused ==
  [][\A l \in Lookups : Answered(l) /\ answer'[l] # Refused =>
       RightWithin(key'[l], answer'[l], Lag)]_keyVars

\* What is left of that claim, for refusals as well: whoever is answered is told what
\* was right for the key at most TTL + Lag ago.  A revoked key lives no longer and a
\* new one waits no longer, in whatever order overlapping lookups read, decide and
\* overwrite each other's entries.
AnswersRecent ==
  [][\A l \in Lookups : Answered(l) => RightWithin(key'[l], answer'[l], TTL + Lag)]_keyVars

\* A key is accepted for less than TTL after it expired, however slow sessions
\* are: expiry is judged after the read, with no await before the entry is stored.
ExpiryWithinTTL ==
  [][\A l \in Lookups : Answered(l) /\ answer'[l] # Refused =>
       now < expires[key'[l]] + TTL]_keyVars

\* The cache holds at most maxsize keys, although overlapping lookups store keys
\* that others have just dropped, and old entries stay until they are asked for.
CacheBounded == Cardinality(Cached) <= MaxSize
=============================================================================
