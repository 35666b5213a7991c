--------------------------- MODULE KeyCacheProofs ---------------------------
(***************************************************************************)
(* Theorems about KeyCache for any keys, lookups, grants, times and sizes. *)
(***************************************************************************)
EXTENDS KeyCache, FiniteSetTheorems, TLAPS

\* A lookup that needs or has a session knows its key, and one whose session
\* has read knows what it read.
HeldInv ==
  \A l \in Lookups :
    /\ at[l] \in {"waiting", "read"} => key[l] \in Keys
    /\ at[l] = "read" => read[l] \in Answers

\* The observer is up to date: what is right now was right now, and nothing
\* was right later than now.
RightInv ==
  \A k \in Keys :
    /\ lastRight[k][Right(k, grant[k], now)] = now
    /\ \A a \in Answers : lastRight[k][a] # Never => lastRight[k][a] <= now

\* What a session read was right when it was read, at most Lag ago.
ReadInv ==
  \A l \in Lookups : at[l] = "read" =>
    LET a == Right(key[l], read[l], readAt[l])
    IN  /\ readAt[l] <= now /\ now <= readAt[l] + Lag
        /\ lastRight[key[l]][a] # Never /\ readAt[l] <= lastRight[key[l]][a]

\* A cached answer was right Lag before it was stored or later, and a grant was
\* stored before the key expired.
CacheInv ==
  \A k \in Keys : cache[k] # Absent =>
    /\ lastRight[k][cache[k].value] # Never
    /\ cache[k].until <= lastRight[k][cache[k].value] + TTL + Lag
    /\ cache[k].value # Refused => cache[k].until < expires[k] + TTL

KeyInv == KeyTypeOK /\ HeldInv /\ RightInv /\ ReadInv /\ CacheInv /\ CacheBounded

\* A row that says something gives an answer.
LEMMA RightIsAnswer ==
  ASSUME NEW k \in Keys, NEW g \in Answers, NEW t \in Nat
  PROVE  Right(k, g, t) \in Answers
BY DEF Right, Answers

\* Times are numbers.
LEMMA TimesAreNumbers ==
  ASSUME KeyTypeOK
  PROVE  /\ now \in Nat
         /\ \A k \in Keys : expires[k] \in Nat
         /\ \A l \in Lookups : readAt[l] \in Nat
<1>1. now \in Nat /\ \A l \in Lookups : readAt[l] \in Nat
  BY Times DEF KeyTypeOK
<1>2. \A k \in Keys : expires[k] \in Expiries
  BY DEF KeyTypeOK
<1> QED BY <1>1, <1>2, Times

\* Storing an answer keeps the cache well-typed, and in its size.
LEMMA StoredFits ==
  ASSUME KeyTypeOK, CacheBounded, NEW k \in Keys, NEW a \in Answers, cache' = Stored(k, a)
  PROVE  /\ cache' \in [Keys -> [value : Answers, until : TTL..(MaxTime + TTL)] \cup {Absent}]
         /\ cache'[k] = [value |-> a, until |-> now + TTL]
         /\ \A j \in Keys \ {k} : cache'[j] \in {cache[j], Absent}
         /\ CacheBounded'
<1> USE Times, Sizes
<1>1. cache' \in [Keys -> [value : Answers, until : TTL..(MaxTime + TTL)] \cup {Absent}]
  <2>1. [value |-> a, until |-> now + TTL] \in [value : Answers, until : TTL..(MaxTime + TTL)]
    BY DEF KeyTypeOK
  <2> QED BY <2>1 DEF KeyTypeOK, Stored
<1>2. cache'[k] = [value |-> a, until |-> now + TTL]
  BY DEF KeyTypeOK, Stored
<1>3. \A j \in Keys \ {k} : cache'[j] \in {cache[j], Absent}
  BY DEF KeyTypeOK, Stored
<1>4. IsFiniteSet(Cached) /\ Cardinality(Cached) \in Nat
  BY FS_Subset, FS_CardinalityType DEF Cached
<1>5. CASE Cardinality(Cached) >= MaxSize
  <2>1. Cached' \subseteq {k}
    BY <1>5 DEF Cached, Stored
  <2>2. IsFiniteSet({k}) /\ Cardinality({k}) = 1
    BY FS_Singleton
  <2>3. IsFiniteSet(Cached') /\ Cardinality(Cached') <= 1
    BY <2>1, <2>2, FS_Subset
  <2>4. Cardinality(Cached') \in Nat
    BY <2>3, FS_CardinalityType
  <2> QED BY <1>1, <1>2, <1>3, <2>3, <2>4 DEF CacheBounded
<1>6. CASE ~(Cardinality(Cached) >= MaxSize)
  <2>1. Cached' \subseteq Cached \cup {k}
    BY <1>6 DEF Cached, Stored, KeyTypeOK
  <2>2. IsFiniteSet(Cached \cup {k}) /\ Cardinality(Cached \cup {k}) <= Cardinality(Cached) + 1
    <3>1. \/ Cardinality(Cached \cup {k}) = Cardinality(Cached)
          \/ Cardinality(Cached \cup {k}) = Cardinality(Cached) + 1
      BY <1>4, FS_AddElement
    <3> QED BY <1>4, <3>1, FS_AddElement
  <2>3. Cardinality(Cached \cup {k}) \in Nat
    BY <2>2, FS_CardinalityType
  <2>4. Cardinality(Cached') <= Cardinality(Cached \cup {k}) /\ Cardinality(Cached') \in Nat
    BY <2>1, <2>2, FS_Subset, FS_CardinalityType
  <2> QED BY <1>1, <1>2, <1>3, <1>4, <1>6, <2>2, <2>3, <2>4 DEF CacheBounded
<1> QED BY <1>5, <1>6

\* The invariant holds initially.
LEMMA InvInit == KeyInit => KeyInv
<1> SUFFICES ASSUME KeyInit PROVE KeyInv
  OBVIOUS
<1> USE Times, Sizes, KeyValues
<1>1. KeyTypeOK
  BY DEF KeyInit, KeyTypeOK, Answers, Never, Absent
<1>2. HeldInv /\ ReadInv /\ CacheInv
  BY DEF KeyInit, HeldInv, ReadInv, CacheInv
<1>3. RightInv
  BY DEF KeyInit, RightInv, Right, Answers, Never
<1>4. CacheBounded
  <2>1. Cached = {}
    BY DEF KeyInit, Cached
  <2> QED BY <2>1, FS_EmptySet DEF CacheBounded
<1> QED BY <1>1, <1>2, <1>3, <1>4 DEF KeyInv

\* The operator's statement makes another answer right, now.
LEMMA WriteStep ==
  ASSUME KeyInv, NEW k \in Keys, NEW g \in Answers, Write(k, g)
  PROVE  KeyInv'
<1> USE Times, Sizes, KeyValues DEF KeyInv
<1> DEFINE a == Right(k, g, now)
<1>1. a \in Answers
  BY RightIsAnswer DEF KeyTypeOK
<1>2. KeyTypeOK'
  BY <1>1 DEF Write, KeyTypeOK, Never
<1>3. /\ lastRight'[k][a] = now
      /\ \A j \in Keys, b \in Answers : <<j, b>> # <<k, a>> => lastRight'[j][b] = lastRight[j][b]
      /\ now # Never
  BY <1>1 DEF Write, KeyTypeOK, Never
<1>4. \A j \in Keys, b \in Answers :
        lastRight[j][b] # Never => /\ lastRight'[j][b] # Never
                                   /\ lastRight'[j][b] >= lastRight[j][b]
  BY <1>3 DEF RightInv, KeyTypeOK
<1>5. HeldInv'
  BY DEF Write, HeldInv
<1>6. RightInv'
  BY <1>1, <1>3 DEF Write, RightInv, KeyTypeOK, Right
<1>7. ReadInv'
  <2> SUFFICES ASSUME NEW l \in Lookups, at[l] = "read"
               PROVE  LET b == Right(key[l], read[l], readAt[l])
                      IN  /\ readAt[l] <= now /\ now <= readAt[l] + Lag
                          /\ lastRight'[key[l]][b] # Never /\ readAt[l] <= lastRight'[key[l]][b]
    BY DEF Write, ReadInv, Right, Never
  <2> DEFINE b == Right(key[l], read[l], readAt[l])
  <2>1. key[l] \in Keys /\ b \in Answers /\ readAt[l] \in Nat
    BY RightIsAnswer DEF HeldInv, KeyTypeOK
  <2>2. /\ lastRight[key[l]][b] \in Nat /\ lastRight'[key[l]][b] \in Nat
    BY <2>1, <1>2 DEF KeyTypeOK, Never
  <2> QED BY <2>1, <2>2, <1>4 DEF ReadInv
<1>8. CacheInv'
  <2> SUFFICES ASSUME NEW j \in Keys, cache[j] # Absent
               PROVE  /\ lastRight'[j][cache[j].value] # Never
                      /\ cache[j].until <= lastRight'[j][cache[j].value] + TTL + Lag
                      /\ cache[j].value # Refused => cache[j].until < expires[j] + TTL
    BY DEF Write, CacheInv, Absent, Never
  <2>1. cache[j].value \in Answers /\ cache[j].until \in Nat
    BY DEF KeyTypeOK
  <2>2. lastRight[j][cache[j].value] \in Nat /\ lastRight'[j][cache[j].value] \in Nat
    BY <2>1, <1>2 DEF KeyTypeOK, Never
  <2> QED BY <2>1, <2>2, <1>4 DEF CacheInv
<1>9. CacheBounded'
  BY DEF Write, CacheBounded, Cached, Absent
<1> QED BY <1>2, <1>5, <1>6, <1>7, <1>8, <1>9

\* Time passes: what is still right is right a moment later, and a session that
\* has read has not used up its Lag.
LEMMA TickStep == ASSUME KeyInv, Tick PROVE KeyInv'
<1> USE Times, Sizes, KeyValues DEF KeyInv
<1>1. \A k \in Keys : Right(k, grant[k], now + 1) \in Answers
  BY RightIsAnswer DEF KeyTypeOK
<1>2. KeyTypeOK'
  BY <1>1 DEF Tick, KeyTypeOK, Never
<1>3. \A k \in Keys : /\ lastRight'[k][Right(k, grant[k], now + 1)] = now + 1
                      /\ \A a \in Answers : a # Right(k, grant[k], now + 1) =>
                                              lastRight'[k][a] = lastRight[k][a]
  BY <1>1 DEF Tick, KeyTypeOK
<1>4. \A k \in Keys, a \in Answers :
        lastRight[k][a] # Never => /\ lastRight'[k][a] # Never
                                   /\ lastRight'[k][a] >= lastRight[k][a]
  BY <1>3 DEF Tick, RightInv, KeyTypeOK, Never
<1>5. HeldInv'
  BY DEF Tick, HeldInv
<1>6. RightInv'
  BY <1>1, <1>3 DEF Tick, RightInv, KeyTypeOK, Right, Never
<1>7. ReadInv'
  <2> SUFFICES ASSUME NEW l \in Lookups, at[l] = "read"
               PROVE  LET b == Right(key[l], read[l], readAt[l])
                      IN  /\ readAt[l] <= now + 1 /\ now + 1 <= readAt[l] + Lag
                          /\ lastRight'[key[l]][b] # Never /\ readAt[l] <= lastRight'[key[l]][b]
    BY DEF Tick, ReadInv, Right, Never
  <2> DEFINE b == Right(key[l], read[l], readAt[l])
  <2>1. key[l] \in Keys /\ b \in Answers /\ readAt[l] \in Nat
    BY RightIsAnswer DEF HeldInv, KeyTypeOK
  <2>2. lastRight[key[l]][b] \in Nat /\ lastRight'[key[l]][b] \in Nat
    BY <2>1, <1>2 DEF KeyTypeOK, Never
  <2>3. readAt[l] <= now + 1 /\ now + 1 <= readAt[l] + Lag
    BY <2>1 DEF Tick, ReadInv, KeyTypeOK
  <2> QED BY <2>1, <2>2, <2>3, <1>4 DEF ReadInv
<1>8. CacheInv'
  <2> SUFFICES ASSUME NEW j \in Keys, cache[j] # Absent
               PROVE  /\ lastRight'[j][cache[j].value] # Never
                      /\ cache[j].until <= lastRight'[j][cache[j].value] + TTL + Lag
                      /\ cache[j].value # Refused => cache[j].until < expires[j] + TTL
    BY DEF Tick, CacheInv, Absent, Never
  <2>1. cache[j].value \in Answers /\ cache[j].until \in Nat
    BY DEF KeyTypeOK
  <2>2. lastRight[j][cache[j].value] \in Nat /\ lastRight'[j][cache[j].value] \in Nat
    BY <2>1, <1>2 DEF KeyTypeOK, Never
  <2> QED BY <2>1, <2>2, <1>4 DEF CacheInv
<1>9. CacheBounded'
  BY DEF Tick, CacheBounded, Cached, Absent
<1> QED BY <1>2, <1>5, <1>6, <1>7, <1>8, <1>9

\* A cache that lost entries, and nothing else changed that CacheInv is about.
LEMMA CacheShrinks ==
  ASSUME KeyTypeOK, CacheInv, CacheBounded, KeyTypeOK',
         UNCHANGED <<expires, lastRight>>,
         \A k \in Keys : cache'[k] \in {cache[k], Absent}
  PROVE  CacheInv' /\ CacheBounded'
<1>1. CacheInv'
  BY DEF CacheInv, KeyTypeOK, Absent, Never
<1>2. Cached' \subseteq Cached
  BY DEF Cached, Absent
<1>3. IsFiniteSet(Cached) /\ Cardinality(Cached) \in Nat
  BY Sizes, FS_Subset, FS_CardinalityType DEF Cached
<1>4. IsFiniteSet(Cached') /\ Cardinality(Cached') <= Cardinality(Cached)
  BY <1>2, <1>3, FS_Subset
<1>5. Cardinality(Cached') \in Nat
  BY <1>4, FS_CardinalityType
<1>6. CacheBounded'
  BY <1>3, <1>4, <1>5, Sizes DEF CacheBounded
<1> QED BY <1>1, <1>6

\* A decision is right now, or was when the session read: less than Lag ago.
LEMMA DecideRight ==
  ASSUME KeyInv, NEW l \in Lookups, Decide(l)
  PROVE  LET a == Right(key[l], read[l], now)
         IN  /\ key[l] \in Keys /\ a \in Answers
             /\ lastRight[key[l]][a] \in Nat /\ lastRight[key[l]][a] # Never
             /\ now <= lastRight[key[l]][a] + Lag
             /\ a # Refused => now < expires[key[l]]
<1> USE Times, KeyValues DEF KeyInv
<1> DEFINE k == key[l]
           a == Right(k, read[l], now)
<1>1. at[l] = "read" /\ k \in Keys /\ read[l] \in Answers
  BY DEF Decide, HeldInv
<1>2. a \in Answers /\ lastRight[k][a] \in Nat /\ expires[k] \in Nat /\ readAt[l] \in Nat /\ now \in Nat
  <2>1. now \in Nat /\ expires[k] \in Nat /\ readAt[l] \in Nat
    BY <1>1, TimesAreNumbers
  <2>2. a \in Answers
    BY <1>1, <2>1, RightIsAnswer
  <2> QED BY <1>1, <2>1, <2>2 DEF KeyTypeOK, Never
<1>3. a # Refused => now < expires[k]
  BY DEF Right
<1>4. CASE now < expires[k]
  <2>1. a = Right(k, read[l], readAt[l])
    BY <1>1, <1>2, <1>4 DEF Right, ReadInv
  <2>2. /\ lastRight[k][a] # Never /\ readAt[l] <= lastRight[k][a]
        /\ now <= readAt[l] + Lag
    BY <1>1, <2>1 DEF ReadInv
  <2> QED BY <1>1, <1>2, <1>3, <2>2
<1>5. CASE ~(now < expires[k])
  <2>1. a = Right(k, grant[k], now)
    BY <1>5 DEF Right
  <2>2. lastRight[k][a] = now /\ now # Never
    BY <1>1, <2>1 DEF RightInv, KeyTypeOK, Never
  <2> QED BY <1>1, <1>2, <1>3, <2>2
<1> QED BY <1>4, <1>5

\* The steps of a lookup.
LEMMA LookupStep ==
  ASSUME KeyInv, NEW l \in Lookups, Lookup(l)
  PROVE  KeyInv'
<1> USE Times, Sizes, KeyValues DEF KeyInv
<1>1. ASSUME NEW k \in Keys, Hit(l, k) PROVE KeyInv'
  <2>1. cache[k].value \in Answers
    BY <1>1 DEF Hit, Fresh, KeyTypeOK
  <2>2. KeyTypeOK'
    BY <1>1, <2>1 DEF Hit, KeyTypeOK
  <2>3. HeldInv' /\ ReadInv'
    BY <1>1 DEF Hit, HeldInv, ReadInv, KeyTypeOK, Right, Never
  <2>4. RightInv' /\ CacheInv' /\ CacheBounded'
    BY <1>1 DEF Hit, RightInv, CacheInv, CacheBounded, Cached, Right, Never
  <2> QED BY <2>2, <2>3, <2>4
<1>2. ASSUME NEW k \in Keys, Miss(l, k) PROVE KeyInv'
  <2>1. KeyTypeOK'
    BY <1>2 DEF Miss, KeyTypeOK
  <2>2. HeldInv' /\ ReadInv'
    BY <1>2 DEF Miss, HeldInv, ReadInv, KeyTypeOK, Right, Never
  <2>3. RightInv'
    BY <1>2 DEF Miss, RightInv, Right, Never
  <2>4. CacheInv' /\ CacheBounded'
    BY <1>2, <2>1, CacheShrinks DEF Miss, KeyTypeOK
  <2> QED BY <2>1, <2>2, <2>3, <2>4
<1>3. CASE Resolve(l)
  <2>1. key[l] \in Keys
    BY <1>3 DEF Resolve, HeldInv
  <2>2. KeyTypeOK'
    BY <1>3, <2>1 DEF Resolve, KeyTypeOK
  <2>3. HeldInv'
    BY <1>3, <2>1 DEF Resolve, HeldInv, KeyTypeOK
  <2>4. ReadInv'
    BY <1>3, <2>1 DEF Resolve, ReadInv, RightInv, KeyTypeOK, Right, Never
  <2>5. RightInv' /\ CacheInv' /\ CacheBounded'
    BY <1>3 DEF Resolve, RightInv, CacheInv, CacheBounded, Cached, Right, Never
  <2> QED BY <2>2, <2>3, <2>4, <2>5
<1>4. CASE Decide(l)
  <2> DEFINE k == key[l]
             a == Right(k, read[l], now)
  <2>1. /\ k \in Keys /\ a \in Answers
        /\ lastRight[k][a] \in Nat /\ lastRight[k][a] # Never
        /\ now <= lastRight[k][a] + Lag
        /\ a # Refused => now < expires[k]
    BY <1>4, DecideRight
  <2>2. /\ cache' \in [Keys -> [value : Answers, until : TTL..(MaxTime + TTL)] \cup {Absent}]
        /\ cache'[k] = [value |-> a, until |-> now + TTL]
        /\ \A j \in Keys \ {k} : cache'[j] \in {cache[j], Absent}
        /\ CacheBounded'
    BY <1>4, <2>1, StoredFits DEF Decide
  <2>3. KeyTypeOK'
    BY <1>4, <2>1, <2>2 DEF Decide, KeyTypeOK
  <2>4. HeldInv' /\ ReadInv'
    BY <1>4 DEF Decide, HeldInv, ReadInv, KeyTypeOK, Right, Never
  <2>5. RightInv'
    BY <1>4 DEF Decide, RightInv, Right, Never
  <2>6. CacheInv'
    <3> SUFFICES ASSUME NEW j \in Keys, cache'[j] # Absent
                 PROVE  /\ lastRight[j][cache'[j].value] # Never
                        /\ cache'[j].until <= lastRight[j][cache'[j].value] + TTL + Lag
                        /\ cache'[j].value # Refused => cache'[j].until < expires[j] + TTL
      BY <1>4 DEF Decide, CacheInv, Absent, Never
    <3>1. CASE j = k
      <4>1. cache'[j].value = a /\ cache'[j].until = now + TTL
        BY <2>2, <3>1
      <4>2. now \in Nat /\ expires[k] \in Nat
        BY <2>1, TimesAreNumbers
      <4> QED BY <2>1, <3>1, <4>1, <4>2
    <3>2. CASE j # k
      BY <2>2, <3>2 DEF CacheInv
    <3> QED BY <3>1, <3>2
  <2> QED BY <2>2, <2>3, <2>4, <2>5, <2>6
<1>5. CASE Fail(l)
  <2>1. KeyTypeOK'
    BY <1>5 DEF Fail, KeyTypeOK
  <2>2. HeldInv' /\ ReadInv'
    BY <1>5 DEF Fail, HeldInv, ReadInv, KeyTypeOK, Right, Never
  <2>3. RightInv' /\ CacheInv' /\ CacheBounded'
    BY <1>5 DEF Fail, RightInv, CacheInv, CacheBounded, Cached, Right, Never
  <2> QED BY <2>1, <2>2, <2>3
<1>6. CASE Return(l)
  <2>1. KeyTypeOK'
    BY <1>6 DEF Return, KeyTypeOK
  <2>2. HeldInv' /\ ReadInv'
    BY <1>6 DEF Return, HeldInv, ReadInv, KeyTypeOK, Right, Never
  <2>3. RightInv' /\ CacheInv' /\ CacheBounded'
    BY <1>6 DEF Return, RightInv, CacheInv, CacheBounded, Cached, Right, Never
  <2> QED BY <2>1, <2>2, <2>3
<1> QED BY <1>1, <1>2, <1>3, <1>4, <1>5, <1>6 DEF Lookup

\* Every step preserves the invariant.
LEMMA InvStep == KeyInv /\ [KeyNext]_keyVars => KeyInv'
<1> SUFFICES ASSUME KeyInv, [KeyNext]_keyVars PROVE KeyInv'
  OBVIOUS
<1>1. CASE UNCHANGED keyVars
  BY <1>1 DEF keyVars, KeyInv, KeyTypeOK, HeldInv, RightInv, ReadInv, CacheInv, CacheBounded,
              Cached, Right
<1> QED BY <1>1, WriteStep, TickStep, LookupStep DEF KeyNext

\* A lookup is answered from the cache or by its own decision, and either way
\* with what was right a short time ago.
LEMMA AnswerStep ==
  ASSUME KeyInv, [KeyNext]_keyVars, NEW l \in Lookups, Answered(l)
  PROVE  /\ RightWithin(key'[l], answer'[l], TTL + Lag)
         /\ answer'[l] # Refused => now < expires[key'[l]] + TTL
<1> USE Times, KeyValues DEF KeyInv
<1>1. ASSUME NEW k \in Keys, Hit(l, k)
      PROVE  /\ RightWithin(key'[l], answer'[l], TTL + Lag)
             /\ answer'[l] # Refused => now < expires[key'[l]] + TTL
  <2>1. key'[l] = k /\ answer'[l] = cache[k].value /\ lastRight' = lastRight
    BY <1>1 DEF Hit, KeyTypeOK
  <2>2. /\ cache[k].value \in Answers /\ cache[k].until \in Nat
        /\ now <= cache[k].until
    BY <1>1 DEF Hit, Fresh, KeyTypeOK
  <2>3. now \in Nat /\ expires[k] \in Nat
    BY TimesAreNumbers
  <2>4. lastRight[k][cache[k].value] \in Nat
    BY <2>2 DEF KeyTypeOK, Never
  <2>5. /\ lastRight[k][cache[k].value] # Never
        /\ cache[k].until <= lastRight[k][cache[k].value] + TTL + Lag
        /\ cache[k].value # Refused => cache[k].until < expires[k] + TTL
    BY <1>1 DEF Hit, Fresh, CacheInv
  <2> QED BY <2>1, <2>2, <2>3, <2>4, <2>5 DEF RightWithin
<1>2. CASE Decide(l)
  <2>1. key'[l] = key[l] /\ answer'[l] = Right(key[l], read[l], now)
    BY <1>2 DEF Decide, KeyTypeOK
  <2>2. now \in Nat /\ (key[l] \in Keys => expires[key[l]] \in Nat)
    BY TimesAreNumbers
  <2> QED BY <1>2, <2>1, <2>2, DecideRight DEF RightWithin
<1>3. (\E k \in Keys : Hit(l, k)) \/ Decide(l)
  <2>1. ASSUME NEW m \in Lookups, Lookup(m), m # l PROVE FALSE
    BY <2>1 DEF Lookup, Hit, Miss, Resolve, Decide, Fail, Return, Answered, KeyTypeOK
  <2>2. ASSUME Miss(l, key'[l]) \/ Resolve(l) \/ Fail(l) \/ Return(l) PROVE FALSE
    BY <2>2 DEF Miss, Resolve, Fail, Return, Answered, KeyTypeOK
  <2>3. ASSUME NEW k \in Keys, Miss(l, k) PROVE FALSE
    BY <2>3 DEF Miss, Answered, KeyTypeOK
  <2>4. ASSUME UNCHANGED at PROVE FALSE
    BY <2>4 DEF Answered
  <2> QED BY <2>1, <2>2, <2>3, <2>4 DEF KeyNext, keyVars, Lookup, Write, Tick
<1> QED BY <1>1, <1>2, <1>3

\* Type correctness of the key cache.
THEOREM KeysTypeCorrect == KeySpec => []KeyTypeOK
<1>1. KeyInv => KeyTypeOK
  BY DEF KeyInv
<1> QED BY <1>1, InvInit, InvStep, PTL DEF KeySpec

\* _TTLCache never holds more than maxsize keys.
THEOREM CacheStaysBounded == KeySpec => []CacheBounded
<1>1. KeyInv => CacheBounded
  BY DEF KeyInv
<1> QED BY <1>1, InvInit, InvStep, PTL DEF KeySpec

\* No request is answered with what was last right more than TTL + Lag ago.
THEOREM AnswersStayRecent == KeySpec => AnswersRecent
<1>1. KeyInv /\ [KeyNext]_keyVars =>
        [\A l \in Lookups : Answered(l) => RightWithin(key'[l], answer'[l], TTL + Lag)]_keyVars
  BY AnswerStep
<1> QED BY <1>1, InvInit, InvStep, PTL DEF KeySpec, AnswersRecent

\* No key is accepted TTL or more after its expiry.
THEOREM ExpiryIsBounded == KeySpec => ExpiryWithinTTL
<1>1. KeyInv /\ [KeyNext]_keyVars =>
        [\A l \in Lookups : Answered(l) /\ answer'[l] # Refused =>
           now < expires[key'[l]] + TTL]_keyVars
  BY AnswerStep
<1> QED BY <1>1, InvInit, InvStep, PTL DEF KeySpec, ExpiryWithinTTL
=============================================================================
