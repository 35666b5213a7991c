------------------------ MODULE CircuitBreakerProofs ------------------------
(* Theorems about CircuitBreaker, for any number of calls and any settings. *)
EXTENDS CircuitBreaker, FiniteSetTheorems, TLAPS

\* The breaker counts only calls whose failure it has been told of, and a
\* failure is not in the future.
CountsRealFailures ==
  /\ \A c \in failures : failedAt[c] # Never
  /\ \A c \in Calls : failedAt[c] # Never => failedAt[c] <= now
  /\ \A c \in Calls : call[c] \in {"idle", "primary"} => failedAt[c] = Never

BreakerInv == BreakerTypeOK /\ CountsRealFailures /\ ClosedBelowThreshold

\* The invariant holds initially.
LEMMA InvInitially == BreakerInit => BreakerInv
<1> SUFFICES ASSUME BreakerInit PROVE BreakerInv
  OBVIOUS
<1>1. BreakerTypeOK
  BY Settings DEF BreakerInit, BreakerTypeOK, Time
<1>2. CountsRealFailures
  BY DEF BreakerInit, CountsRealFailures
<1>3. ClosedBelowThreshold
  BY Settings, FS_EmptySet DEF BreakerInit, ClosedBelowThreshold
<1> QED BY <1>1, <1>2, <1>3 DEF BreakerInv

\* Every step preserves it.
LEMMA InvPreserved == BreakerInv /\ [BreakerNext]_breakerVars => BreakerInv'
<1> SUFFICES ASSUME BreakerInv, [BreakerNext]_breakerVars PROVE BreakerInv'
  OBVIOUS
<1> USE Settings DEF BreakerInv, breaker
<1>1. ASSUME NEW c \in Calls, Begin(c) PROVE BreakerInv'
  <2>1. BreakerTypeOK'
    BY <1>1 DEF Begin, BreakerTypeOK
  <2>2. CountsRealFailures'
    BY <1>1 DEF Begin, BreakerTypeOK, CountsRealFailures
  <2>3. ClosedBelowThreshold'
    BY <1>1 DEF Begin, ClosedBelowThreshold
  <2> QED BY <2>1, <2>2, <2>3
<1>2. ASSUME NEW c \in Calls, PrimaryFails(c) PROVE BreakerInv'
  <2>1. BreakerTypeOK'
    BY <1>2 DEF PrimaryFails, Recent, BreakerTypeOK, Time
  <2>2. CountsRealFailures'
    BY <1>2 DEF PrimaryFails, Recent, BreakerTypeOK, Time, CountsRealFailures
  <2>3. ClosedBelowThreshold'
    <3>1. IsFiniteSet(failures')
      BY <2>1, FiniteCalls, FS_Subset DEF BreakerTypeOK
    <3>2. Cardinality(failures') \in Nat
      BY <3>1, FS_CardinalityType
    <3> QED BY <1>2, <3>2 DEF PrimaryFails, BreakerTypeOK, Time, ClosedBelowThreshold
  <2> QED BY <2>1, <2>2, <2>3
<1>3. ASSUME NEW c \in Calls, PrimarySucceeds(c) PROVE BreakerInv'
  <2>1. BreakerTypeOK'
    BY <1>3 DEF PrimarySucceeds, BreakerTypeOK
  <2>2. CountsRealFailures'
    BY <1>3 DEF PrimarySucceeds, BreakerTypeOK, CountsRealFailures
  <2>3. ClosedBelowThreshold'
    BY <1>3, FS_EmptySet DEF PrimarySucceeds, ClosedBelowThreshold
  <2> QED BY <2>1, <2>2, <2>3
<1>4. ASSUME NEW c \in Calls, Fallback(c) PROVE BreakerInv'
  <2>1. BreakerTypeOK'
    BY <1>4 DEF Fallback, BreakerTypeOK
  <2>2. CountsRealFailures'
    BY <1>4 DEF Fallback, BreakerTypeOK, CountsRealFailures
  <2>3. ClosedBelowThreshold'
    BY <1>4 DEF Fallback, ClosedBelowThreshold
  <2> QED BY <2>1, <2>2, <2>3
<1>5. CASE Tick
  <2>1. BreakerTypeOK'
    BY <1>5 DEF Tick, BreakerTypeOK, Time
  <2>2. CountsRealFailures'
    BY <1>5 DEF Tick, BreakerTypeOK, Time, CountsRealFailures
  <2>3. ClosedBelowThreshold'
    BY <1>5 DEF Tick, ClosedBelowThreshold
  <2> QED BY <2>1, <2>2, <2>3
<1>6. CASE UNCHANGED breakerVars
  BY <1>6 DEF breakerVars, BreakerTypeOK, CountsRealFailures, ClosedBelowThreshold
<1> QED BY <1>1, <1>2, <1>3, <1>4, <1>5, <1>6 DEF BreakerNext

\* So it holds in every state of every behaviour.
LEMMA BreakerAlways == BreakerSpec => []BreakerInv
BY InvInitially, InvPreserved, PTL DEF BreakerSpec

\* Every variable keeps its type: what is recorded lies in the past.
THEOREM BreakerTypeCorrect == BreakerSpec => []BreakerTypeOK
BY BreakerAlways, PTL DEF BreakerInv

\* Whatever calls overlap, the breaker is never closed with the threshold
\* reached: a call that began before it opened or closed cannot leave it so.
THEOREM ClosedStaysBelowThreshold == BreakerSpec => []ClosedBelowThreshold
BY BreakerAlways, PTL DEF BreakerInv

\* The failures counted when the breaker opens all happened inside the window.
LEMMA OpeningStep == BreakerInv /\ [BreakerNext]_breakerVars =>
  (openedAt = Never /\ openedAt' # Never =>
     \E c \in Calls : failedAt[c] = Never /\ failedAt'[c] = now
                       /\ Cardinality(Burst \cup {c}) >= Threshold)
<1> SUFFICES ASSUME BreakerInv, [BreakerNext]_breakerVars, openedAt = Never, openedAt' # Never
             PROVE  \E c \in Calls : failedAt[c] = Never /\ failedAt'[c] = now
                                      /\ Cardinality(Burst \cup {c}) >= Threshold
  OBVIOUS
<1> USE Settings DEF BreakerInv, breaker
<1>1. PICK c \in Calls : PrimaryFails(c)
  BY DEF BreakerNext, breakerVars, Begin, PrimarySucceeds, Fallback, Tick
<1>2. failedAt[c] = Never /\ failedAt'[c] = now
  BY <1>1 DEF PrimaryFails, BreakerTypeOK, CountsRealFailures
<1>3. failures' \subseteq Burst \cup {c}
  BY <1>1, <1>2 DEF PrimaryFails, Recent, Burst, BreakerTypeOK, CountsRealFailures
<1>4. IsFiniteSet(Burst \cup {c})
  BY FiniteCalls, FS_Subset DEF Burst
<1>5. /\ Cardinality(failures') <= Cardinality(Burst \cup {c})
      /\ Cardinality(failures') \in Nat
      /\ Cardinality(Burst \cup {c}) \in Nat
  BY <1>3, <1>4, FS_Subset, FS_CardinalityType
<1>6. Cardinality(failures') >= Threshold
  BY <1>1 DEF PrimaryFails
<1>7. Cardinality(Burst \cup {c}) >= Threshold
  BY <1>5, <1>6
<1> QED BY <1>2, <1>7

\* The breaker opens only on a burst of failures inside the window.
THEOREM OpensOnlyOnBurst == BreakerSpec => OpensOnBurst
BY BreakerAlways, OpeningStep, PTL DEF BreakerSpec, OpensOnBurst

=============================================================================
