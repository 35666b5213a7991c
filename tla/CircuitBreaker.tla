--------------------------- MODULE CircuitBreaker ---------------------------
(***************************************************************************)
(* The circuit breaker before the primary LLM, as the extraction chains of *)
(* concurrent pipeline runs use it: ExtractionChain._invoke calls the      *)
(* primary model under the breaker and, on any exception, the fallback.    *)
(*                                                                         *)
(* The breaker's state is computed from the clock when a call begins; the  *)
(* outcome is recorded when the call ends, and between the two the breaker *)
(* may have opened, half-opened or closed.  The lock's critical sections   *)
(* contain no await, so recording is part of the call's last step.  A call *)
(* fails at most once, so the list of failure times is the set of calls    *)
(* whose failure it holds.                                                 *)
(***************************************************************************)
EXTENDS Naturals, FiniteSets

CONSTANTS
  Calls,     \* extractions that call the LLM
  Threshold, \* failure_threshold
  Window,    \* window_s
  Cooldown,  \* cooldown_s
  MaxTime,   \* how far the clock goes in this instance
  Never      \* no time

ASSUME FiniteCalls == IsFiniteSet(Calls)

ASSUME Settings ==
  /\ Threshold \in Nat \ {0}
  /\ Window \in Nat /\ Cooldown \in Nat /\ MaxTime \in Nat
  /\ Never \notin Nat

VARIABLES
  now,      \* time.monotonic()
  failures, \* CircuitBreaker._failures: the calls whose failure times it holds
  openedAt, \* CircuitBreaker._opened_at
  call,     \* where each extraction is
  failedAt  \* when a call of the primary model failed

breaker     == <<failures, openedAt>>
breakerVars == <<now, failures, openedAt, call, failedAt>>

Time == 0..MaxTime

BreakerTypeOK ==
  /\ now \in Time
  /\ failures \subseteq Calls
  /\ openedAt \in Time \cup {Never}
  /\ call \in [Calls -> {"idle", "primary", "fallback", "answered", "failed"}]
  /\ failedAt \in [Calls -> Time \cup {Never}]

BreakerInit ==
  /\ now = 0
  /\ failures = {}
  /\ openedAt = Never
  /\ call = [c \in Calls |-> "idle"]
  /\ failedAt = [c \in Calls |-> Never]

-----------------------------------------------------------------------------

\* state
State ==
  IF openedAt = Never THEN "closed"
  ELSE IF now - openedAt >= Cooldown THEN "half_open"
  ELSE "open"

\* call: while the breaker is open the primary model is not called, and the
\* CircuitOpenError sends the chain to the fallback.
Begin(c) ==
  /\ call[c] = "idle"
  /\ call' = [call EXCEPT ![c] = IF State = "open" THEN "fallback" ELSE "primary"]
  /\ UNCHANGED <<now, breaker, failedAt>>

\* Mutant of Recent: failures are not dropped when they leave the window.
RecentEver(S) == S

\* Those of S whose failure is inside the window.
Recent(S) == {c \in S : now - failedAt[c] < Window}

\* Mutant of PrimaryFails: the end of the cooldown is stored, not its start.
PrimaryFailsDeadline(c) ==
  /\ call[c] = "primary"
  /\ failures' = Recent(failures) \cup {c}
  /\ openedAt' = IF Cardinality(failures') >= Threshold /\ openedAt = Never
                   THEN now + Cooldown ELSE openedAt
  /\ failedAt' = [failedAt EXCEPT ![c] = now]
  /\ call' = [call EXCEPT ![c] = "fallback"]
  /\ UNCHANGED now

\* _record_failure, and the chain goes on to the fallback.
PrimaryFails(c) ==
  /\ call[c] = "primary"
  /\ failures' = Recent(failures) \cup {c}
  /\ openedAt' = IF Cardinality(failures') >= Threshold /\ openedAt = Never
                   THEN now ELSE openedAt
  /\ failedAt' = [failedAt EXCEPT ![c] = now]
  /\ call' = [call EXCEPT ![c] = "fallback"]
  /\ UNCHANGED now

\* Mutant of PrimarySucceeds: closing keeps the failures.
PrimarySucceedsKeeping(c) ==
  /\ call[c] = "primary"
  /\ openedAt' = Never
  /\ call' = [call EXCEPT ![c] = "answered"]
  /\ UNCHANGED <<now, failures, failedAt>>

\* _record_success: whichever call succeeds closes the breaker, also one that
\* began before it opened.
PrimarySucceeds(c) ==
  /\ call[c] = "primary"
  /\ failures' = {}
  /\ openedAt' = Never
  /\ call' = [call EXCEPT ![c] = "answered"]
  /\ UNCHANGED <<now, failedAt>>

\* The fallback model, without a breaker; its exception fails the extraction.
Fallback(c) ==
  /\ call[c] = "fallback"
  /\ \E end \in {"answered", "failed"} : call' = [call EXCEPT ![c] = end]
  /\ UNCHANGED <<now, breaker, failedAt>>

Tick ==
  /\ now < MaxTime
  /\ now' = now + 1
  /\ UNCHANGED <<breaker, call, failedAt>>

BreakerNext ==
  \/ Tick
  \/ \E c \in Calls : Begin(c) \/ PrimaryFails(c) \/ PrimarySucceeds(c) \/ Fallback(c)

BreakerSpec == BreakerInit /\ [][BreakerNext]_breakerVars

-----------------------------------------------------------------------------
(* Properties *)

\* A closed breaker is always short of the threshold, however many calls that
\* began before it opened or closed end afterwards.
ClosedBelowThreshold == openedAt = Never => Cardinality(failures) < Threshold

\* Calls of the primary model that failed inside the window that ends now.
Burst == {c \in Calls : failedAt[c] # Never /\ now - failedAt[c] < Window}

\* The breaker opens only on a burst: on a failure that reaches the threshold
\* together with those that happened inside the window.
OpensOnBurst ==
  [][openedAt = Never /\ openedAt' # Never =>
       \E c \in Calls : failedAt[c] = Never /\ failedAt'[c] = now
                         /\ Cardinality(Burst \cup {c}) >= Threshold]_breakerVars

\* What the breaker promises: a failure that reaches the threshold within the
\* window leaves it open.
BurstOpens ==
  [][\A c \in Calls :
       failedAt[c] # failedAt'[c] /\ Cardinality(failures') >= Threshold
         => State' = "open"]_breakerVars

=============================================================================
