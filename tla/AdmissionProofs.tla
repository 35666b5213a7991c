-------------------------- MODULE AdmissionProofs --------------------------
(***************************************************************************)
(* Theorems about Admission, for any numbers of uploads, retries and       *)
(* semaphores and any limits.  The limiter's theorems rest on counting the *)
(* uploads in flight; the pool's on every semaphore accounting for its     *)
(* permits, and on its queue holding exactly the jobs that wait for it.    *)
(* The last part carries them, and those about the breaker, over to Worker *)
(* and bounds the calls of the models there.                               *)
(***************************************************************************)
EXTENDS Worker, CircuitBreakerProofs, FiniteSetTheorems, TLAPS

\* The counter against what it counts.
SlotInv ==
  /\ inflight <= MaxQueue
  /\ NoSlotLeaked
  /\ Cardinality(Admitted) <= inflight + Cardinality(Retried)

\* Who is in a semaphore's queue.
QueueInv ==
  /\ \A s \in Sems : \A i \in 1..Len(waiters[s]) :
       pc[waiters[s][i]] = "waiting" /\ sem[waiters[s][i]] = s
  /\ \A s \in Sems : \A i, k \in 1..Len(waiters[s]) :
       waiters[s][i] = waiters[s][k] => i = k
  /\ \A j \in Jobs : pc[j] \in {"waiting", "running"} => sem[j] \in Sems

\* Nobody waits outside the queues.
WaitInv ==
  \A j \in Jobs : pc[j] = "waiting" =>
    \E i \in 1..Len(waiters[sem[j]]) : waiters[sem[j]][i] = j

\* Where a semaphore's permits are.
PermitInv ==
  /\ \A s \in Sems :
       /\ permits[s] + Cardinality(RunningOn(s)) = cap[s]
       /\ permits[s] > 0 \/ cap[s] = 0 => waiters[s] = <<>>
  /\ current # NoSem => cap[current] > 0

PoolInv == QueueInv /\ WaitInv /\ PermitInv

AdmissionInv == TypeOK /\ SlotInv /\ PoolInv

-----------------------------------------------------------------------------

\* The sets the counters count are finite.
LEMMA Finite ==
  /\ IsFiniteSet(Jobs)
  /\ IsFiniteSet(Admitted) /\ Cardinality(Admitted) \in Nat
  /\ IsFiniteSet(Retried) /\ Cardinality(Retried) \in Nat
  /\ \A s : IsFiniteSet(RunningOn(s)) /\ Cardinality(RunningOn(s)) \in Nat
<1>1. IsFiniteSet(Jobs)
  BY FiniteJobs, FS_Union DEF Jobs
<1>2. /\ Admitted \subseteq Jobs /\ Retried \subseteq Jobs
      /\ \A s : RunningOn(s) \subseteq Jobs
  BY DEF Admitted, Retried, RunningOn, Jobs
<1> QED BY <1>1, <1>2, FS_Subset, FS_CardinalityType

\* The first of a queue waits for it, and what remains of the queue.
LEMMA FirstWaiter ==
  ASSUME TypeOK, QueueInv, NEW s \in Sems, waiters[s] # <<>>
  PROVE  /\ Head(waiters[s]) \in Jobs
         /\ pc[Head(waiters[s])] = "waiting"
         /\ sem[Head(waiters[s])] = s
         /\ Tail(waiters[s]) \in Seq(Jobs)
         /\ Len(Tail(waiters[s])) = Len(waiters[s]) - 1
         /\ \A i \in 1..Len(Tail(waiters[s])) :
              /\ Tail(waiters[s])[i] = waiters[s][i+1]
              /\ Tail(waiters[s])[i] # Head(waiters[s])
<1>1. waiters[s] \in Seq(Jobs) /\ Len(waiters[s]) \in Nat \ {0} /\ Head(waiters[s]) = waiters[s][1]
  BY DEF TypeOK
<1>2. 1 \in 1..Len(waiters[s])
  BY <1>1
<1>3. /\ Tail(waiters[s]) \in Seq(Jobs)
      /\ Len(Tail(waiters[s])) = Len(waiters[s]) - 1
      /\ \A i \in 1..Len(Tail(waiters[s])) : Tail(waiters[s])[i] = waiters[s][i+1]
  BY <1>1
<1>4. \A i \in 1..Len(Tail(waiters[s])) : Tail(waiters[s])[i] # Head(waiters[s])
  <2> SUFFICES ASSUME NEW i \in 1..Len(Tail(waiters[s]))
               PROVE  Tail(waiters[s])[i] # Head(waiters[s])
    OBVIOUS
  <2>1. i+1 \in 1..Len(waiters[s]) /\ i+1 # 1
    BY <1>1, <1>3
  <2> QED BY <1>1, <1>2, <1>3, <2>1 DEF QueueInv
<1> QED BY <1>1, <1>2, <1>3, <1>4 DEF QueueInv

-----------------------------------------------------------------------------
(* The limiter *)

\* A step that neither admits nor ends anything.
LEMMA SlotsQuiet ==
  ASSUME SlotInv, UNCHANGED inflight, Admitted' = Admitted, Retried' = Retried
  PROVE  SlotInv'
BY DEF SlotInv, NoSlotLeaked

\* An upload is admitted: it takes a slot.
LEMMA SlotsAdmit ==
  ASSUME TypeOK, SlotInv, NEW u \in Uploads, Admit(u)
  PROVE  SlotInv'
<1> USE PositiveLimits DEF SlotInv, NoSlotLeaked
<1>1. Admitted' = Admitted \cup {u} /\ u \notin Admitted
  BY DEF Admit, TypeOK, Admitted, Jobs
<1>2. Retried' = Retried
  BY FiniteJobs DEF Admit, TypeOK, Retried, Jobs
<1>3. Cardinality(Admitted') = Cardinality(Admitted) + 1
  BY <1>1, Finite, FS_AddElement
<1> QED BY <1>2, <1>3, Finite DEF Admit, TypeOK

\* An upload in flight ends.
LEMMA SlotsEnd ==
  ASSUME TypeOK, SlotInv, NEW u \in Uploads, u \in Admitted, inflight' = Released,
         Admitted' = Admitted \ {u}, Retried' = Retried
  PROVE  SlotInv'
<1> USE PositiveLimits DEF SlotInv, NoSlotLeaked
<1>1. Cardinality(Admitted') = Cardinality(Admitted) - 1
  BY Finite, FS_RemoveElement
<1>2. Cardinality(Admitted) >= 1
  BY <1>1, Finite, FS_RemoveElement, FS_CardinalityType, FS_Subset
<1> QED BY <1>1, <1>2, Finite DEF Released, TypeOK

\* A retried run ends: what it gives back was not its own.
LEMMA SlotsRetried ==
  ASSUME TypeOK, SlotInv, NEW q \in Retries, q \notin Retried, inflight' = Released,
         Admitted' = Admitted, Retried' = Retried \cup {q}
  PROVE  SlotInv'
<1> USE PositiveLimits DEF SlotInv, NoSlotLeaked
<1>1. Cardinality(Retried') = Cardinality(Retried) + 1
  BY Finite, FS_AddElement
<1> QED BY <1>1, Finite DEF Released, TypeOK
-----------------------------------------------------------------------------
(* The pool *)

\* A step that starts and ends no job and touches no semaphore.
LEMMA PoolQuiet ==
  ASSUME TypeOK, PoolInv, NEW j \in Jobs, pc[j] \in {"idle", "admitted"},
         \E step : step \notin {"waiting", "running"} /\ pc' = [pc EXCEPT ![j] = step],
         UNCHANGED pool
  PROVE  PoolInv'
<1> USE DEF pool, PoolInv
<1>1. \A k \in Jobs : pc'[k] \in {"waiting", "running"} <=> pc[k] \in {"waiting", "running"}
  BY DEF TypeOK
<1>2. \A k \in Jobs : pc[k] \in {"waiting", "running"} => pc'[k] = pc[k]
  BY DEF TypeOK
<1>3. \A s : RunningOn(s)' = RunningOn(s)
  BY <1>1, <1>2 DEF RunningOn
<1>4. QueueInv'
  <2>1. \A s \in Sems : \A i \in 1..Len(waiters[s]) : waiters[s][i] \in Jobs
    BY DEF TypeOK
  <2> QED BY <1>1, <1>2, <2>1 DEF QueueInv
<1>5. PermitInv'
  BY <1>3 DEF PermitInv
<1>6. WaitInv'
  BY <1>1, <1>2 DEF WaitInv
<1> QED BY <1>4, <1>5, <1>6

\* A queued job takes a permit or joins the queue of semaphore s, which may have
\* been created for it.
LEMMA PoolAcquires ==
  ASSUME TypeOK, PoolInv, NEW j \in Jobs, pc[j] = "queued",
         NEW s \in Sems, NEW free \in Nat, Acquire(j, s, free),
         free + Cardinality(RunningOn(s)) = cap'[s], cap'[s] > 0,
         IF free > 0 THEN waiters[s] = <<>> ELSE permits[s] = 0,
         \A r \in Sems \ {s} : cap'[r] = cap[r],
         current' = s
  PROVE  PoolInv'
<1> USE DEF PoolInv
<1>1. \A k \in Jobs \ {j} : pc'[k] = pc[k] /\ sem'[k] = sem[k]
  BY DEF Acquire, TypeOK
<1>2. sem'[j] = s
  BY DEF Acquire, TypeOK
<1>3. \A r \in Sems : \A i \in 1..Len(waiters[r]) : waiters[r][i] \in Jobs \ {j}
  BY DEF TypeOK, QueueInv
<1>4. \A r \in Sems \ {s} : RunningOn(r)' = RunningOn(r)
  BY <1>1, <1>2 DEF RunningOn
<1>5. j \notin RunningOn(s)
  BY DEF RunningOn
<1>6. CASE free > 0
  <2>1. pc'[j] = "running" /\ waiters' = waiters /\ permits'[s] = free - 1
        /\ \A r \in Sems \ {s} : permits'[r] = permits[r]
    BY <1>6 DEF Acquire, TypeOK
  <2>2. RunningOn(s)' = RunningOn(s) \cup {j}
    BY <1>1, <1>2, <2>1 DEF RunningOn
  <2>3. Cardinality(RunningOn(s)') = Cardinality(RunningOn(s)) + 1
    BY <1>5, <2>2, Finite, FS_AddElement
  <2>4. PermitInv'
    BY <1>4, <1>6, <2>1, <2>3, Finite DEF PermitInv
  <2>5. QueueInv'
    BY <1>1, <1>2, <1>3, <2>1 DEF QueueInv
  <2>6. WaitInv'
    BY <1>1, <2>1 DEF WaitInv
  <2> QED BY <2>4, <2>5, <2>6
<1>7. CASE free = 0
  <2>1. /\ pc'[j] = "waiting" /\ permits' = permits
        /\ waiters'[s] = Append(waiters[s], j)
        /\ \A r \in Sems \ {s} : waiters'[r] = waiters[r]
    BY <1>7 DEF Acquire, TypeOK
  <2>2. RunningOn(s)' = RunningOn(s)
    BY <1>1, <1>2, <2>1 DEF RunningOn
  <2>3. waiters[s] \in Seq(Jobs)
    BY DEF TypeOK
  <2>4. /\ Len(waiters'[s]) = Len(waiters[s]) + 1
        /\ \A i \in 1..Len(waiters[s]) : waiters'[s][i] = waiters[s][i]
        /\ waiters'[s][Len(waiters[s]) + 1] = j
        /\ Len(waiters[s]) \in Nat
    BY <2>1, <2>3
  <2>5. QueueInv'
    <3>1. ASSUME NEW r \in Sems, NEW i \in 1..Len(waiters'[r])
          PROVE  pc'[waiters'[r][i]] = "waiting" /\ sem'[waiters'[r][i]] = r
      <4>1. CASE r # s
        BY <1>1, <1>3, <2>1, <3>1, <4>1 DEF QueueInv
      <4>2. CASE r = s /\ i = Len(waiters[s]) + 1
        BY <1>2, <2>1, <2>4, <4>2
      <4>3. CASE r = s /\ i # Len(waiters[s]) + 1
        <5>1. i \in 1..Len(waiters[s])
          BY <2>4, <3>1, <4>3
        <5> QED BY <1>1, <1>3, <2>4, <4>3, <5>1 DEF QueueInv
      <4> QED BY <4>1, <4>2, <4>3
    <3>2. ASSUME NEW r \in Sems, NEW i \in 1..Len(waiters'[r]), NEW k \in 1..Len(waiters'[r]),
                 waiters'[r][i] = waiters'[r][k]
          PROVE  i = k
      <4>1. CASE r # s
        BY <2>1, <3>2, <4>1 DEF QueueInv
      <4>2. CASE r = s
        <5>1. /\ i \in 1..Len(waiters[s]) \/ i = Len(waiters[s]) + 1
              /\ k \in 1..Len(waiters[s]) \/ k = Len(waiters[s]) + 1
          BY <2>4, <3>2, <4>2
        <5>2. \A n \in 1..Len(waiters[s]) : waiters'[s][n] # j
          BY <1>3, <2>4
        <5>3. CASE i \in 1..Len(waiters[s]) /\ k \in 1..Len(waiters[s])
          <6>1. waiters[s][i] = waiters[s][k]
            BY <2>4, <3>2, <4>2, <5>3
          <6> QED BY <5>3, <6>1 DEF QueueInv
        <5>4. CASE i = Len(waiters[s]) + 1 \/ k = Len(waiters[s]) + 1
          <6>1. waiters'[s][i] = j /\ waiters'[s][k] = j
            BY <2>4, <3>2, <4>2, <5>4
          <6> QED BY <5>1, <5>2, <6>1
        <5> QED BY <5>1, <5>3, <5>4
      <4> QED BY <4>1, <4>2
    <3>3. \A k \in Jobs : pc'[k] \in {"waiting", "running"} => sem'[k] \in Sems
      BY <1>1, <1>2 DEF QueueInv
    <3> QED BY <3>1, <3>2, <3>3 DEF QueueInv
  <2>6. PermitInv'
    BY <1>4, <1>7, <2>1, <2>2 DEF PermitInv
  <2>7. WaitInv'
    <3> SUFFICES ASSUME NEW k \in Jobs, pc'[k] = "waiting"
                 PROVE  \E i \in 1..Len(waiters'[sem'[k]]) : waiters'[sem'[k]][i] = k
      BY DEF WaitInv
    <3>1. CASE k = j
      <4>1. Len(waiters[s]) + 1 \in 1..Len(waiters'[s])
        BY <2>4
      <4> QED BY <1>2, <2>4, <3>1, <4>1
    <3>2. CASE k # j
      <4>1. pc[k] = "waiting" /\ sem'[k] = sem[k] /\ sem[k] \in Sems
        BY <1>1, <3>2 DEF QueueInv
      <4>2. PICK i \in 1..Len(waiters[sem[k]]) : waiters[sem[k]][i] = k
        BY <4>1 DEF WaitInv
      <4>3. i \in 1..Len(waiters'[sem[k]]) /\ waiters'[sem[k]][i] = k
        BY <2>1, <2>4, <4>1, <4>2
      <4> QED BY <4>1, <4>3
    <3> QED BY <3>1, <3>2
  <2> QED BY <2>5, <2>6, <2>7
<1> QED BY <1>6, <1>7

\* A running job gives its permit back, or to the first of the queue.
LEMMA PoolReleases ==
  ASSUME TypeOK, PoolInv, NEW j \in Jobs, pc[j] = "running",
         NEW s \in Sems, sem[j] = s, Release(j, s),
         UNCHANGED <<limit, current, cap, sem>>
  PROVE  PoolInv'
<1> USE DEF PoolInv
<1> DEFINE h == Head(waiters[s])
<1>1. j \in RunningOn(s)
  BY DEF RunningOn
<1> HIDE DEF h
<1>2. \A r \in Sems : \A i \in 1..Len(waiters[r]) : waiters[r][i] \in Jobs \ {j}
  BY DEF TypeOK, QueueInv
<1>3. CASE waiters[s] = <<>>
  <2>1. /\ pc' = [pc EXCEPT ![j] = "done"]
        /\ permits' = [permits EXCEPT ![s] = permits[s] + 1] /\ waiters' = waiters
    BY <1>3 DEF Release
  <2>2. \A k \in Jobs \ {j} : pc'[k] = pc[k]
    BY <2>1 DEF TypeOK
  <2>3. pc'[j] = "done"
    BY <2>1 DEF TypeOK
  <2>4. QueueInv'
    BY <1>2, <2>1, <2>2, <2>3 DEF QueueInv
  <2>5. WaitInv'
    BY <2>1, <2>2, <2>3 DEF WaitInv
  <2>6. PermitInv'
    <3>1. RunningOn(s)' = RunningOn(s) \ {j}
      BY <2>2, <2>3 DEF RunningOn
    <3>2. Cardinality(RunningOn(s)') = Cardinality(RunningOn(s)) - 1
      BY <1>1, <3>1, Finite, FS_RemoveElement
    <3>3. \A r \in Sems \ {s} : RunningOn(r)' = RunningOn(r) /\ permits'[r] = permits[r]
      BY <2>1, <2>2, <2>3 DEF RunningOn, TypeOK
    <3>4. permits'[s] = permits[s] + 1 /\ permits[s] \in Nat
      BY <2>1 DEF TypeOK
    <3>5. \A r \in Sems : permits'[r] + Cardinality(RunningOn(r)') = cap[r]
      BY <3>2, <3>3, <3>4, Finite DEF PermitInv
    <3>6. \A r \in Sems : permits'[r] > 0 \/ cap[r] = 0 => waiters[r] = <<>>
      BY <1>3, <3>3 DEF PermitInv
    <3> QED BY <2>1, <3>5, <3>6 DEF PermitInv
  <2> QED BY <2>4, <2>5, <2>6
<1>4. CASE waiters[s] # <<>>
  <2>1. /\ pc' = [pc EXCEPT ![j] = "done", ![h] = "running"]
        /\ waiters' = [waiters EXCEPT ![s] = Tail(waiters[s])] /\ permits' = permits
    BY <1>4 DEF Release, h
  <2>2. /\ h \in Jobs /\ pc[h] = "waiting" /\ sem[h] = s
        /\ Tail(waiters[s]) \in Seq(Jobs)
        /\ Len(Tail(waiters[s])) = Len(waiters[s]) - 1
        /\ \A i \in 1..Len(Tail(waiters[s])) :
             /\ Tail(waiters[s])[i] = waiters[s][i+1]
             /\ Tail(waiters[s])[i] # h
    BY <1>4, FirstWaiter DEF h
  <2>3. \A k \in Jobs \ {j, h} : pc'[k] = pc[k]
    BY <2>1 DEF TypeOK
  <2>4. pc'[j] = "done" /\ pc'[h] = "running" /\ h # j
    BY <2>1, <2>2 DEF TypeOK
  <2>5. waiters'[s] = Tail(waiters[s]) /\ \A r \in Sems \ {s} : waiters'[r] = waiters[r]
    BY <2>1 DEF TypeOK
  <2>6. waiters[s] \in Seq(Jobs) /\ Len(waiters[s]) \in Nat \ {0} /\ h = waiters[s][1]
    BY <1>4 DEF TypeOK, h
  <2>7. QueueInv'
    <3>1. ASSUME NEW r \in Sems, NEW i \in 1..Len(waiters'[r])
          PROVE  pc'[waiters'[r][i]] = "waiting" /\ sem[waiters'[r][i]] = r
      <4>1. CASE r # s
        <5>1. waiters[r][i] \in Jobs \ {j, h} /\ waiters'[r][i] = waiters[r][i]
              /\ i \in 1..Len(waiters[r])
          BY <1>2, <2>2, <2>5, <3>1, <4>1 DEF QueueInv
        <5> QED BY <2>3, <5>1 DEF QueueInv
      <4>2. CASE r = s
        <5>0. i \in 1..Len(Tail(waiters[s]))
          BY <2>5, <3>1, <4>2
        <5>1. waiters'[s][i] = waiters[s][i+1] /\ waiters'[s][i] # h /\ i+1 \in 1..Len(waiters[s])
          BY <2>2, <2>5, <2>6, <5>0
        <5> QED BY <1>2, <2>3, <4>2, <5>1 DEF QueueInv
      <4> QED BY <4>1, <4>2
    <3>2. ASSUME NEW r \in Sems, NEW i \in 1..Len(waiters'[r]), NEW k \in 1..Len(waiters'[r]),
                 waiters'[r][i] = waiters'[r][k]
          PROVE  i = k
      <4>1. CASE r # s
        BY <2>5, <3>2, <4>1 DEF QueueInv
      <4>2. CASE r = s
        <5>0. /\ i \in 1..Len(Tail(waiters[s])) /\ k \in 1..Len(Tail(waiters[s]))
              /\ Tail(waiters[s])[i] = Tail(waiters[s])[k]
          BY <2>5, <3>2, <4>2
        <5>1. /\ i+1 \in 1..Len(waiters[s]) /\ k+1 \in 1..Len(waiters[s])
              /\ waiters[s][i+1] = waiters[s][k+1]
          BY <2>2, <2>6, <5>0
        <5>2. i+1 = k+1
          BY <5>1 DEF QueueInv
        <5> QED BY <3>2, <5>2
      <4> QED BY <4>1, <4>2
    <3>3. \A k \in Jobs : pc'[k] \in {"waiting", "running"} => sem[k] \in Sems
      BY <2>2, <2>3, <2>4 DEF QueueInv
    <3> QED BY <3>1, <3>2, <3>3 DEF QueueInv
  <2>8. WaitInv'
    <3> SUFFICES ASSUME NEW k \in Jobs, pc'[k] = "waiting"
                 PROVE  \E i \in 1..Len(waiters'[sem[k]]) : waiters'[sem[k]][i] = k
      BY DEF WaitInv
    <3>1. k # h /\ pc[k] = "waiting" /\ sem[k] \in Sems
      BY <2>3, <2>4 DEF QueueInv
    <3>2. PICK i \in 1..Len(waiters[sem[k]]) : waiters[sem[k]][i] = k
      BY <3>1 DEF WaitInv
    <3>3. CASE sem[k] # s
      BY <2>5, <3>1, <3>2, <3>3
    <3>4. CASE sem[k] = s
      <4>1. i - 1 \in 1..Len(Tail(waiters[s]))
        BY <2>2, <2>6, <3>1, <3>2, <3>4
      <4>2. Tail(waiters[s])[i-1] = waiters[s][i-1+1] /\ i-1+1 = i
        BY <2>2, <3>2, <4>1
      <4> QED BY <2>5, <3>2, <3>4, <4>1, <4>2
    <3> QED BY <3>3, <3>4
  <2>9. PermitInv'
    <3>1. RunningOn(s)' = (RunningOn(s) \ {j}) \cup {h}
      BY <2>2, <2>3, <2>4 DEF RunningOn
    <3>2. h \notin RunningOn(s)
      BY <2>2 DEF RunningOn
    <3>3. /\ IsFiniteSet(RunningOn(s) \ {j})
          /\ Cardinality(RunningOn(s) \ {j}) = Cardinality(RunningOn(s)) - 1
      BY <1>1, Finite, FS_RemoveElement
    <3>4. Cardinality(RunningOn(s)') = Cardinality(RunningOn(s) \ {j}) + 1
      BY <3>1, <3>2, <3>3, FS_AddElement
    <3>5. Cardinality(RunningOn(s)') = Cardinality(RunningOn(s))
      BY <3>3, <3>4, Finite
    <3>6. \A r \in Sems \ {s} : RunningOn(r)' = RunningOn(r)
      BY <2>2, <2>3, <2>4 DEF RunningOn
    <3>7. \A r \in Sems : permits[r] > 0 \/ cap[r] = 0 => waiters'[r] = <<>>
      BY <1>4, <2>5 DEF PermitInv
    <3>8. \A r \in Sems : permits[r] + Cardinality(RunningOn(r)') = cap[r]
      BY <3>5, <3>6 DEF PermitInv
    <3> QED BY <2>1, <3>7, <3>8 DEF PermitInv
  <2> QED BY <2>7, <2>8, <2>9
<1> QED BY <1>3, <1>4

\* The current semaphore is dropped; those that use it keep it.
LEMMA PoolForgets ==
  ASSUME PoolInv, UNCHANGED <<cap, permits, waiters, pc, sem>>, current' = NoSem
  PROVE  PoolInv'
<1>1. \A s : RunningOn(s)' = RunningOn(s)
  BY DEF RunningOn
<1> QED BY <1>1 DEF PoolInv, QueueInv, WaitInv, PermitInv

-----------------------------------------------------------------------------
(* Every step *)

\* What the end of a job does to the steps of the jobs.
LEMMA FinishSteps ==
  ASSUME TypeOK, QueueInv, NEW j \in Jobs, Finish(j)
  PROVE  /\ pc' \in [Jobs -> Steps] /\ pc'[j] = "done"
         /\ \A k \in Jobs \ {j} : pc'[k] = pc[k] \/ (pc[k] = "waiting" /\ pc'[k] = "running")
<1>1. sem[j] \in Sems
  BY DEF QueueInv, Finish
<1>2. Release(j, sem[j])
  BY DEF Finish
<1>3. CASE waiters[sem[j]] = <<>>
  BY <1>2, <1>3 DEF Release, TypeOK, Steps
<1>4. CASE waiters[sem[j]] # <<>>
  <2>1. /\ Head(waiters[sem[j]]) \in Jobs
        /\ pc[Head(waiters[sem[j]])] = "waiting"
        /\ pc[j] = "running"
    BY <1>1, <1>4, FirstWaiter DEF Finish
  <2>2. pc' = [pc EXCEPT ![j] = "done", ![Head(waiters[sem[j]])] = "running"]
    BY <1>2, <1>4 DEF Release
  <2> QED BY <2>1, <2>2 DEF TypeOK, Steps
<1> QED BY <1>3, <1>4

\* What acquiring a permit does to the pool's types.
LEMMA AcquireTypes ==
  ASSUME TypeOK, NEW j \in Jobs, NEW s \in Sems, NEW free \in Nat, Acquire(j, s, free)
  PROVE  /\ permits' \in [Sems -> Nat] /\ waiters' \in [Sems -> Seq(Jobs)]
         /\ pc' \in [Jobs -> Steps] /\ sem' \in [Jobs -> Sems \cup {NoSem}]
<1>1. Append(waiters[s], j) \in Seq(Jobs)
  BY DEF TypeOK
<1>2. sem' \in [Jobs -> Sems \cup {NoSem}]
  BY DEF Acquire, TypeOK
<1>3. CASE free > 0
  <2>1. free - 1 \in Nat
    BY <1>3
  <2>2. permits' = [permits EXCEPT ![s] = free - 1] /\ pc' = [pc EXCEPT ![j] = "running"]
        /\ waiters' = waiters
    BY <1>3 DEF Acquire
  <2>3. permits' \in [Sems -> Nat]
    BY <2>1, <2>2 DEF TypeOK
  <2> QED BY <1>2, <2>2, <2>3 DEF TypeOK, Steps
<1>4. CASE ~(free > 0)
  BY <1>1, <1>2, <1>4 DEF Acquire, TypeOK, Steps
<1> QED BY <1>3, <1>4

\* Every step keeps the types.
LEMMA TypeStep ==
  ASSUME TypeOK, QueueInv, PermitInv, Next
  PROVE  TypeOK'
<1> USE PositiveLimits, SomeSem
<1>1. ASSUME NEW u \in Uploads, Admit(u) \/ UploadFails(u) \/ UploadEnqueues(u)
      PROVE  TypeOK'
  <2>1. CASE Admit(u)
    BY <2>1 DEF Admit, TypeOK, Steps, Jobs, pool
  <2>2. CASE UploadFails(u)
    <3>1. Released \in Nat
      BY DEF Released, TypeOK
    <3> QED BY <2>2, <3>1 DEF UploadFails, TypeOK, Steps, Jobs, pool
  <2>3. CASE UploadEnqueues(u)
    BY <2>3 DEF UploadEnqueues, TypeOK, Steps, Jobs, pool, limiter
  <2> QED BY <1>1, <2>1, <2>2, <2>3
<1>2. ASSUME NEW q \in Retries, RetryEnqueues(q)
      PROVE  TypeOK'
  BY <1>2 DEF RetryEnqueues, TypeOK, Steps, Jobs, pool, limiter
<1>3. ASSUME NEW j \in Jobs, Submit(j)
      PROVE  TypeOK'
  <2>1. UNCHANGED <<inflight, limit>>
    BY <1>3 DEF Submit, limiter
  <2>2. CASE current # NoSem /\ Acquire(j, current, permits[current]) /\ UNCHANGED <<current, cap>>
    <3>1. current \in Sems /\ permits[current] \in Nat
      BY <2>2 DEF TypeOK
    <3>2. /\ permits' \in [Sems -> Nat] /\ waiters' \in [Sems -> Seq(Jobs)]
         /\ pc' \in [Jobs -> Steps] /\ sem' \in [Jobs -> Sems \cup {NoSem}]
      BY <2>2, <3>1, AcquireTypes
    <3> QED BY <2>1, <2>2, <3>2 DEF TypeOK
  <2>3. ASSUME NEW s \in Sems, current' = s, cap' = [cap EXCEPT ![s] = limit], Acquire(j, s, limit)
        PROVE  TypeOK'
    <3>1. /\ permits' \in [Sems -> Nat] /\ waiters' \in [Sems -> Seq(Jobs)]
         /\ pc' \in [Jobs -> Steps] /\ sem' \in [Jobs -> Sems \cup {NoSem}]
      BY <2>3, AcquireTypes DEF TypeOK
    <3> QED BY <2>1, <2>3, <3>1 DEF TypeOK
  <2> QED BY <1>3, <2>2, <2>3 DEF Submit
<1>4. ASSUME NEW j \in Jobs, Finish(j)
      PROVE  TypeOK'
  <2>1. sem[j] \in Sems /\ Release(j, sem[j])
    BY <1>4 DEF QueueInv, Finish
  <2>2. pc' \in [Jobs -> Steps]
    BY <1>4, FinishSteps
  <2>3. waiters' \in [Sems -> Seq(Jobs)] /\ permits' \in [Sems -> Nat]
    <3>1. CASE waiters[sem[j]] = <<>>
      BY <2>1, <3>1 DEF Release, TypeOK
    <3>2. CASE waiters[sem[j]] # <<>>
      <4>1. Tail(waiters[sem[j]]) \in Seq(Jobs)
        BY <2>1, <3>2, FirstWaiter
      <4> QED BY <2>1, <3>2, <4>1 DEF Release, TypeOK
    <3> QED BY <3>1, <3>2
  <2> QED BY <1>4, <2>2, <2>3 DEF Finish, Released, TypeOK
<1>5. ASSUME NEW n \in Limits, SetLimit(n)
      PROVE  TypeOK'
  BY <1>5 DEF SetLimit, TypeOK, limiter
<1> QED BY <1>1, <1>2, <1>3, <1>4, <1>5 DEF Next

\* Every step keeps what relates the counter to the jobs it counts.
LEMMA SlotStep ==
  ASSUME TypeOK, SlotInv, QueueInv, Next
  PROVE  SlotInv'
<1> USE FiniteJobs DEF Jobs, TypeOK
<1>1. ASSUME NEW u \in Uploads, Admit(u)
      PROVE  SlotInv'
  BY <1>1, SlotsAdmit
<1>2. ASSUME NEW u \in Uploads, UploadFails(u)
      PROVE  SlotInv'
  <2>1. u \in Admitted /\ Admitted' = Admitted \ {u}
    BY <1>2 DEF UploadFails, Admitted
  <2>2. Retried' = Retried
    BY <1>2 DEF UploadFails, Retried
  <2> QED BY <1>2, <2>1, <2>2, SlotsEnd DEF UploadFails
<1>3. ASSUME NEW u \in Uploads, UploadEnqueues(u)
      PROVE  SlotInv'
  <2>1. Admitted' = Admitted /\ Retried' = Retried
    BY <1>3 DEF UploadEnqueues, Admitted, Retried
  <2> QED BY <1>3, <2>1, SlotsQuiet DEF UploadEnqueues, limiter
<1>4. ASSUME NEW q \in Retries, RetryEnqueues(q)
      PROVE  SlotInv'
  <2>1. Admitted' = Admitted /\ Retried' = Retried
    BY <1>4 DEF RetryEnqueues, Admitted, Retried
  <2> QED BY <1>4, <2>1, SlotsQuiet DEF RetryEnqueues, limiter
<1>5. ASSUME NEW j \in Jobs, Submit(j)
      PROVE  SlotInv'
  <2>1. pc[j] = "queued" /\ UNCHANGED inflight
    BY <1>5 DEF Submit, limiter
  <2>2. pc'[j] \in {"running", "waiting"} /\ \A k \in Jobs \ {j} : pc'[k] = pc[k]
    BY <1>5 DEF Submit, Acquire
  <2>3. Admitted' = Admitted /\ Retried' = Retried
    BY <2>1, <2>2 DEF Admitted, Retried
  <2> QED BY <2>1, <2>3, SlotsQuiet
<1>6. ASSUME NEW j \in Jobs, Finish(j)
      PROVE  SlotInv'
  <2>1. /\ pc'[j] = "done"
        /\ \A k \in Jobs \ {j} : pc'[k] = pc[k] \/ (pc[k] = "waiting" /\ pc'[k] = "running")
    BY <1>6, FinishSteps
  <2>2. pc[j] = "running" /\ inflight' = Released
    BY <1>6 DEF Finish
  <2>3. CASE j \in Uploads
    <3>1. j \in Admitted /\ Admitted' = Admitted \ {j} /\ Retried' = Retried
      BY <2>1, <2>2, <2>3 DEF Admitted, Retried
    <3> QED BY <2>2, <2>3, <3>1, SlotsEnd
  <2>4. CASE j \in Retries
    <3>1. j \notin Retried /\ Admitted' = Admitted /\ Retried' = Retried \cup {j}
      BY <2>1, <2>2, <2>4 DEF Admitted, Retried
    <3> QED BY <2>2, <2>4, <3>1, SlotsRetried
  <2> QED BY <2>3, <2>4
<1>7. ASSUME NEW n \in Limits, SetLimit(n)
      PROVE  SlotInv'
  <2>1. Admitted' = Admitted /\ Retried' = Retried
    BY <1>7 DEF SetLimit, Admitted, Retried
  <2> QED BY <1>7, <2>1, SlotsQuiet DEF SetLimit, limiter
<1> QED BY <1>1, <1>2, <1>3, <1>4, <1>5, <1>6, <1>7 DEF Next

\* Every step keeps what relates permits, queues and jobs.
LEMMA PoolStep ==
  ASSUME TypeOK, PoolInv, Next
  PROVE  PoolInv'
<1>1. ASSUME NEW u \in Uploads, Admit(u) \/ UploadFails(u) \/ UploadEnqueues(u)
      PROVE  PoolInv'
  <2>1. u \in Jobs /\ pc[u] \in {"idle", "admitted"} /\ UNCHANGED pool
    BY <1>1 DEF Admit, UploadFails, UploadEnqueues, Jobs
  <2>2. \E step : step \notin {"waiting", "running"} /\ pc' = [pc EXCEPT ![u] = step]
    <3>1. CASE Admit(u)
      BY <3>1 DEF Admit
    <3>2. CASE UploadFails(u)
      BY <3>2 DEF UploadFails
    <3>3. CASE UploadEnqueues(u)
      BY <3>3 DEF UploadEnqueues
    <3> QED BY <1>1, <3>1, <3>2, <3>3
  <2> QED BY <2>1, <2>2, PoolQuiet
<1>2. ASSUME NEW q \in Retries, RetryEnqueues(q)
      PROVE  PoolInv'
  <2>1. q \in Jobs /\ pc[q] \in {"idle", "admitted"} /\ UNCHANGED pool
    BY <1>2 DEF RetryEnqueues, Jobs
  <2>2. \E step : step \notin {"waiting", "running"} /\ pc' = [pc EXCEPT ![q] = step]
    BY <1>2 DEF RetryEnqueues
  <2> QED BY <2>1, <2>2, PoolQuiet
<1>3. ASSUME NEW j \in Jobs, Submit(j)
      PROVE  PoolInv'
  <2>1. pc[j] = "queued"
    BY <1>3 DEF Submit
  <2>2. CASE current # NoSem /\ Acquire(j, current, permits[current]) /\ UNCHANGED <<current, cap>>
    <3>1. PICK s \in Sems : s = current
      BY <2>2 DEF TypeOK
    <3>2. PICK free \in Nat : free = permits[s]
      BY DEF TypeOK
    <3>3. /\ Acquire(j, s, free) /\ current' = s /\ cap' = cap
          /\ free + Cardinality(RunningOn(s)) = cap[s]
          /\ cap[s] > 0
          /\ IF free > 0 THEN waiters[s] = <<>> ELSE permits[s] = 0
      BY <2>2, <3>1, <3>2 DEF PoolInv, PermitInv
    <3> QED BY <2>1, <3>3, PoolAcquires
  <2>3. ASSUME NEW s \in Sems, cap[s] = 0, current' = s,
               cap' = [cap EXCEPT ![s] = limit], Acquire(j, s, limit)
        PROVE  PoolInv'
    <3>1. PICK free \in Nat \ {0} : free = limit
      BY DEF TypeOK
    <3>2. permits[s] = 0 /\ Cardinality(RunningOn(s)) = 0 /\ waiters[s] = <<>>
      BY <2>3, Finite DEF PoolInv, PermitInv, TypeOK
    <3>3. /\ Acquire(j, s, free) /\ cap'[s] = free
          /\ \A r \in Sems \ {s} : cap'[r] = cap[r]
      BY <2>3, <3>1 DEF TypeOK
    <3> QED BY <2>1, <2>3, <3>2, <3>3, PoolAcquires
  <2> QED BY <1>3, <2>2, <2>3 DEF Submit
<1>4. ASSUME NEW j \in Jobs, Finish(j)
      PROVE  PoolInv'
  <2>1. PICK s \in Sems : s = sem[j]
    BY <1>4 DEF Finish, PoolInv, QueueInv
  <2> QED BY <1>4, <2>1, PoolReleases DEF Finish
<1>5. ASSUME NEW n \in Limits, SetLimit(n)
      PROVE  PoolInv'
  BY <1>5, PoolForgets DEF SetLimit
<1> QED BY <1>1, <1>2, <1>3, <1>4, <1>5 DEF Next

-----------------------------------------------------------------------------
(* The theorems *)

\* The invariant holds when the process starts.
LEMMA AdmissionInit == Init => AdmissionInv
<1> SUFFICES ASSUME Init PROVE AdmissionInv
  OBVIOUS
<1> USE PositiveLimits, SomeSem DEF Init
<1>1. TypeOK
  BY DEF TypeOK, Steps
<1>2. Admitted = {} /\ Retried = {} /\ \A s : RunningOn(s) = {}
  BY DEF Admitted, Retried, RunningOn, Jobs
<1>3. SlotInv
  BY <1>2, FS_EmptySet DEF SlotInv, NoSlotLeaked
<1>4. QueueInv /\ WaitInv
  BY DEF QueueInv, WaitInv
<1>5. PermitInv
  <2>1. \A s : Cardinality(RunningOn(s)) = 0
    BY <1>2, FS_EmptySet
  <2>2. \A s \in Sems : permits[s] = 0 /\ cap[s] = 0 /\ waiters[s] = <<>>
    OBVIOUS
  <2> QED BY <2>1, <2>2 DEF PermitInv
<1> QED BY <1>1, <1>3, <1>4, <1>5 DEF AdmissionInv, PoolInv

\* Every step preserves it.
LEMMA AdmissionStep == AdmissionInv /\ [Next]_vars => AdmissionInv'
<1> SUFFICES ASSUME AdmissionInv, [Next]_vars PROVE AdmissionInv'
  OBVIOUS
<1> USE DEF AdmissionInv
<1>1. CASE Next
  BY <1>1, TypeStep, SlotStep, PoolStep DEF PoolInv
<1>2. CASE UNCHANGED vars
  <2>1. Admitted' = Admitted /\ Retried' = Retried /\ \A s : RunningOn(s)' = RunningOn(s)
    BY <1>2 DEF vars, Admitted, Retried, RunningOn
  <2>2. TypeOK' /\ SlotInv'
    BY <1>2, <2>1, SlotsQuiet DEF vars, TypeOK
  <2>3. QueueInv' /\ WaitInv' /\ PermitInv'
    BY <1>2, <2>1 DEF vars, PoolInv, QueueInv, WaitInv, PermitInv
  <2> QED BY <2>2, <2>3 DEF PoolInv
<1> QED BY <1>1, <1>2

\* So it holds in every state of every behaviour.
LEMMA AdmissionAlways == Spec => []AdmissionInv
BY AdmissionInit, AdmissionStep, PTL DEF Spec

\* The counter, the permits and the queues keep their types: neither the counter
\* nor a semaphore ever goes below zero, whoever releases what.
THEOREM TypeCorrect == Spec => []TypeOK
<1>1. AdmissionInv => TypeOK
  BY DEF AdmissionInv
<1> QED BY <1>1, AdmissionAlways, PTL

\* The counter never exceeds the uploads in flight: no end of an upload or of
\* its run keeps a slot, whichever way it ends.
THEOREM SlotsNeverLeak == Spec => []NoSlotLeaked
<1>1. AdmissionInv => NoSlotLeaked
  BY DEF AdmissionInv, SlotInv
<1> QED BY <1>1, AdmissionAlways, PTL

\* The uploads in flight exceed max_queue_size by no more than the retried runs
\* that have ended.
THEOREM UploadsBounded == Spec => []AdmittedBounded
<1>1. AdmissionInv => AdmittedBounded
  BY PositiveLimits, Finite DEF AdmissionInv, SlotInv, AdmittedBounded, TypeOK
<1> QED BY <1>1, AdmissionAlways, PTL

\* No semaphore ever runs more jobs than it has permits, whatever limits are set
\* while jobs run.
THEOREM PoolStaysBounded == Spec => []PoolBounded
<1>1. AdmissionInv => PoolBounded
  BY Finite DEF AdmissionInv, PoolInv, PermitInv, PoolBounded, TypeOK
<1> QED BY <1>1, AdmissionAlways, PTL

\* No job is left waiting by a semaphore that has a permit, also by one that
\* set_tenant_limit dropped.
THEOREM WaitersFindItFull == Spec => []WaitsWhenFull
<1>1. ASSUME AdmissionInv, NEW j \in Jobs, pc[j] = "waiting"
      PROVE  Cardinality(RunningOn(sem[j])) = cap[sem[j]]
  <2>1. sem[j] \in Sems
    BY <1>1 DEF AdmissionInv, PoolInv, QueueInv
  <2>2. PICK i \in 1..Len(waiters[sem[j]]) : waiters[sem[j]][i] = j
    BY <1>1 DEF AdmissionInv, PoolInv, WaitInv
  <2>3. waiters[sem[j]] # <<>>
    BY <2>2
  <2>4. permits[sem[j]] = 0
    BY <1>1, <2>1, <2>3 DEF AdmissionInv, PoolInv, PermitInv, TypeOK
  <2> QED BY <1>1, <2>1, <2>4, Finite DEF AdmissionInv, PoolInv, PermitInv
<1>2. AdmissionInv => WaitsWhenFull
  BY <1>1 DEF WaitsWhenFull
<1> QED BY <1>2, AdmissionAlways, PTL

\* So a semaphore with waiters has a job that will release it, whatever was set or
\* dropped meanwhile: the pool cannot come to a halt.
THEOREM WaitersHaveARunner ==
  Spec => [](\A j \in Jobs : pc[j] = "waiting" => \E k \in Jobs : k \in RunningOn(sem[j]))
<1>1. ASSUME AdmissionInv, WaitsWhenFull, NEW j \in Jobs, pc[j] = "waiting"
      PROVE  \E k \in Jobs : k \in RunningOn(sem[j])
  <2>1. sem[j] \in Sems /\ waiters[sem[j]] # <<>>
    <3>1. PICK i \in 1..Len(waiters[sem[j]]) : waiters[sem[j]][i] = j
      BY <1>1 DEF AdmissionInv, PoolInv, WaitInv
    <3> QED BY <1>1, <3>1 DEF AdmissionInv, PoolInv, QueueInv
  <2>2. cap[sem[j]] # 0
    BY <1>1, <2>1 DEF AdmissionInv, PoolInv, PermitInv
  <2>3. Cardinality(RunningOn(sem[j])) # 0
    BY <1>1, <2>2 DEF WaitsWhenFull
  <2>4. RunningOn(sem[j]) # {}
    BY <2>3, FS_EmptySet
  <2> QED BY <2>4 DEF RunningOn
<1>2. AdmissionInv /\ WaitsWhenFull =>
        \A j \in Jobs : pc[j] = "waiting" => \E k \in Jobs : k \in RunningOn(sem[j])
  BY <1>1
<1> QED BY <1>2, AdmissionAlways, WaitersFindItFull, PTL

\* Waiting runs start in the order they came, and nobody slips in between a release
\* and the next in line.
THEOREM PoolIsFair == Spec => NobodyIsOvertaken
<1> DEFINE InTurn == \A j, k \in Jobs :
      pc[k] = "waiting" /\ pc[j] # "running" /\ pc'[j] = "running" /\ sem'[j] = sem[k]
        => j = Head(waiters[sem[k]])
<1>1. ASSUME AdmissionInv, [Next]_vars, NEW j \in Jobs, NEW k \in Jobs, pc[k] = "waiting",
             pc[j] # "running", pc'[j] = "running", sem'[j] = sem[k]
      PROVE  j = Head(waiters[sem[k]])
  <2>0. TypeOK /\ QueueInv /\ sem[k] \in Sems /\ waiters[sem[k]] # <<>>
    <3>1. PICK i \in 1..Len(waiters[sem[k]]) : waiters[sem[k]][i] = k
      BY <1>1 DEF AdmissionInv, PoolInv, WaitInv
    <3> QED BY <1>1, <3>1 DEF AdmissionInv, PoolInv, QueueInv
  <2>1. ASSUME NEW i \in Jobs, NEW s \in Sems, NEW free, Acquire(i, s, free)
        PROVE  i = j /\ s = sem[k] /\ free > 0
    BY <1>1, <2>0, <2>1 DEF Acquire, TypeOK
  <2>2. ASSUME NEW i \in Jobs, Submit(i)
        PROVE  FALSE
    <3>1. CASE current # NoSem /\ Acquire(i, current, permits[current])
      BY <1>1, <2>0, <2>1, <3>1 DEF AdmissionInv, PoolInv, PermitInv, TypeOK
    <3>2. ASSUME NEW s \in Sems, cap[s] = 0, Acquire(i, s, limit)
          PROVE  FALSE
      BY <1>1, <2>0, <2>1, <3>2 DEF AdmissionInv, PoolInv, PermitInv
    <3> QED BY <2>2, <3>1, <3>2 DEF Submit
  <2>3. ASSUME NEW i \in Jobs, Finish(i)
        PROVE  j = Head(waiters[sem[k]])
    <3>1. sem[i] \in Sems /\ Release(i, sem[i]) /\ sem' = sem
      BY <2>0, <2>3 DEF Finish, QueueInv
    <3>2. CASE waiters[sem[i]] = <<>>
      BY <1>1, <2>0, <3>1, <3>2 DEF Release, TypeOK
    <3>3. CASE waiters[sem[i]] # <<>>
      <4>1. pc' = [pc EXCEPT ![i] = "done", ![Head(waiters[sem[i]])] = "running"]
        BY <3>1, <3>3 DEF Release
      <4>2. j = Head(waiters[sem[i]])
        BY <1>1, <2>0, <4>1 DEF TypeOK
      <4>3. sem[j] = sem[i]
        BY <2>0, <3>1, <3>3, <4>2, FirstWaiter
      <4> QED BY <1>1, <3>1, <4>2, <4>3
    <3> QED BY <3>2, <3>3
  <2>4. CASE \/ \E u \in Uploads : Admit(u) \/ UploadFails(u) \/ UploadEnqueues(u)
             \/ \E q \in Retries : RetryEnqueues(q)
             \/ \E n \in Limits : SetLimit(n)
             \/ UNCHANGED vars
    <3>1. pc' = pc \/ \E i, step : pc' = [pc EXCEPT ![i] = step] /\ step # "running"
      BY <2>4 DEF Admit, UploadFails, UploadEnqueues, RetryEnqueues, SetLimit, vars
    <3> QED BY <1>1, <2>0, <3>1 DEF TypeOK
  <2> QED BY <1>1, <2>2, <2>3, <2>4 DEF Next
<1>2. AdmissionInv /\ [Next]_vars => InTurn
  BY <1>1
<1> QED BY <1>2, AdmissionAlways, PTL DEF Spec, NobodyIsOvertaken

-----------------------------------------------------------------------------
(* A process at work *)

\* Who calls a model holds a permit.
CallInv == \A j \in Jobs : call[j] \in {"primary", "fallback"} => pc[j] = "running"

\* A process at work does what Admission and CircuitBreaker each allow.
LEMMA WorkerSteps ==
  /\ WorkerInit => Init /\ BreakerInit
  /\ [WorkerNext]_workerVars => [Next]_vars /\ [BreakerNext]_breakerVars
<1>1. [WorkerNext]_workerVars => [Next]_vars
  BY DEF WorkerNext, workerVars, Enters, Starts, Ends, BeginsCall, EndsCall, TimePasses, Next
<1>2. [WorkerNext]_workerVars => [BreakerNext]_breakerVars
  BY DEF WorkerNext, workerVars, Enters, Starts, Ends, BeginsCall, EndsCall, TimePasses,
         BreakerNext
<1> QED BY <1>1, <1>2 DEF WorkerInit

\* So whatever is proved of either holds of them together: the limiter, the pool
\* and the breaker keep what they guarantee alone.
THEOREM WorkerKeepsBoth == WorkerSpec => Spec /\ BreakerSpec
BY WorkerSteps, PTL DEF WorkerSpec, Spec, BreakerSpec

\* A permit is given back only when the call made under it has ended.
LEMMA CallStep ==
  TypeOK /\ BreakerTypeOK /\ QueueInv /\ CallInv /\ [WorkerNext]_workerVars => CallInv'
<1> SUFFICES ASSUME TypeOK, BreakerTypeOK, QueueInv, CallInv, [WorkerNext]_workerVars,
                    NEW j \in Jobs, call'[j] \in {"primary", "fallback"}
             PROVE  pc'[j] = "running"
  BY DEF CallInv
<1> USE RunsCall
<1>1. CASE Enters
  <2>1. call' = call /\ pc[j] = "running"
    BY <1>1 DEF Enters, breakerVars, CallInv
  <2> QED
    BY <1>1, <2>1 DEF Enters, Admit, UploadFails, UploadEnqueues, RetryEnqueues, SetLimit,
                      TypeOK, pool, limiter
<1>2. ASSUME NEW i \in Jobs, Starts(i) PROVE pc'[j] = "running"
  <2>1. call' = call /\ pc[j] = "running" /\ pc[i] = "queued"
    BY <1>2 DEF Starts, Submit, breakerVars, CallInv
  <2>2. pc' = [pc EXCEPT ![i] = "running"] \/ pc' = [pc EXCEPT ![i] = "waiting"]
    BY <1>2 DEF Starts, Submit, Acquire
  <2> QED BY <2>1, <2>2 DEF TypeOK
<1>3. ASSUME NEW i \in Jobs, Ends(i) PROVE pc'[j] = "running"
  <2>1. call' = call /\ pc[j] = "running" /\ i # j
    BY <1>3 DEF Ends, breakerVars, CallInv
  <2>2. sem[i] \in Sems /\ Release(i, sem[i])
    BY <1>3 DEF Ends, Finish, QueueInv
  <2>3. CASE waiters[sem[i]] = <<>>
    BY <2>1, <2>2, <2>3 DEF Release, TypeOK
  <2>4. CASE waiters[sem[i]] # <<>>
    <3>1. pc' = [pc EXCEPT ![i] = "done", ![Head(waiters[sem[i]])] = "running"]
      BY <2>2, <2>4 DEF Release
    <3> QED BY <2>1, <3>1 DEF TypeOK
  <2> QED BY <2>3, <2>4
<1>4. ASSUME NEW c \in Calls, BeginsCall(c) PROVE pc'[j] = "running"
  <2>1. pc' = pc /\ (c \in Jobs => pc[c] = "running")
    BY <1>4 DEF BeginsCall, vars
  <2>2. call' = [call EXCEPT ![c] = IF State = "open" THEN "fallback" ELSE "primary"]
    BY <1>4 DEF BeginsCall, Begin
  <2> QED BY <2>1, <2>2 DEF CallInv, BreakerTypeOK
<1>5. ASSUME NEW c \in Calls, EndsCall(c) PROVE pc'[j] = "running"
  <2>1. pc' = pc /\ call[c] \in {"primary", "fallback"}
    BY <1>5 DEF EndsCall, vars, PrimaryFails, PrimarySucceeds, Fallback
  <2>2. \E end : call' = [call EXCEPT ![c] = end]
    BY <1>5 DEF EndsCall, PrimaryFails, PrimarySucceeds, Fallback
  <2> QED BY <2>1, <2>2 DEF CallInv, BreakerTypeOK
<1>6. CASE TimePasses \/ UNCHANGED workerVars
  BY <1>6 DEF TimePasses, Tick, workerVars, vars, breakerVars, CallInv
<1> QED BY <1>1, <1>2, <1>3, <1>4, <1>5, <1>6 DEF WorkerNext

\* Of a tenant's runs no more than a semaphore has permits call a model at a time.
THEOREM CallsStayBounded == WorkerSpec => []CallsBounded
<1>1. WorkerInit => CallInv
  BY RunsCall DEF WorkerInit, Init, BreakerInit, CallInv
<1>2. TypeOK /\ BreakerTypeOK /\ QueueInv /\ CallInv /\ [WorkerNext]_workerVars => CallInv'
  BY CallStep
<1>3. AdmissionInv /\ CallInv => CallsBounded
  <2> SUFFICES ASSUME AdmissionInv, CallInv, NEW s \in Sems
               PROVE  Cardinality(CallsOn(s)) <= cap[s]
    BY DEF CallsBounded
  <2>1. CallsOn(s) \subseteq RunningOn(s)
    BY DEF CallsOn, RunningOn, CallInv
  <2>2. /\ Cardinality(CallsOn(s)) <= Cardinality(RunningOn(s))
        /\ Cardinality(CallsOn(s)) \in Nat
    BY <2>1, Finite, FS_Subset, FS_CardinalityType
  <2>3. permits[s] + Cardinality(RunningOn(s)) = cap[s]
    BY DEF AdmissionInv, PoolInv, PermitInv
  <2> QED BY <2>2, <2>3, Finite DEF AdmissionInv, TypeOK
<1>4. AdmissionInv => TypeOK /\ QueueInv
  BY DEF AdmissionInv, PoolInv
<1> QED BY <1>1, <1>2, <1>3, <1>4, WorkerKeepsBoth, AdmissionAlways, BreakerTypeCorrect,
           PTL DEF WorkerSpec

=============================================================================
