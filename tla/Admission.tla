----------------------------- MODULE Admission -----------------------------
(***************************************************************************)
(* How a tenant's documents get into the pipeline and through the worker   *)
(* pool: the in-flight counter of TenantRateLimiter, which POST /extract   *)
(* increments and every run decrements when it ends, and WorkerPool's      *)
(* semaphore, under which runs execute.                                    *)
(*                                                                         *)
(* Everything here is process memory and keyed by tenant, so the module    *)
(* follows one tenant from a process start; after a restart it begins      *)
(* again in Init.  The critical sections of both locks contain no await,   *)
(* so their bodies are single steps.  A retried dead letter runs without   *)
(* having been admitted.                                                   *)
(***************************************************************************)
EXTENDS Naturals, Sequences, FiniteSets

CONSTANTS
  Uploads,            \* POST /extract requests, and the runs they start
  Retries,            \* POST /dlq/{id}/retry requests, and the runs they start
  MaxQueue,           \* tenants.max_queue_size
  DefaultConcurrency, \* settings.worker_default_concurrency
  Limits,             \* arguments of set_tenant_limit in this instance
  Sems,               \* semaphores the pool may create in this instance
  NoSem               \* no semaphore

Jobs == Uploads \cup Retries

ASSUME FiniteJobs ==
  /\ IsFiniteSet(Uploads) /\ IsFiniteSet(Retries)
  /\ Uploads \cap Retries = {}

ASSUME PositiveLimits ==
  /\ MaxQueue \in Nat
  /\ DefaultConcurrency \in Nat \ {0}
  /\ Limits \subseteq Nat \ {0}

ASSUME SomeSem == NoSem \notin Sems /\ Sems # {}

VARIABLES
  inflight, \* TenantRateLimiter._inflight of the tenant (0 when absent)
  limit,    \* WorkerPool._limits of the tenant, or the default
  current,  \* WorkerPool._semaphores of the tenant
  cap,      \* what a semaphore was created with (0: not created)
  permits,  \* a semaphore's value
  waiters,  \* a semaphore's queue
  pc,       \* where each request or its run is
  sem       \* the semaphore a run uses

limiter == <<inflight>>
pool    == <<limit, current, cap, permits, waiters, sem>>
vars    == <<inflight, limit, current, cap, permits, waiters, pc, sem>>

Steps == {"idle", "admitted", "queued", "waiting", "running", "done"}

TypeOK ==
  /\ inflight \in Nat
  /\ limit \in Nat \ {0}
  /\ current \in Sems \cup {NoSem}
  /\ cap \in [Sems -> Nat]
  /\ permits \in [Sems -> Nat]
  /\ waiters \in [Sems -> Seq(Jobs)]
  /\ pc \in [Jobs -> Steps]
  /\ sem \in [Jobs -> Sems \cup {NoSem}]

Init ==
  /\ inflight = 0
  /\ limit = DefaultConcurrency
  /\ current = NoSem
  /\ cap = [s \in Sems |-> 0]
  /\ permits = [s \in Sems |-> 0]
  /\ waiters = [s \in Sems |-> <<>>]
  /\ pc = [j \in Jobs |-> "idle"]
  /\ sem = [j \in Jobs |-> NoSem]

-----------------------------------------------------------------------------
(* The limiter and POST /extract *)

\* Mutant of Admit: the bound is tested too late by one.
AdmitLate(u) ==
  /\ pc[u] = "idle"
  /\ inflight <= MaxQueue
  /\ inflight' = inflight + 1
  /\ pc' = [pc EXCEPT ![u] = "admitted"]
  /\ UNCHANGED pool

\* acquire; at the limit the answer is 429 and nothing changes.
Admit(u) ==
  /\ pc[u] = "idle"
  /\ inflight < MaxQueue
  /\ inflight' = inflight + 1
  /\ pc' = [pc EXCEPT ![u] = "admitted"]
  /\ UNCHANGED pool

\* Mutant of Released: the counter has no floor.
ReleasedUnfloored == inflight - 1

\* release: the counter never goes below zero.
Released == IF inflight <= 1 THEN 0 ELSE inflight - 1

\* Mutant of UploadFails: an error that is not an ingest error keeps the slot.
UploadFailsKeeping(u) ==
  /\ pc[u] = "admitted"
  /\ inflight' \in {inflight, Released}
  /\ pc' = [pc EXCEPT ![u] = "done"]
  /\ UNCHANGED pool

\* create_document raises, whatever the exception.
UploadFails(u) ==
  /\ pc[u] = "admitted"
  /\ inflight' = Released
  /\ pc' = [pc EXCEPT ![u] = "done"]
  /\ UNCHANGED pool

\* The document is committed and its run enqueued, with no await between.
UploadEnqueues(u) ==
  /\ pc[u] = "admitted"
  /\ pc' = [pc EXCEPT ![u] = "queued"]
  /\ UNCHANGED <<limiter, pool>>

\* retry_dlq enqueues a run; it never asks the limiter.
RetryEnqueues(q) ==
  /\ pc[q] = "idle"
  /\ pc' = [pc EXCEPT ![q] = "queued"]
  /\ UNCHANGED <<limiter, pool>>

-----------------------------------------------------------------------------
(* The pool and run_pipeline *)

\* set_tenant_limit: the next run creates a semaphore of its own.
SetLimit(n) ==
  /\ \E s \in Sems : cap[s] = 0
  /\ limit' = n
  /\ current' = NoSem
  /\ UNCHANGED <<limiter, cap, permits, waiters, pc, sem>>

\* The run takes a permit of semaphore s, which has `free` of them, or queues.
Acquire(j, s, free) ==
  /\ sem' = [sem EXCEPT ![j] = s]
  /\ IF free > 0
       THEN /\ permits' = [permits EXCEPT ![s] = free - 1]
            /\ pc' = [pc EXCEPT ![j] = "running"]
            /\ UNCHANGED waiters
       ELSE /\ waiters' = [waiters EXCEPT ![s] = Append(@, j)]
            /\ pc' = [pc EXCEPT ![j] = "waiting"]
            /\ UNCHANGED permits

\* submit, under the semaphore there is or a new one.
Submit(j) ==
  /\ pc[j] = "queued"
  /\ \/ /\ current # NoSem
        /\ Acquire(j, current, permits[current])
        /\ UNCHANGED <<current, cap>>
     \/ \E s \in Sems :
          /\ current = NoSem
          /\ cap[s] = 0
          /\ current' = s
          /\ cap' = [cap EXCEPT ![s] = limit]
          /\ Acquire(j, s, limit)
  /\ UNCHANGED <<limiter, limit>>

\* asyncio.Semaphore: a released permit goes to the first of those that wait.
Release(j, s) ==
  IF waiters[s] = <<>>
    THEN /\ permits' = [permits EXCEPT ![s] = @ + 1]
         /\ pc' = [pc EXCEPT ![j] = "done"]
         /\ UNCHANGED waiters
    ELSE /\ waiters' = [waiters EXCEPT ![s] = Tail(@)]
         /\ pc' = [pc EXCEPT ![j] = "done", ![Head(waiters[s])] = "running"]
         /\ UNCHANGED permits

\* Mutant of Finish: the semaphore is looked up again when the job ends.
FinishLookedUp(j) ==
  /\ pc[j] = "running"
  /\ IF current = NoSem
       THEN pc' = [pc EXCEPT ![j] = "done"] /\ UNCHANGED <<permits, waiters>>
       ELSE Release(j, current)
  /\ inflight' = Released
  /\ UNCHANGED <<limit, current, cap, sem>>

\* The job ends, well or not: its permit and then a slot are released.
Finish(j) ==
  /\ pc[j] = "running"
  /\ Release(j, sem[j])
  /\ inflight' = Released
  /\ UNCHANGED <<limit, current, cap, sem>>

-----------------------------------------------------------------------------

Next ==
  \/ \E u \in Uploads : Admit(u) \/ UploadFails(u) \/ UploadEnqueues(u)
  \/ \E q \in Retries : RetryEnqueues(q)
  \/ \E j \in Jobs : Submit(j) \/ Finish(j)
  \/ \E n \in Limits : SetLimit(n)

Spec == Init /\ [][Next]_vars

-----------------------------------------------------------------------------
(* Properties *)

\* Uploads that were admitted and have not ended.
Admitted == {u \in Uploads : pc[u] \notin {"idle", "done"}}

Retried == {q \in Retries : pc[q] = "done"}

RunningOn(s) == {j \in Jobs : pc[j] = "running" /\ sem[j] = s}

\* No failure path keeps a slot: the counter never exceeds the uploads in
\* flight, so a tenant is never refused for documents that have ended.
NoSlotLeaked == inflight <= Cardinality(Admitted)

\* What the limiter claims: no more documents of the tenant are in the pipeline at
\* once than max_queue_size.  Uploads that were admitted are some of them.
QueueBounded == Cardinality(Admitted) <= MaxQueue

\* What is left of that claim: every retried run that ended may have given back a
\* slot that belonged to an upload, and nothing else gives one away.
AdmittedBounded == Cardinality(Admitted) <= MaxQueue + Cardinality(Retried)

\* A semaphore runs no more jobs than it was created for, also while jobs of an
\* older semaphore of the tenant are still running.
PoolBounded == \A s \in Sems : Cardinality(RunningOn(s)) <= cap[s]

\* A run waits only if its semaphore is full.
WaitsWhenFull ==
  \A j \in Jobs : pc[j] = "waiting" => Cardinality(RunningOn(sem[j])) = cap[sem[j]]

\* While a run waits on a semaphore, only the one that has waited longest starts
\* under it: no run that comes later takes a permit that it could have had.
NobodyIsOvertaken ==
  [][\A j, k \in Jobs :
       pc[k] = "waiting" /\ pc[j] # "running" /\ pc'[j] = "running" /\ sem'[j] = sem[k]
         => j = Head(waiters[sem[k]])]_vars

\* Every enqueued run is executed and ends, whichever jobs hold the permits it waits
\* for and whether it waits on a semaphore of the map or on one that was dropped.
EveryRunEnds == \A j \in Jobs : pc[j] = "queued" ~> pc[j] = "done"

=============================================================================
