------------------------------- MODULE Worker -------------------------------
(***************************************************************************)
(* A process at work: Admission and CircuitBreaker together, as one run of *)
(* run_pipeline goes through both.  A run calls the models, if it ever     *)
(* does, while it holds a permit of its tenant's semaphore, and keeps the  *)
(* permit until the call has ended: an outage of the provider holds up the *)
(* runs that queue, and how many calls overlap before the breaker is what  *)
(* the pool lets through.  Admission follows one tenant; the breaker is    *)
(* the process's, so other tenants' calls come to it too.                  *)
(***************************************************************************)
EXTENDS Admission, CircuitBreaker

\* Whatever call is not of a run of this tenant is one of another tenant's.
ASSUME RunsCall == Jobs \subseteq Calls

WorkerInit == Init /\ BreakerInit

\* What happens before a run has a permit; nothing of it concerns the breaker.
Starts(j) == Submit(j) /\ UNCHANGED breakerVars

Enters ==
  /\ \/ \E u \in Uploads : Admit(u) \/ UploadFails(u) \/ UploadEnqueues(u)
     \/ \E q \in Retries : RetryEnqueues(q)
     \/ \E n \in Limits : SetLimit(n)
  /\ UNCHANGED breakerVars

\* extract_node asks the chain, inside the job that the pool executes.
BeginsCall(c) ==
  /\ c \in Jobs => pc[c] = "running"
  /\ Begin(c)
  /\ UNCHANGED vars

EndsCall(c) ==
  /\ PrimaryFails(c) \/ PrimarySucceeds(c) \/ Fallback(c)
  /\ UNCHANGED vars

\* Mutant of Ends: the pool starts the job without awaiting it.
EndsAtOnce(j) == Finish(j) /\ UNCHANGED breakerVars

\* The job ends, after its call or without one: a document that cannot be
\* parsed, that is blocked or that keeps its extraction calls no model.
Ends(j) ==
  /\ call[j] \in {"idle", "answered", "failed"}
  /\ Finish(j)
  /\ UNCHANGED breakerVars

TimePasses == Tick /\ UNCHANGED vars

WorkerNext ==
  \/ Enters
  \/ \E j \in Jobs : Starts(j) \/ Ends(j)
  \/ \E c \in Calls : BeginsCall(c) \/ EndsCall(c)
  \/ TimePasses

workerVars == <<vars, breakerVars>>

WorkerSpec == WorkerInit /\ [][WorkerNext]_workerVars

\* A created task is started by the event loop, a call of a model is answered
\* or times out, and so does whatever else a job awaits.
FairWorkerSpec ==
  /\ WorkerSpec
  /\ \A j \in Jobs : /\ WF_workerVars(Starts(j))
                     /\ WF_workerVars(EndsCall(j))
                     /\ WF_workerVars(Ends(j))

-----------------------------------------------------------------------------
(* Properties *)

\* Runs under semaphore s whose call of a model has not ended.
CallsOn(s) == {j \in Jobs : call[j] \in {"primary", "fallback"} /\ sem[j] = s}

\* One noisy tenant cannot take the models for itself: of its runs no more than a
\* semaphore has permits call a model at a time, whether the breaker sends them to
\* the primary or the fallback, and however the runs before them ended.
CallsBounded == \A s \in Sems : Cardinality(CallsOn(s)) <= cap[s]

=============================================================================
