---------------------------- MODULE ExtractionRun ----------------------------
(***************************************************************************)
(* The runs of one document in detail: the parser's attempts at the cloud  *)
(* service and its local fallback, the guardrails, the extraction with its *)
(* fallback model, the confidence score and the routing thresholds.        *)
(*                                                                         *)
(* Scores are integers in units of 1/10000, to which the code rounds them; *)
(* before that they are exact fractions <<numerator, denominator>>.  A     *)
(* text is what the code measures of it, an extraction the set of its keys *)
(* and the set of those whose value is blank.                              *)
(***************************************************************************)
EXTENDS Naturals, FiniteSets

CONSTANTS
  Fields,       \* field names
  Inputs,       \* what a run may find of its schema: properties, required fields
  Texts,        \* what a parser may return
  SelfReports,  \* the confidence a model may report, 0 if it reports none
  Costs,        \* how many seconds a request to the cloud parser may take
  PollTime,     \* _POLL_TIMEOUT_S
  MaxRetries,   \* LlamaParseClient's max_retries
  High, Medium, \* the schema's thresholds
  MaxRuns,      \* how many runs this instance has
  NoText, NoScore

Unit == 10000

MinChars == 10

MinWords == 20

WarnMultiplier == 8000

ASSUME Schemas ==
  /\ IsFiniteSet(Fields)
  /\ Inputs \subseteq [props : SUBSET Fields, required : SUBSET Fields]

\* A text with characters other than white space at its ends has a word.
ASSUME Measured ==
  /\ Texts \subseteq [chars : Nat, words : Nat, printable : BOOLEAN, injection : BOOLEAN]
  /\ \A t \in Texts : t.chars > 0 => t.words > 0
  /\ NoText \notin Texts

ASSUME Times ==
  /\ Costs \subseteq Nat
  /\ PollTime \in Nat
  /\ MaxRetries \in Nat \ {0}

\* The schema registry refuses a medium threshold that is not below the high one.
ASSUME Thresholds ==
  /\ High \in 1..Unit
  /\ Medium \in 0..(High - 1)
  /\ SelfReports \subseteq 0..Unit
  /\ NoScore \notin Nat

ASSUME RunBound == MaxRuns \in Nat

VARIABLES
  at,  \* the step the run is at
  s,   \* the graph state
  job, \* the parser's attempt: its number, seconds spent polling, requests so far
  runs \* how many runs have begun

vars == <<at, s, job, runs>>

\* Every attempt uploads once, fetches once, and asks at most once a second.
Budget == MaxRetries * (PollTime + 2)

NoJob == [attempt |-> 0, waited |-> 0, requests |-> 0]

ParseSteps == {"load", "upload", "poll", "result", "local", "ocr"}

ExtractSteps == {"extract", "primary", "fallback"}

Steps == ParseSteps \cup ExtractSteps
           \cup {"guardrail", "score", "route", "deliver", "review", "dlq", "end"}

State ==
  [status   : {"pending", "guarding", "extracting", "scoring", "routing",
               "completed", "review", "rejected", "error"},
   reason   : {"none", "PARSE_FAILED", "PARSE_EMPTY_OUTPUT", "GUARDRAIL_BLOCK",
               "INJECTION_DETECTED", "EXTRACTION_FAILED", "LOW_CONFIDENCE"},
   text     : Texts \cup {NoText},
   mult     : 1..Unit,
   fields   : SUBSET Fields,
   blank    : SUBSET Fields,
   self     : 0..Unit,
   conf     : (0..Unit) \cup {NoScore},
   decision : {"none", "HIGH", "MEDIUM", "LOW"},
   schema   : [props : SUBSET Fields, required : SUBSET Fields]]

Init ==
  /\ at = "load"
  /\ \E input \in Inputs :
       s = [status |-> "pending", reason |-> "none", text |-> NoText, mult |-> Unit,
            fields |-> {}, blank |-> {}, self |-> 0, conf |-> NoScore,
            decision |-> "none", schema |-> input]
  /\ job = NoJob
  /\ runs = 1

Halted == s.status = "error"

\* The run goes on with `step` and the graph state `new`.
Goto(step, new) ==
  /\ at' = step
  /\ s' = new
  /\ UNCHANGED runs

Failed(reason) == [s EXCEPT !.status = "error", !.reason = reason]

-----------------------------------------------------------------------------
(* parse_node *)

\* Mutant of IsEmpty: a text of a few characters is not empty.
IsEmptyNever(t) == t.chars = 0

IsEmpty(t) == t.chars < MinChars

\* A parser returned t.
Parsed(t) ==
  /\ Goto("guardrail", IF IsEmpty(t)
                         THEN [Failed("PARSE_EMPTY_OUTPUT") EXCEPT !.text = t]
                         ELSE [s EXCEPT !.status = "guarding", !.text = t])
  /\ job' = NoJob

\* An exception that nothing retries.
ParseFails ==
  /\ Goto("guardrail", Failed("PARSE_FAILED"))
  /\ job' = NoJob

\* The file is loaded and the configured parser chosen.
Load ==
  /\ at = "load"
  /\ \/ ParseFails
     \/ Goto("local", s) /\ UNCHANGED job
     \/ Goto("upload", s) /\ job' = [NoJob EXCEPT !.attempt = 1]

\* The count of requests is an observer; it stops one above the budget.
Counted == IF job.requests <= Budget THEN job.requests + 1 ELSE job.requests

\* Mutant of Retry: one attempt more than max_retries.
RetryOnceMore(requests) ==
  IF job.attempt <= MaxRetries
    THEN /\ Goto("upload", s)
         /\ job' = [attempt |-> job.attempt + 1, waited |-> 0, requests |-> requests]
    ELSE Goto("local", s) /\ job' = [job EXCEPT !.requests = requests]

\* After a timeout or a 5xx: another attempt, or the local parser.
Retry(requests) ==
  IF job.attempt < MaxRetries
    THEN /\ Goto("upload", s)
         /\ job' = [attempt |-> job.attempt + 1, waited |-> 0, requests |-> requests]
    ELSE Goto("local", s) /\ job' = [job EXCEPT !.requests = requests]

\* Any other answer than success, a timeout or a 5xx is not retried.
Upload ==
  /\ at = "upload"
  /\ \/ Retry(Counted)
     \/ ParseFails
     \/ Goto("poll", s) /\ job' = [job EXCEPT !.waited = 0, !.requests = Counted]

\* Mutant of Waited: the deadline is set anew for every request.
WaitedAnew(cost) == cost + 1

Waited(cost) == job.waited + cost + 1

\* A job that is not finished, or has failed, is asked for again a second later.
Poll ==
  /\ at = "poll"
  /\ job.waited < PollTime
  /\ \/ Retry(Counted)
     \/ ParseFails
     \/ Goto("result", s) /\ job' = [job EXCEPT !.requests = Counted]
     \/ \E cost \in Costs :
          /\ Goto("poll", s)
          /\ job' = [job EXCEPT !.waited = Waited(cost), !.requests = Counted]

PollTimesOut ==
  /\ at = "poll"
  /\ job.waited >= PollTime
  /\ Retry(job.requests)

\* Here a timeout is retried but not a 5xx.
Result ==
  /\ at = "result"
  /\ \/ Retry(Counted)
     \/ ParseFails
     \/ \E t \in Texts : Parsed(t)

\* The text layer of the file; without one, OCR.
Local ==
  /\ at = "local"
  /\ \/ ParseFails
     \/ \E t \in Texts :
          IF IsEmpty(t) THEN Goto("ocr", s) /\ UNCHANGED job ELSE Parsed(t)

Ocr ==
  /\ at = "ocr"
  /\ ParseFails \/ \E t \in Texts : Parsed(t)

-----------------------------------------------------------------------------
(* guardrail_node *)

Block(t) == IF t.injection THEN "INJECTION_DETECTED"
            ELSE IF t.words = 0 THEN "GUARDRAIL_BLOCK" ELSE "none"

\* Only the text-quality guardrail warns, so the product has at most one factor.
Multiplier(t) == IF t.words < MinWords \/ ~ t.printable THEN WarnMultiplier ELSE Unit

Guardrail ==
  /\ at = "guardrail"
  /\ Goto("extract",
          IF Halted THEN s
          ELSE IF Block(s.text) # "none" THEN Failed(Block(s.text))
          ELSE [s EXCEPT !.status = "extracting", !.mult = Multiplier(s.text)])
  /\ UNCHANGED job

-----------------------------------------------------------------------------
(* extract_node *)

\* Mutant of Extract: an extraction left by an earlier run is made again.
ExtractAgain ==
  /\ at = "extract"
  /\ Goto(IF Halted THEN "score" ELSE "primary", s)
  /\ UNCHANGED job

\* An extraction left by an earlier run is not made again.
Extract ==
  /\ at = "extract"
  /\ Goto(IF Halted \/ s.fields # {} THEN "score" ELSE "primary", s)
  /\ UNCHANGED job

\* A model answers with a value for each property, a null or blank one perhaps;
\* nulls are dropped.
Answered ==
  \E values \in [s.schema.props -> {"null", "blank", "text"}], self \in SelfReports :
    Goto("score",
         [s EXCEPT !.status = "scoring",
                   !.fields = {f \in s.schema.props : values[f] # "null"},
                   !.blank = {f \in s.schema.props : values[f] = "blank"},
                   !.self = self])

ExtractFails == Goto("score", Failed("EXTRACTION_FAILED"))

\* The primary model fails, or the breaker lets no call through; whatever
\* else the chain does may fail too.
Primary ==
  /\ at = "primary"
  /\ Answered \/ ExtractFails \/ Goto("fallback", s)
  /\ UNCHANGED job

Fallback ==
  /\ at = "fallback"
  /\ Answered \/ ExtractFails
  /\ UNCHANGED job

-----------------------------------------------------------------------------
(* score_node *)

Completeness ==
  IF s.schema.required = {}
    THEN <<1, 1>>
    ELSE <<Cardinality(s.schema.required \cap (s.fields \ s.blank)),
           Cardinality(s.schema.required)>>

\* len(properties) or max(len(extracted), 1)
Total ==
  IF s.schema.props # {} THEN Cardinality(s.schema.props)
  ELSE IF s.fields # {} THEN Cardinality(s.fields) ELSE 1

FillRate ==
  IF Cardinality(s.fields) <= Total THEN <<Cardinality(s.fields), Total>> ELSE <<1, 1>>

AtMost(p, q) == p[1] * q[2] <= q[1] * p[2]

\* Mutant of Lower: the strongest signal counts.
LowerHigher(p, q) == IF AtMost(p, q) THEN q ELSE p

Lower(p, q) == IF AtMost(p, q) THEN p ELSE q

SelfReport == IF s.self > 0 THEN <<s.self, Unit>> ELSE Lower(Completeness, FillRate)

\* p times m, rounded; what a tie becomes depends on the binary fraction.
Rounded(p, m) ==
  LET floor == (p[1] * m) \div p[2]
      twice == 2 * ((p[1] * m) % p[2])
  IN  IF twice < p[2] THEN {floor}
      ELSE IF twice > p[2] THEN {floor + 1} ELSE {floor, floor + 1}

Confidence == Rounded(Lower(Lower(SelfReport, Completeness), FillRate), s.mult)

Score ==
  /\ at = "score"
  /\ IF Halted
       THEN Goto("route", s)
       ELSE \E conf \in Confidence :
              Goto("route", [s EXCEPT !.status = "routing", !.conf = conf])
  /\ UNCHANGED job

-----------------------------------------------------------------------------
(* route_node, route_decision and the terminal nodes *)

Level(c) == IF c >= High THEN "HIGH" ELSE IF c >= Medium THEN "MEDIUM" ELSE "LOW"

Decision == IF Halted THEN "LOW" ELSE Level(IF s.conf = NoScore THEN 0 ELSE s.conf)

Branch == [HIGH |-> "deliver", MEDIUM |-> "review", LOW |-> "dlq"]

Route ==
  /\ at = "route"
  /\ Goto(Branch[Decision], [s EXCEPT !.decision = Decision])
  /\ UNCHANGED job

Deliver ==
  /\ at = "deliver"
  /\ Goto("end", [s EXCEPT !.status = "completed"])
  /\ UNCHANGED job

Review ==
  /\ at = "review"
  /\ Goto("end", [s EXCEPT !.status = "review"])
  /\ UNCHANGED job

Dlq ==
  /\ at = "dlq"
  /\ Goto("end", [s EXCEPT !.status = "rejected",
                           !.reason = IF @ = "none" THEN "LOW_CONFIDENCE" ELSE @])
  /\ UNCHANGED job

\* The document is run again, and finds its schema as it is then.
Again ==
  /\ at = "end"
  /\ runs < MaxRuns
  /\ runs' = runs + 1
  /\ at' = "load"
  /\ \E input \in Inputs : s' = [s EXCEPT !.status = "pending", !.schema = input]
  /\ UNCHANGED job

Step ==
  \/ Load \/ Upload \/ Poll \/ PollTimesOut \/ Result \/ Local \/ Ocr
  \/ Guardrail
  \/ Extract \/ Primary \/ Fallback
  \/ Score \/ Route \/ Deliver \/ Review \/ Dlq

Next == Step \/ Again

Spec == Init /\ [][Next]_vars

\* Each await of a run returns or times out; nobody has to run it again.
FairSpec == Spec /\ WF_vars(Step)

-----------------------------------------------------------------------------
(* What is promised *)

\* The graph as the rest of the system sees it, where parse and extract are
\* one step each and a score is the side of the thresholds it is on.
AbstractAt ==
  IF at \in ParseSteps THEN "parse"
  ELSE IF at \in ExtractSteps THEN "extract" ELSE at

Abstract ==
  [status    |-> s.status,
   reason    |-> s.reason,
   text      |-> IF s.text = NoText THEN "none"
                 ELSE IF IsEmpty(s.text) THEN "none"
                 ELSE IF s.text.injection THEN "injection" ELSE "plain",
   extracted |-> s.fields # {},
   conf      |-> IF s.conf = NoScore THEN "none" ELSE Level(s.conf),
   decision  |-> s.decision]

Graph == INSTANCE GraphRun WITH at <- AbstractAt, st <- Abstract

\* The runs of a document do what DocumentLifecycle takes them to do: the
\* parser's retries, the fallback model and the scoring are steps of the
\* nodes in Pipeline, with no outcome it does not know (nodes.py).
ImplementsGraph == Graph!Spec

\* Every variable keeps its type; a score stays within [0, 1], also that of an
\* extraction left by a run under an earlier schema (nodes.py:138-149).
TypeOK ==
  /\ at \in Steps
  /\ s \in State
  /\ job \in [attempt : 0..MaxRetries, waited : Nat, requests : Nat]
  /\ runs \in Nat

\* No model is given a text that is missing, empty or blocked: whatever the
\* earlier nodes and runs did, the text at the call is the one that passed
\* the guardrails of this run (guardrails/__init__.py).
BlockedNeverSent ==
  at \in {"primary", "fallback"} =>
    /\ s.text # NoText
    /\ s.text.chars >= MinChars
    /\ ~ s.text.injection

\* One weak signal is enough: a document is completed only if each of what the
\* model reported, the required fields and the filled properties reaches the
\* high threshold by itself, up to half a unit of rounding (confidence.py:8-9).
WeakSignalHolds ==
  s.status = "completed" =>
    \A signal \in {Completeness, FillRate,
                   IF s.self > 0 THEN <<s.self, Unit>> ELSE <<1, 1>>} :
      2 * signal[1] * Unit + signal[2] >= 2 * High * signal[2]

\* The cloud service is asked within a bounded budget, however slow its
\* answers and whichever of them fail (llamaparse.py:3-6).
BudgetKept == job.requests <= Budget

\* How many steps a run has left at most, whatever the parsers, models and schema
\* do: what the attempts to come may use, what this one may, and the nodes after.
StepsLeft ==
  LET later == (MaxRetries - job.attempt) * (PollTime + 2)
      nodes == [local |-> 9, ocr |-> 8, guardrail |-> 7, extract |-> 6, primary |-> 5,
                fallback |-> 4, score |-> 3, route |-> 2, deliver |-> 1, review |-> 1,
                dlq |-> 1, end |-> 0]
  IN  CASE at = "load"   -> 10 + Budget
        [] at = "upload" -> 9 + later + PollTime + 2
        [] at = "poll"   -> 9 + later + 1 +
                              IF job.waited < PollTime THEN PollTime - job.waited ELSE 0
        [] at = "result" -> 9 + later + 1
        [] OTHER -> nodes[at]

\* Every step of a run uses one of them up, so it ends after at most Budget + 10:
\* no retry, poll or fallback gives back what has been used (llamaparse.py:43-60).
RunAdvances == [][runs' = runs => StepsLeft' < StepsLeft]_vars

\* A run that began ends: no attempt, poll or fallback goes on for ever.
RunEnds == at # "end" ~> at = "end"

=============================================================================
