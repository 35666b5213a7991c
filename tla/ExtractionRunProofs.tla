------------------------- MODULE ExtractionRunProofs -------------------------
(***************************************************************************)
(* ExtractionRun keeps its types and its budget, sends no blocked text to  *)
(* a model, and implements GraphRun.                                       *)
(***************************************************************************)
EXTENDS ExtractionRun, FiniteSetTheorems, TLAPS

-----------------------------------------------------------------------------
(* Scores *)

\* The unit of scores, as far as the proofs use it.
LEMMA UnitIsPositive == Unit \in Nat /\ Unit > 0
BY DEF Unit

\* A fraction between 0 and 1.
Fraction(p) == p \in Nat \X Nat /\ p[2] > 0 /\ p[1] <= p[2]

\* The share of a finite set that lies in another is a fraction
\* (confidence.py:39-40).
LEMMA ShareIsFraction ==
  ASSUME NEW A, NEW B, IsFiniteSet(A), A # {}, B \subseteq A
  PROVE  Fraction(<<Cardinality(B), Cardinality(A)>>)
<1>1. IsFiniteSet(B) /\ Cardinality(B) <= Cardinality(A)
  BY FS_Subset
<1>2. Cardinality(A) \in Nat /\ Cardinality(B) \in Nat /\ Cardinality(A) # 0
  BY <1>1, FS_CardinalityType, FS_EmptySet
<1>. QED  BY <1>1, <1>2 DEF Fraction

\* The smaller of two fractions is a fraction (confidence.py:62).
LEMMA LowerIsFraction ==
  ASSUME NEW p, NEW q, Fraction(p), Fraction(q)
  PROVE  Fraction(Lower(p, q))
BY DEF Lower

\* Required fields that are present make a fraction of the required fields.
LEMMA CompletenessIsFraction ==
  ASSUME TypeOK PROVE Fraction(Completeness)
<1>1. s.schema.required \subseteq Fields
  BY DEF TypeOK, State
<1>2. IsFiniteSet(s.schema.required)
  BY <1>1, Schemas, FS_Subset
<1>3. CASE s.schema.required = {}
  BY <1>3 DEF Completeness, Fraction
<1>4. CASE s.schema.required # {}
  BY <1>2, <1>4, ShareIsFraction DEF Completeness
<1>. QED  BY <1>3, <1>4

\* The fill rate is clipped at 1 (nodes.py:138-139).
LEMMA FillRateIsFraction ==
  ASSUME TypeOK PROVE Fraction(FillRate)
<1>1. s.schema.props \subseteq Fields /\ s.fields \subseteq Fields
  BY DEF TypeOK, State
<1>2. IsFiniteSet(s.schema.props) /\ IsFiniteSet(s.fields)
  BY <1>1, Schemas, FS_Subset
<1>3. /\ Cardinality(s.schema.props) \in Nat
      /\ Cardinality(s.fields) \in Nat
      /\ s.schema.props # {} => Cardinality(s.schema.props) # 0
      /\ s.fields # {} => Cardinality(s.fields) # 0
  BY <1>2, FS_CardinalityType, FS_EmptySet
<1>4. Total \in Nat /\ Total > 0
  BY <1>3 DEF Total
<1>. QED  BY <1>3, <1>4 DEF FillRate, Fraction

\* What stands for the model's own confidence is a fraction.
LEMMA SelfReportIsFraction ==
  ASSUME TypeOK PROVE Fraction(SelfReport)
<1>1. s.self \in 0..Unit
  BY DEF TypeOK, State
<1>2. s.self \in Nat /\ Unit \in Nat /\ Unit > 0 /\ s.self <= Unit
  BY <1>1, UnitIsPositive
<1>3. Fraction(<<s.self, Unit>>)
  BY <1>2 DEF Fraction
<1>. QED
  BY <1>3, CompletenessIsFraction, FillRateIsFraction, LowerIsFraction DEF SelfReport

\* What \div and % give.
LEMMA Division ==
  ASSUME NEW a \in Nat, NEW d \in Nat, d > 0
  PROVE  \E q \in Nat, r \in 0..(d - 1) :
           q = a \div d /\ r = a % d /\ a = d * q + r
<1>1. PICK q \in Nat : q = a \div d
  OBVIOUS
<1>2. PICK r \in 0..(d - 1) : r = a % d
  OBVIOUS
<1>3. a = d * q + r
  BY <1>1, <1>2
<1>. QED  BY <1>1, <1>2, <1>3, Zenon

\* A product grows with each of its factors.
LEMMA Product ==
  ASSUME NEW a \in Nat, NEW b \in Nat, NEW c \in Nat, a <= b
  PROVE  a * c <= b * c /\ c * a <= c * b
OBVIOUS

\* Rounding a fraction of m gives at most m (confidence.py:63).
LEMMA RoundedBounded ==
  ASSUME NEW p, Fraction(p), NEW m \in Nat
  PROVE  Rounded(p, m) \subseteq 0..m
<1>. DEFINE n == p[1]
            d == p[2]
<1>1. n \in Nat /\ d \in Nat /\ d > 0 /\ n <= d
  BY DEF Fraction
<1>2. n * m \in Nat /\ n * m <= d * m
  BY <1>1, Product
<1>3. PICK q \in Nat, r \in 0..(d - 1) :
        q = (n * m) \div d /\ r = (n * m) % d /\ n * m = d * q + r
  BY <1>1, <1>2, Division
<1>4. Rounded(p, m) = IF 2 * r < d THEN {q}
                      ELSE IF 2 * r > d THEN {q + 1} ELSE {q, q + 1}
  BY <1>3 DEF Rounded
<1>. HIDE DEF n, d
<1>5. q <= m
  <2>. SUFFICES ASSUME m + 1 <= q PROVE FALSE
    BY <1>3
  <2>1. d * (m + 1) <= d * q
    BY <1>1, <1>3, Product
  <2>2. d * (m + 1) = d * m + d
    BY <1>1
  <2>3. d * q \in Nat /\ d * m \in Nat
    BY <1>1, <1>3
  <2>. QED  BY <1>1, <1>2, <1>3, <2>1, <2>2, <2>3
<1>6. r > 0 => q + 1 <= m
  <2>. SUFFICES ASSUME r > 0, q = m PROVE FALSE
    BY <1>3, <1>5
  <2>1. d * q = d * m /\ d * m \in Nat
    BY <1>1
  <2>. QED  BY <1>2, <1>3, <2>1
<1>7. 2 * r >= d => r > 0
  BY <1>1, <1>3
<1>. QED  BY <1>1, <1>3, <1>4, <1>5, <1>6, <1>7

\* A document's confidence is a score (nodes.py:145-152).
LEMMA ConfidenceIsScore ==
  ASSUME TypeOK PROVE Confidence \subseteq 0..Unit
<1>1. Fraction(Lower(Lower(SelfReport, Completeness), FillRate))
  BY SelfReportIsFraction, CompletenessIsFraction, FillRateIsFraction, LowerIsFraction
<1>2. s.mult \in 1..Unit
  BY DEF TypeOK, State
<1>3. s.mult \in Nat /\ s.mult <= Unit /\ Unit \in Nat
  BY <1>2, UnitIsPositive
<1>4. Confidence \subseteq 0..s.mult
  BY <1>1, <1>3, RoundedBounded DEF Confidence
<1>. QED  BY <1>3, <1>4

-----------------------------------------------------------------------------
(* Types *)

\* A failed node leaves a graph state.
LEMMA FailedIsState ==
  ASSUME s \in State,
         NEW reason \in {"PARSE_FAILED", "PARSE_EMPTY_OUTPUT", "GUARDRAIL_BLOCK",
                         "INJECTION_DETECTED", "EXTRACTION_FAILED"}
  PROVE  Failed(reason) \in State
BY DEF Failed, State

\* The steps of parse_node keep the types.
LEMMA ParsingTyped ==
  ASSUME TypeOK, Load \/ Upload \/ Poll \/ PollTimesOut \/ Result \/ Local \/ Ocr
  PROVE  TypeOK'
<1>. USE DEF TypeOK, Goto, Steps, ParseSteps, NoJob
<1>1. ASSUME ParseFails PROVE TypeOK'
  BY <1>1, FailedIsState, Times DEF ParseFails
<1>2. ASSUME NEW t \in Texts, Parsed(t) PROVE TypeOK'
  <2>1. [Failed("PARSE_EMPTY_OUTPUT") EXCEPT !.text = t] \in State
    BY FailedIsState DEF State
  <2>2. [s EXCEPT !.status = "guarding", !.text = t] \in State
    BY DEF State
  <2>. QED  BY <1>2, <2>1, <2>2, Times DEF Parsed
<1>3. ASSUME NEW requests \in Nat, Retry(requests) PROVE TypeOK'
  BY <1>3, Times DEF Retry
<1>4. Counted \in Nat
  BY DEF Counted
<1>5. CASE Load
  BY <1>1, <1>5, Times DEF Load
<1>6. CASE Upload
  <2>1. [job EXCEPT !.waited = 0, !.requests = Counted]
          \in [attempt : 0..MaxRetries, waited : Nat, requests : Nat]
    BY <1>4
  <2>2. CASE Goto("poll", s) /\ job' = [job EXCEPT !.waited = 0, !.requests = Counted]
    BY <2>1, <2>2
  <2>3. CASE Retry(Counted)
    BY <1>3, <1>4, <2>3
  <2>4. CASE ParseFails
    BY <1>1, <2>4
  <2>. QED  BY <1>6, <2>2, <2>3, <2>4 DEF Upload
<1>7. CASE Poll
  <2>1. [job EXCEPT !.requests = Counted]
          \in [attempt : 0..MaxRetries, waited : Nat, requests : Nat]
    BY <1>4
  <2>2. CASE Goto("result", s) /\ job' = [job EXCEPT !.requests = Counted]
    BY <2>1, <2>2
  <2>3. ASSUME NEW cost \in Costs, Goto("poll", s),
               job' = [job EXCEPT !.waited = Waited(cost), !.requests = Counted]
        PROVE  TypeOK'
    <3>1. Waited(cost) \in Nat
      BY Times DEF Waited
    <3>2. [job EXCEPT !.waited = Waited(cost), !.requests = Counted]
            \in [attempt : 0..MaxRetries, waited : Nat, requests : Nat]
      BY <1>4, <3>1
    <3>. QED  BY <2>3, <3>2
  <2>4. CASE Retry(Counted)
    BY <1>3, <1>4, <2>4
  <2>5. CASE ParseFails
    BY <1>1, <2>5
  <2>. QED  BY <1>7, <2>2, <2>3, <2>4, <2>5 DEF Poll
<1>8. CASE PollTimesOut
  BY <1>3, <1>8 DEF PollTimesOut
<1>9. CASE Result
  BY <1>1, <1>2, <1>3, <1>4, <1>9 DEF Result
<1>10. CASE Local
  BY <1>1, <1>2, <1>10 DEF Local
<1>11. CASE Ocr
  BY <1>1, <1>2, <1>11 DEF Ocr
<1>. QED  BY <1>5, <1>6, <1>7, <1>8, <1>9, <1>10, <1>11

\* The nodes after it keep the types.
LEMMA NodesTyped ==
  ASSUME TypeOK,
         Guardrail \/ Extract \/ Primary \/ Fallback \/ Score \/ Route
           \/ Deliver \/ Review \/ Dlq \/ Again
  PROVE  TypeOK'
<1>. USE DEF TypeOK, Goto, Steps, ParseSteps, ExtractSteps
<1>1. CASE Guardrail
  <2>1. Multiplier(s.text) \in 1..Unit
    BY DEF Multiplier, WarnMultiplier, Unit
  <2>2. [s EXCEPT !.status = "extracting", !.mult = Multiplier(s.text)] \in State
    BY <2>1 DEF State
  <2>. QED  BY <1>1, <2>2, FailedIsState DEF Guardrail, Block
<1>2. CASE Extract
  BY <1>2 DEF Extract
<1>3. ASSUME ExtractFails, UNCHANGED job PROVE TypeOK'
  BY <1>3, FailedIsState DEF ExtractFails
<1>4. ASSUME Answered, UNCHANGED job PROVE TypeOK'
  <2>. DEFINE New(values, self) ==
         [s EXCEPT !.status = "scoring",
                   !.fields = {f \in s.schema.props : values[f] # "null"},
                   !.blank = {f \in s.schema.props : values[f] = "blank"},
                   !.self = self]
  <2>1. s.schema.props \subseteq Fields
    BY DEF State
  <2>2. ASSUME NEW values, NEW self \in SelfReports PROVE New(values, self) \in State
    BY <2>1, Thresholds DEF State
  <2>3. /\ at' = "score" /\ UNCHANGED runs
        /\ \E values \in [s.schema.props -> {"null", "blank", "text"}], self \in SelfReports :
             s' = New(values, self)
    BY <1>4, Zenon DEF Answered
  <2>. HIDE DEF New
  <2>4. s' \in State
    BY <2>2, <2>3
  <2>. QED  BY <1>4, <2>3, <2>4
<1>5. CASE Primary
  BY <1>3, <1>4, <1>5 DEF Primary
<1>6. CASE Fallback
  BY <1>3, <1>4, <1>6 DEF Fallback
<1>7. CASE Score
  <2>1. ASSUME NEW conf \in Confidence
        PROVE  [s EXCEPT !.status = "routing", !.conf = conf] \in State
    BY <2>1, ConfidenceIsScore DEF State
  <2>. QED  BY <1>7, <2>1 DEF Score
<1>8. CASE Route
  <2>1. Decision \in {"HIGH", "MEDIUM", "LOW"}
    BY DEF Decision, Level
  <2>2. [s EXCEPT !.decision = Decision] \in State
    BY <2>1 DEF State
  <2>. QED  BY <1>8, <2>1, <2>2 DEF Route, Branch
<1>9. CASE Deliver \/ Review
  <2>1. ASSUME NEW status \in {"completed", "review"}
        PROVE  [s EXCEPT !.status = status] \in State
    BY DEF State
  <2>. QED  BY <1>9, <2>1 DEF Deliver, Review
<1>10. CASE Dlq
  BY <1>10 DEF Dlq, State
<1>11. CASE Again
  <2>1. ASSUME NEW input \in Inputs
        PROVE  [s EXCEPT !.status = "pending", !.schema = input] \in State
    BY Schemas DEF State
  <2>2. s' \in State
    BY <1>11, <2>1 DEF Again
  <2>3. at' = "load" /\ runs' = runs + 1 /\ UNCHANGED job
    BY <1>11 DEF Again
  <2>. QED  BY <2>2, <2>3
<1>. QED
  BY <1>1, <1>2, <1>5, <1>6, <1>7, <1>8, <1>9, <1>10, <1>11

\* The first run begins with variables of their types.
LEMMA TypesAtStart == Init => TypeOK
BY Schemas, Times, UnitIsPositive DEF Init, TypeOK, State, Steps, ParseSteps, NoJob

\* Every variable keeps its type, scores within [0, 1] included, for any
\* schemas, texts, thresholds, retries and runs.
THEOREM TypeCorrect == Spec => []TypeOK
<1>1. Init => TypeOK
  BY TypesAtStart
<1>2. TypeOK /\ [Next]_vars => TypeOK'
  <2>. SUFFICES ASSUME TypeOK, [Next]_vars PROVE TypeOK'
    OBVIOUS
  <2>1. CASE UNCHANGED vars
    BY <2>1 DEF TypeOK, vars
  <2>. QED  BY <2>1, ParsingTyped, NodesTyped DEF Next, Step
<1>. QED  BY <1>1, <1>2, PTL DEF Spec

-----------------------------------------------------------------------------
(* What the nodes hand on *)

\* A text that reaches the guardrails has been found non-empty.
ParsedInv ==
  at = "guardrail" /\ ~ Halted => s.text \in Texts /\ ~ IsEmpty(s.text)

\* A text that reaches the extraction has passed the guardrails.
GuardedInv ==
  at \in ExtractSteps /\ ~ Halted =>
    s.text \in Texts /\ ~ IsEmpty(s.text) /\ ~ s.text.injection

\* A model is asked only by a run that has not failed and has no extraction.
CallInv == at \in {"primary", "fallback"} => ~ Halted /\ s.fields = {}

\* A run that reaches the routing without having failed has a score.
ScoredInv == at = "route" /\ ~ Halted => s.conf # NoScore

GraphInv == TypeOK /\ ParsedInv /\ GuardedInv /\ CallInv /\ ScoredInv

\* After a model comes the score, or the fallback with the state unchanged.
LEMMA ModelsLead ==
  ASSUME Primary \/ Fallback
  PROVE  at' = "score" \/ (at' = "fallback" /\ s' = s)
<1>1. Answered => at' = "score"
  BY Zenon DEF Answered, Goto
<1>2. ExtractFails => at' = "score"
  BY DEF ExtractFails, Goto
<1>3. Goto("fallback", s) => at' = "fallback" /\ s' = s
  BY DEF Goto
<1>4. Primary => at' = "score" \/ (at' = "fallback" /\ s' = s)
  BY <1>1, <1>2, <1>3 DEF Primary
<1>5. Fallback => at' = "score"
  BY <1>1, <1>2 DEF Fallback
<1>. QED  BY <1>4, <1>5

\* Each step hands on what the next one relies on.
LEMMA GraphInvStep ==
  ASSUME GraphInv, [Next]_vars
  PROVE  GraphInv'
<1>. USE DEF GraphInv, ParsedInv, GuardedInv, CallInv, ScoredInv, Halted, IsEmpty
<1>1. TypeOK'
  <2>1. CASE UNCHANGED vars
    BY <2>1 DEF TypeOK, vars
  <2>. QED  BY <2>1, ParsingTyped, NodesTyped DEF Next, Step
<1>2. s \in State
  BY DEF TypeOK
<1>3. CASE UNCHANGED vars
  BY <1>1, <1>3 DEF vars
<1>4. ASSUME Goto("guardrail", Failed("PARSE_FAILED")) PROVE GraphInv'
  BY <1>1, <1>2, <1>4 DEF Goto, Failed, State, ExtractSteps
<1>5. ASSUME NEW t \in Texts, Parsed(t) PROVE GraphInv'
  BY <1>1, <1>2, <1>5 DEF Parsed, Goto, Failed, State, ExtractSteps
<1>6. ASSUME at' \in ParseSteps PROVE GraphInv'
  BY <1>1, <1>6 DEF ParseSteps, ExtractSteps
<1>7. ASSUME NEW requests, Retry(requests) PROVE GraphInv'
  BY <1>6, <1>7 DEF Retry, Goto, ParseSteps
<1>8. CASE Load \/ Upload \/ Poll \/ PollTimesOut
  BY <1>4, <1>6, <1>7, <1>8
     DEF Load, Upload, Poll, PollTimesOut, ParseFails, Goto, ParseSteps
<1>9. CASE Result \/ Local \/ Ocr
  BY <1>4, <1>5, <1>6, <1>7, <1>9
     DEF Result, Local, Ocr, ParseFails, Goto, ParseSteps
<1>10. CASE Guardrail
  <2>1. at' = "extract" /\ at = "guardrail"
    BY <1>10 DEF Guardrail, Goto
  <2>2. CASE Halted
    BY <1>1, <1>10, <2>1, <2>2 DEF Guardrail, Goto, ExtractSteps
  <2>3. CASE ~ Halted /\ Block(s.text) # "none"
    BY <1>1, <1>2, <1>10, <2>1, <2>3 DEF Guardrail, Goto, Failed, State, ExtractSteps
  <2>4. CASE ~ Halted /\ Block(s.text) = "none"
    <3>1. ~ s.text.injection
      BY <2>4 DEF Block
    <3>2. s' = [s EXCEPT !.status = "extracting", !.mult = Multiplier(s.text)]
      BY <1>10, <2>4 DEF Guardrail, Goto
    <3>3. s'.text = s.text /\ s'.status = "extracting"
      BY <1>2, <3>2 DEF State
    <3>. QED  BY <1>1, <2>1, <2>4, <3>1, <3>3
  <2>. QED  BY <2>2, <2>3, <2>4
<1>11. CASE Extract
  BY <1>1, <1>11 DEF Extract, Goto, ExtractSteps
<1>12. CASE Primary \/ Fallback
  <2>1. at' = "score" \/ (at' = "fallback" /\ s' = s)
    BY <1>12, ModelsLead
  <2>2. at \in {"primary", "fallback"}
    BY <1>12 DEF Primary, Fallback
  <2>. QED  BY <1>1, <2>1, <2>2 DEF ExtractSteps
<1>13. CASE Score
  <2>1. CASE Halted
    BY <1>1, <1>13, <2>1 DEF Score, Goto, ExtractSteps
  <2>2. CASE ~ Halted
    <3>1. PICK conf \in Confidence :
            Goto("route", [s EXCEPT !.status = "routing", !.conf = conf])
      BY <1>13, <2>2 DEF Score
    <3>2. conf # NoScore
      BY <3>1, ConfidenceIsScore, UnitIsPositive, Thresholds
    <3>. QED  BY <1>1, <1>2, <3>1, <3>2 DEF Goto, State, ExtractSteps
  <2>. QED  BY <2>1, <2>2
<1>14. CASE Route \/ Deliver \/ Review \/ Dlq \/ Again
  <2>1. at' \in {"deliver", "review", "dlq", "end", "load"}
    BY <1>14 DEF Route, Deliver, Review, Dlq, Again, Goto, Branch, Decision, Level
  <2>. QED  BY <1>1, <2>1 DEF ExtractSteps
<1>. QED
  BY <1>3, <1>8, <1>9, <1>10, <1>11, <1>12, <1>13, <1>14 DEF Next, Step

\* So it holds in every state of every run.
LEMMA GraphInvAlways == Spec => []GraphInv
<1>1. Init => GraphInv
  BY TypesAtStart DEF Init, GraphInv, ParsedInv, GuardedInv, CallInv, ScoredInv, ExtractSteps
<1>. QED  BY <1>1, GraphInvStep, PTL DEF Spec

\* No model is given a text that is missing, empty or blocked, whatever parsers
\* return and however often the document is run.
THEOREM NothingBlockedIsSent == Spec => []BlockedNeverSent
<1>1. GraphInv => BlockedNeverSent
  BY Measured DEF GraphInv, GuardedInv, CallInv, BlockedNeverSent, ExtractSteps,
                  IsEmpty, MinChars
<1>. QED  BY <1>1, GraphInvAlways, PTL

-----------------------------------------------------------------------------
(* The parser's requests *)

\* What an attempt may use, and what the attempts before number n may have used.
Share == PollTime + 2

Spent(n) == (n - 1) * Share

\* The attempts' shares add up to the budget.
LEMMA SpentGrows ==
  /\ Share \in Nat /\ Share = PollTime + 2
  /\ Budget \in Nat
  /\ Spent(1) = 0
  /\ \A n \in 1..MaxRetries :
       /\ Spent(n) \in Nat
       /\ Spent(n + 1) = Spent(n) + Share
       /\ Spent(n) + Share <= Budget
<1>1. Share \in Nat
  BY Times DEF Share
<1>2. Budget = MaxRetries * Share /\ Budget \in Nat
  BY Times DEF Budget, Share
<1>3. ASSUME NEW n \in 1..MaxRetries
      PROVE  /\ Spent(n) \in Nat
             /\ Spent(n + 1) = Spent(n) + Share
             /\ Spent(n) + Share <= Budget
  <2>1. n \in Nat /\ n - 1 \in Nat /\ n <= MaxRetries /\ MaxRetries \in Nat
    BY Times
  <2>2. Spent(n) \in Nat /\ Spent(n + 1) = n * Share
    BY <1>1, <2>1 DEF Spent
  <2>3. n * Share = Spent(n) + Share
    BY <1>1, <2>1 DEF Spent
  <2>4. n * Share <= MaxRetries * Share
    BY <1>1, <2>1, Product
  <2>. QED  BY <1>2, <2>2, <2>3, <2>4
<1>4. Spent(1) = 0
  BY <1>1 DEF Spent
<1>. QED  BY <1>1, <1>2, <1>3, <1>4 DEF Share

\* Within an attempt each poll is followed by a second of waiting, so the
\* requests so far are bounded by the seconds waited.
JobInv ==
  /\ at \notin ParseSteps \ {"load"} => job = NoJob
  /\ at \in {"upload", "poll", "result"} => job.attempt \in 1..MaxRetries
  /\ at = "upload" => job.requests <= Spent(job.attempt)
  /\ at = "poll" => /\ job.requests <= Spent(job.attempt) + 1 + job.waited
                    /\ job.requests <= Spent(job.attempt) + 1 + PollTime
  /\ at = "result" => job.requests <= Spent(job.attempt) + 1 + PollTime
  /\ at \in {"local", "ocr"} => job.requests <= Budget

\* Each request stays within the share of its attempt.
LEMMA JobInvStep ==
  ASSUME TypeOK, JobInv, [Next]_vars
  PROVE  JobInv'
<1>. USE DEF JobInv, Goto
<1>1. /\ job.attempt \in 0..MaxRetries /\ job.waited \in Nat /\ job.requests \in Nat
      /\ job = [attempt |-> job.attempt, waited |-> job.waited, requests |-> job.requests]
      /\ PollTime \in Nat /\ MaxRetries \in Nat \ {0}
  BY Times DEF TypeOK
<1>2. Counted \in Nat /\ Counted <= job.requests + 1
  BY <1>1, SpentGrows DEF Counted
<1>3. CASE UNCHANGED vars
  BY <1>3 DEF vars
<1>4. ASSUME at' = "guardrail", job' = NoJob PROVE JobInv'
  BY <1>4 DEF ParseSteps
<1>5. ASSUME job.attempt \in 1..MaxRetries, NEW requests \in Nat,
             requests <= Spent(job.attempt) + Share, Retry(requests)
      PROVE  JobInv'
  <2>1. /\ Spent(job.attempt) + Share = Spent(job.attempt + 1)
        /\ Spent(job.attempt) + Share <= Budget
        /\ Spent(job.attempt) \in Nat /\ Share \in Nat /\ Budget \in Nat
    BY <1>5, SpentGrows
  <2>2. CASE job.attempt < MaxRetries
    <3>1. /\ at' = "upload"
          /\ job' = [attempt |-> job.attempt + 1, waited |-> 0, requests |-> requests]
      BY <1>5, <2>2 DEF Retry
    <3>. QED  BY <1>1, <1>5, <2>1, <2>2, <3>1 DEF ParseSteps
  <2>3. CASE ~ (job.attempt < MaxRetries)
    <3>1. at' = "local" /\ job'.requests = requests
      BY <1>1, <1>5, <2>3 DEF Retry
    <3>. QED  BY <1>5, <2>1, <3>1 DEF ParseSteps
  <2>. QED  BY <2>2, <2>3
<1>6. CASE Load
  BY <1>1, <1>4, <1>6, SpentGrows DEF Load, ParseFails, ParseSteps, NoJob
<1>7. CASE Upload
  <2>1. /\ at = "upload" /\ job.attempt \in 1..MaxRetries
        /\ Counted <= Spent(job.attempt) + 1 /\ Spent(job.attempt) \in Nat
        /\ Counted <= Spent(job.attempt) + Share
    BY <1>1, <1>2, <1>7, SpentGrows DEF Upload
  <2>2. CASE Goto("poll", s) /\ job' = [job EXCEPT !.waited = 0, !.requests = Counted]
    <3>1. job'.attempt = job.attempt /\ job'.waited = 0 /\ job'.requests = Counted
      BY <1>1, <2>2
    <3>. QED  BY <1>1, <1>2, <2>1, <2>2, <3>1 DEF ParseSteps
  <2>. QED  BY <1>2, <1>4, <1>5, <1>7, <2>1, <2>2 DEF Upload, ParseFails
<1>8. CASE Poll
  <2>1. /\ at = "poll" /\ job.attempt \in 1..MaxRetries /\ job.waited < PollTime
        /\ Spent(job.attempt) \in Nat
        /\ Counted <= Spent(job.attempt) + 2 + job.waited
        /\ Counted <= Spent(job.attempt) + 1 + PollTime
        /\ Counted <= Spent(job.attempt) + Share
    <3>1. at = "poll" /\ job.attempt \in 1..MaxRetries /\ job.waited < PollTime
      BY <1>8 DEF Poll
    <3>2. Spent(job.attempt) \in Nat /\ Share = PollTime + 2
      BY <3>1, SpentGrows
    <3>3. job.requests <= Spent(job.attempt) + 1 + job.waited
      BY <3>1
    <3>. QED  BY <1>1, <1>2, <3>1, <3>2, <3>3
  <2>2. CASE Goto("result", s) /\ job' = [job EXCEPT !.requests = Counted]
    <3>1. job'.attempt = job.attempt /\ job'.requests = Counted
      BY <1>1, <2>2
    <3>. QED  BY <2>1, <2>2, <3>1 DEF ParseSteps
  <2>3. ASSUME NEW cost \in Costs, Goto("poll", s),
               job' = [job EXCEPT !.waited = Waited(cost), !.requests = Counted]
        PROVE  JobInv'
    <3>1. Waited(cost) \in Nat /\ Waited(cost) >= job.waited + 1
      BY <1>1, Times DEF Waited
    <3>2. /\ job'.attempt = job.attempt
          /\ job'.waited = Waited(cost) /\ job'.requests = Counted
      BY <1>1, <2>3
    <3>. QED  BY <1>1, <1>2, <2>1, <2>3, <3>1, <3>2 DEF ParseSteps
  <2>. QED  BY <1>2, <1>4, <1>5, <1>8, <2>1, <2>2, <2>3 DEF Poll, ParseFails
<1>9. CASE PollTimesOut
  BY <1>1, <1>5, <1>9, SpentGrows DEF PollTimesOut
<1>10. CASE Result
  <2>1. /\ job.attempt \in 1..MaxRetries
        /\ Counted <= Spent(job.attempt) + Share
    BY <1>1, <1>2, <1>10, SpentGrows DEF Result
  <2>. QED  BY <1>2, <1>4, <1>5, <1>10, <2>1 DEF Result, ParseFails, Parsed
<1>11. CASE Local \/ Ocr
  BY <1>4, <1>11 DEF Local, Ocr, ParseFails, Parsed, ParseSteps
<1>12. CASE Guardrail \/ Extract \/ Primary \/ Fallback \/ Score \/ Route
              \/ Deliver \/ Review \/ Dlq \/ Again
  <2>1. at \notin ParseSteps /\ job' = job
    BY <1>12 DEF Guardrail, Extract, Primary, Fallback, Score, Route, Deliver,
                 Review, Dlq, Again, ParseSteps
  <2>2. at' \notin ParseSteps \ {"load"}
    <3>2. CASE Guardrail \/ Extract \/ Deliver \/ Review \/ Dlq \/ Again
      BY <3>2 DEF Guardrail, Extract, Deliver, Review, Dlq, Again, ParseSteps
    <3>3. CASE Primary \/ Fallback
      BY <3>3, ModelsLead DEF ParseSteps
    <3>4. CASE Score
      BY <3>4 DEF Score, ParseSteps
    <3>5. CASE Route
      BY <3>5 DEF Route, Branch, Decision, Level, ParseSteps
    <3>. QED  BY <1>12, <3>2, <3>3, <3>4, <3>5
  <2>. QED  BY <2>1, <2>2 DEF ParseSteps
<1>. QED
  BY <1>3, <1>6, <1>7, <1>8, <1>9, <1>10, <1>11, <1>12 DEF Next, Step

\* The cloud service is asked no more often than its budget allows, for any
\* deadline, number of retries and answering times.
THEOREM BudgetIsKept == Spec => []BudgetKept
<1>1. Init => JobInv
  BY DEF Init, JobInv, ParseSteps, NoJob
<1>2. TypeOK /\ JobInv /\ [Next]_vars => JobInv'
  BY JobInvStep
<1>3. TypeOK /\ JobInv => BudgetKept
  <2>. SUFFICES ASSUME TypeOK, JobInv PROVE job.requests <= Budget
    BY DEF BudgetKept
  <2>1. job.requests \in Nat /\ PollTime \in Nat /\ Budget \in Nat
    BY SpentGrows, Times DEF TypeOK
  <2>2. CASE at \in {"upload", "poll", "result"}
    BY <2>1, <2>2, SpentGrows DEF JobInv
  <2>3. CASE at \in {"local", "ocr"}
    BY <2>3 DEF JobInv
  <2>4. CASE at = "load" \/ at \notin ParseSteps
    BY <2>1, <2>4 DEF JobInv, NoJob, ParseSteps
  <2>. QED  BY <2>2, <2>3, <2>4 DEF ParseSteps
<1>. QED  BY <1>1, <1>2, <1>3, TypeCorrect, PTL DEF Spec

-----------------------------------------------------------------------------
(* The steps of a run *)

\* What the attempts after number n may take.
Later(n) == (MaxRetries - n) * Share

\* Each attempt takes its share of what is left.
LEMMA LaterShrinks ==
  /\ Share \in Nat /\ Share = PollTime + 2
  /\ Budget \in Nat
  /\ Later(1) + Share = Budget
  /\ \A n \in 1..MaxRetries :
       /\ Later(n) \in Nat
       /\ n < MaxRetries => Later(n) = Later(n + 1) + Share
<1>1. Share \in Nat
  BY Times DEF Share
<1>2. Budget = MaxRetries * Share /\ Budget \in Nat
  BY Times DEF Budget, Share
<1>3. Later(1) + Share = Budget
  BY <1>1, <1>2, Times DEF Later
<1>4. ASSUME NEW n \in 1..MaxRetries
      PROVE  /\ Later(n) \in Nat
             /\ n < MaxRetries => Later(n) = Later(n + 1) + Share
  <2>1. MaxRetries - n \in Nat
    BY Times
  <2>2. Later(n) \in Nat
    BY <1>1, <2>1 DEF Later
  <2>3. ASSUME n < MaxRetries PROVE Later(n) = Later(n + 1) + Share
    <3>1. MaxRetries - (n + 1) \in Nat /\ MaxRetries - n = (MaxRetries - (n + 1)) + 1
      BY <2>3, Times
    <3>2. \A k \in Nat : (k + 1) * Share = k * Share + Share
      BY <1>1
    <3>. QED  BY <3>1, <3>2 DEF Later
  <2>. QED  BY <2>2, <2>3
<1>. QED  BY <1>1, <1>2, <1>3, <1>4 DEF Share

\* What is left at each step, now and in the next state.
LEMMA StepsLeftAt ==
  /\ at = "load" => StepsLeft = 10 + Budget
  /\ at = "upload" => StepsLeft = 9 + Later(job.attempt) + PollTime + 2
  /\ at = "poll" /\ job.waited < PollTime =>
       StepsLeft = 9 + Later(job.attempt) + 1 + (PollTime - job.waited)
  /\ at = "poll" /\ ~ (job.waited < PollTime) => StepsLeft = 9 + Later(job.attempt) + 1 + 0
  /\ at = "result" => StepsLeft = 9 + Later(job.attempt) + 1
  /\ at = "local" => StepsLeft = 9
  /\ at = "ocr" => StepsLeft = 8
BY DEF StepsLeft, Later, Share

LEMMA StepsLeftNext ==
  /\ at' = "upload" => StepsLeft' = 9 + Later(job'.attempt) + PollTime + 2
  /\ at' = "poll" /\ job'.waited < PollTime =>
       StepsLeft' = 9 + Later(job'.attempt) + 1 + (PollTime - job'.waited)
  /\ at' = "poll" /\ ~ (job'.waited < PollTime) =>
       StepsLeft' = 9 + Later(job'.attempt) + 1 + 0
  /\ at' = "result" => StepsLeft' = 9 + Later(job'.attempt) + 1
  /\ at' = "local" => StepsLeft' = 9
  /\ at' = "ocr" => StepsLeft' = 8
  /\ at' = "guardrail" => StepsLeft' = 7
BY DEF StepsLeft, Later, Share, Budget

\* A step of the parser, however it goes on, uses up what is left of its attempt.
LEMMA ParsingAdvances ==
  ASSUME TypeOK, JobInv,
         Load \/ Upload \/ Poll \/ PollTimesOut \/ Result \/ Local \/ Ocr
  PROVE  StepsLeft' < StepsLeft
<1>1. /\ job.attempt \in 0..MaxRetries /\ job.waited \in Nat /\ job.requests \in Nat
      /\ job = [attempt |-> job.attempt, waited |-> job.waited, requests |-> job.requests]
      /\ PollTime \in Nat /\ MaxRetries \in Nat \ {0}
  BY Times DEF TypeOK
<1>2. at \in {"upload", "poll", "result"} =>
        /\ job.attempt \in 1..MaxRetries
        /\ Later(job.attempt) \in Nat
        /\ StepsLeft \in Nat /\ StepsLeft >= 10 + Later(job.attempt)
  BY <1>1, LaterShrinks, StepsLeftAt DEF JobInv
<1>3. ASSUME at' = "guardrail", at \in ParseSteps PROVE StepsLeft' < StepsLeft
  BY <1>2, <1>3, LaterShrinks, StepsLeftAt, StepsLeftNext DEF ParseSteps
<1>4. ASSUME NEW requests, Retry(requests), at \in {"upload", "poll", "result"}
      PROVE  StepsLeft' < StepsLeft
  <2>1. CASE job.attempt < MaxRetries
    <3>1. at' = "upload" /\ job'.attempt = job.attempt + 1
      BY <1>4, <2>1 DEF Retry, Goto
    <3>2. StepsLeft' = 9 + Later(job.attempt + 1) + PollTime + 2
      BY <3>1, StepsLeftNext
    <3>3. Later(job.attempt) = Later(job.attempt + 1) + PollTime + 2
          /\ Later(job.attempt + 1) \in Nat
      <4>1. job.attempt \in 1..MaxRetries /\ job.attempt + 1 \in 1..MaxRetries
        BY <1>1, <1>2, <1>4, <2>1
      <4>. QED  BY <1>1, <2>1, <4>1, LaterShrinks
    <3>. QED  BY <1>1, <1>2, <1>4, <3>2, <3>3
  <2>2. CASE ~ (job.attempt < MaxRetries)
    <3>1. at' = "local"
      BY <1>4, <2>2 DEF Retry, Goto
    <3>. QED  BY <1>2, <1>4, <3>1, StepsLeftNext
  <2>. QED  BY <2>1, <2>2
<1>5. CASE Load
  <2>1. at = "load" /\ StepsLeft = 10 + Budget /\ Budget \in Nat
    BY <1>5, StepsLeftAt, LaterShrinks DEF Load
  <2>2. CASE ParseFails
    BY <1>3, <2>1, <2>2 DEF ParseFails, Goto, ParseSteps
  <2>3. CASE Goto("local", s)
    BY <2>1, <2>3, StepsLeftNext DEF Goto
  <2>4. CASE Goto("upload", s) /\ job' = [NoJob EXCEPT !.attempt = 1]
    <3>1. at' = "upload" /\ job'.attempt = 1
      BY <2>4 DEF Goto, NoJob
    <3>2. StepsLeft' = 9 + Later(1) + PollTime + 2 /\ Later(1) \in Nat
      BY <1>1, <3>1, StepsLeftNext, LaterShrinks
    <3>. QED  BY <1>1, <2>1, <3>2, LaterShrinks
  <2>. QED  BY <1>5, <2>2, <2>3, <2>4 DEF Load
<1>6. CASE Upload
  <2>1. at = "upload"
    BY <1>6 DEF Upload
  <2>2. CASE Goto("poll", s) /\ job' = [job EXCEPT !.waited = 0, !.requests = Counted]
    <3>1. at' = "poll" /\ job'.waited = 0 /\ job'.attempt = job.attempt
      BY <1>1, <2>2 DEF Goto
    <3>2. StepsLeft = 9 + Later(job.attempt) + PollTime + 2
      BY <2>1, StepsLeftAt
    <3>3. StepsLeft' = 9 + Later(job.attempt) + PollTime + 1
      BY <1>1, <1>2, <2>1, <3>1, StepsLeftNext
    <3>. QED  BY <1>1, <1>2, <2>1, <3>2, <3>3
  <2>. QED  BY <1>3, <1>4, <1>6, <2>1, <2>2 DEF Upload, ParseFails, Goto, ParseSteps
<1>7. CASE Poll
  <2>1. /\ at = "poll" /\ job.waited < PollTime
        /\ StepsLeft = 9 + Later(job.attempt) + 1 + (PollTime - job.waited)
    BY <1>7, StepsLeftAt DEF Poll
  <2>2. CASE Goto("result", s) /\ job' = [job EXCEPT !.requests = Counted]
    <3>1. at' = "result" /\ job'.attempt = job.attempt
      BY <1>1, <2>2 DEF Goto
    <3>2. StepsLeft' = 9 + Later(job.attempt) + 1
      BY <3>1, StepsLeftNext
    <3>. QED  BY <1>1, <1>2, <2>1, <3>2
  <2>3. ASSUME NEW cost \in Costs, Goto("poll", s),
               job' = [job EXCEPT !.waited = Waited(cost), !.requests = Counted]
        PROVE  StepsLeft' < StepsLeft
    <3>1. Waited(cost) \in Nat /\ Waited(cost) >= job.waited + 1
      BY <1>1, Times DEF Waited
    <3>2. /\ at' = "poll" /\ job'.attempt = job.attempt
          /\ job'.waited = Waited(cost)
      BY <1>1, <2>3 DEF Goto
    <3>3. CASE Waited(cost) < PollTime
      <4>1. StepsLeft' = 9 + Later(job.attempt) + 1 + (PollTime - Waited(cost))
        BY <3>2, <3>3, StepsLeftNext
      <4>. QED  BY <1>1, <1>2, <2>1, <3>1, <3>3, <4>1
    <3>4. CASE ~ (Waited(cost) < PollTime)
      <4>1. StepsLeft' = 9 + Later(job.attempt) + 1 + 0
        BY <3>2, <3>4, StepsLeftNext
      <4>. QED  BY <1>1, <1>2, <2>1, <4>1
    <3>. QED  BY <1>1, <3>1, <3>3, <3>4
  <2>. QED  BY <1>3, <1>4, <1>7, <2>1, <2>2, <2>3 DEF Poll, ParseFails, Goto, ParseSteps
<1>8. CASE PollTimesOut
  BY <1>4, <1>8 DEF PollTimesOut
<1>9. CASE Result
  BY <1>3, <1>4, <1>9 DEF Result, ParseFails, Parsed, Goto, ParseSteps
<1>10. CASE Local \/ Ocr
  <2>1. \/ at = "local" /\ at' = "ocr"
        \/ at \in ParseSteps /\ at' = "guardrail"
    BY <1>10 DEF Local, Ocr, ParseFails, Parsed, Goto, ParseSteps
  <2>. QED  BY <1>3, <2>1, StepsLeftAt, StepsLeftNext
<1>. QED  BY <1>5, <1>6, <1>7, <1>8, <1>9, <1>10

\* So does each of the other nodes, which only go forward.
LEMMA NodesAdvance ==
  ASSUME Guardrail \/ Extract \/ Primary \/ Fallback \/ Score \/ Route
           \/ Deliver \/ Review \/ Dlq
  PROVE  StepsLeft' < StepsLeft
<1>1. CASE Guardrail
  <2>1. at = "guardrail" /\ at' = "extract"
    BY <1>1 DEF Guardrail, Goto
  <2>. QED  BY <2>1 DEF StepsLeft
<1>2. CASE Extract
  <2>1. at = "extract" /\ at' \in {"primary", "score"}
    BY <1>2 DEF Extract, Goto
  <2>. QED  BY <2>1 DEF StepsLeft
<1>3. CASE Primary \/ Fallback
  <2>1. \/ at \in {"primary", "fallback"} /\ at' = "score"
        \/ at = "primary" /\ at' = "fallback"
    <3>1. Fallback => at' = "score"
      BY Zenon DEF Fallback, Answered, ExtractFails, Goto
    <3>. QED  BY <1>3, <3>1, ModelsLead DEF Primary, Fallback
  <2>. QED  BY <2>1 DEF StepsLeft
<1>4. CASE Score
  <2>1. at = "score" /\ at' = "route"
    BY <1>4 DEF Score, Goto
  <2>. QED  BY <2>1 DEF StepsLeft
<1>5. CASE Route
  <2>1. at = "route" /\ at' \in {"deliver", "review", "dlq"}
    BY <1>5 DEF Route, Goto, Branch, Decision, Level
  <2>. QED  BY <2>1 DEF StepsLeft
<1>6. CASE Deliver \/ Review \/ Dlq
  <2>1. at \in {"deliver", "review", "dlq"} /\ at' = "end"
    BY <1>6 DEF Deliver, Review, Dlq, Goto
  <2>. QED  BY <2>1 DEF StepsLeft
<1>. QED  BY <1>1, <1>2, <1>3, <1>4, <1>5, <1>6

\* A run takes at most Budget + 10 steps, for any deadline, number of retries and
\* answering times: each of its steps leaves fewer to take, whichever parser,
\* model or node fails.
THEOREM RunsAdvance == Spec => RunAdvances /\ [](StepsLeft \in 0..(Budget + 10))
<1>1. Init => JobInv
  BY DEF Init, JobInv, ParseSteps, NoJob
<1>2. TypeOK /\ JobInv /\ [Next]_vars => JobInv'
  BY JobInvStep
<1>3. ASSUME TypeOK, JobInv, [Next]_vars
      PROVE  [runs' = runs => StepsLeft' < StepsLeft]_vars
  <2>1. ASSUME Again PROVE runs' # runs
    BY <1>3, <2>1 DEF Again, TypeOK
  <2>2. CASE Step
    BY <1>3, <2>2, ParsingAdvances, NodesAdvance DEF Step
  <2>. QED  BY <1>3, <2>1, <2>2 DEF Next
<1>4. ASSUME TypeOK, JobInv PROVE StepsLeft \in 0..(Budget + 10)
  <2>1. /\ job.attempt \in 0..MaxRetries /\ job.waited \in Nat
        /\ PollTime \in Nat /\ MaxRetries \in Nat \ {0}
    BY <1>4, Times DEF TypeOK
  <2>2. CASE at \in {"upload", "poll", "result"}
    <3>1. /\ job.attempt \in 1..MaxRetries /\ Later(job.attempt) \in Nat
          /\ Later(job.attempt) + PollTime + 2 <= Budget
      <4>1. job.attempt \in 1..MaxRetries
        BY <1>4, <2>2 DEF JobInv
      <4>2. Spent(job.attempt) \in Nat
        BY <4>1, SpentGrows
      <4>3. Later(job.attempt) + Share + Spent(job.attempt) = Budget
        <5>1. Budget = MaxRetries * Share /\ Share \in Nat
          BY Times DEF Budget, Share
        <5>2. \A a, b, c \in Int : (a - b) * c + c + (b - 1) * c = a * c
          OBVIOUS
        <5>. QED  BY <2>1, <4>1, <5>1, <5>2 DEF Later, Spent
      <4>. QED  BY <2>1, <4>1, <4>2, <4>3, LaterShrinks
    <3>. QED  BY <2>1, <2>2, <3>1, LaterShrinks, StepsLeftAt
  <2>3. CASE at = "load"
    BY <2>3, LaterShrinks, StepsLeftAt
  <2>4. CASE at \notin {"load", "upload", "poll", "result"}
    <3>1. StepsLeft \in 0..9
      BY <1>4, <2>4 DEF StepsLeft, TypeOK, Steps, ParseSteps, ExtractSteps
    <3>. QED  BY <3>1, LaterShrinks
  <2>. QED  BY <2>2, <2>3, <2>4
<1>. QED  BY <1>1, <1>2, <1>3, <1>4, TypeCorrect, PTL DEF Spec, RunAdvances

-----------------------------------------------------------------------------
(* The graph *)

\* What the graph sees of a text.
Seen(t) == IF t = NoText THEN "none"
           ELSE IF IsEmpty(t) THEN "none"
           ELSE IF t.injection THEN "injection" ELSE "plain"

\* What the graph sees of a score.
SeenScore(c) == IF c = NoScore THEN "none" ELSE Level(c)

\* The fields of the abstract state.
LEMMA AbstractFields ==
  Abstract = [status |-> s.status, reason |-> s.reason, text |-> Seen(s.text),
              extracted |-> s.fields # {}, conf |-> SeenScore(s.conf),
              decision |-> s.decision]
BY DEF Abstract, Seen, SeenScore

\* A step of the parser is no step of the graph, a failure or a text is one.
LEMMA ParseImplements ==
  ASSUME TypeOK, Load \/ Upload \/ Poll \/ PollTimesOut \/ Result \/ Local \/ Ocr
  PROVE  Graph!Parse \/ UNCHANGED <<AbstractAt, Abstract>>
<1>1. AbstractAt = "parse" /\ s \in State
  BY DEF Load, Upload, Poll, PollTimesOut, Result, Local, Ocr, AbstractAt, ParseSteps,
         TypeOK
<1>2. ASSUME at' = "guardrail" PROVE AbstractAt' = "guardrail"
  BY <1>2 DEF AbstractAt, ParseSteps, ExtractSteps
<1>3. ASSUME ParseFails PROVE Graph!Parse
  <2>1. /\ s'.status = "error" /\ s'.reason = "PARSE_FAILED" /\ s'.text = s.text
        /\ s'.fields = s.fields /\ s'.conf = s.conf /\ s'.decision = s.decision
        /\ at' = "guardrail"
    BY <1>1, <1>3 DEF ParseFails, Goto, Failed, State
  <2>2. Abstract' = Graph!ParseNode(Abstract, "failed")
    BY <2>1, AbstractFields DEF Graph!ParseNode, Abstract, Seen, SeenScore, IsEmpty, Level
  <2>. QED  BY <1>1, <1>2, <2>1, <2>2 DEF Graph!Parse, Graph!Parses, Graph!Node
<1>4. ASSUME NEW t \in Texts, Parsed(t) PROVE Graph!Parse
  <2>1. /\ s'.reason = IF IsEmpty(t) THEN "PARSE_EMPTY_OUTPUT" ELSE s.reason
        /\ s'.status = IF IsEmpty(t) THEN "error" ELSE "guarding"
        /\ s'.text = t
        /\ s'.fields = s.fields /\ s'.conf = s.conf /\ s'.decision = s.decision
        /\ at' = "guardrail"
    BY <1>1, <1>4 DEF Parsed, Goto, Failed, State
  <2>2. PICK out \in {"empty", "plain", "injection"} :
          out = IF IsEmpty(t) THEN "empty" ELSE IF t.injection THEN "injection" ELSE "plain"
    OBVIOUS
  <2>3. t # NoText
    BY Measured
  <2>4. Abstract' = Graph!ParseNode(Abstract, out)
    BY <2>1, <2>2, <2>3, AbstractFields
       DEF Graph!ParseNode, Abstract, Seen, SeenScore, IsEmpty, Level
  <2>. QED  BY <1>1, <1>2, <2>1, <2>2, <2>4 DEF Graph!Parse, Graph!Parses, Graph!Node
<1>5. ASSUME at' \in ParseSteps, s' = s PROVE UNCHANGED <<AbstractAt, Abstract>>
  BY <1>1, <1>5 DEF AbstractAt, Abstract, IsEmpty, Level
<1>6. ASSUME NEW requests, Retry(requests) PROVE UNCHANGED <<AbstractAt, Abstract>>
  BY <1>5, <1>6 DEF Retry, Goto, ParseSteps
<1>7. CASE Load \/ Upload \/ Poll \/ PollTimesOut
  BY <1>3, <1>5, <1>6, <1>7 DEF Load, Upload, Poll, PollTimesOut, Goto, ParseSteps
<1>8. CASE Result \/ Local \/ Ocr
  BY <1>3, <1>4, <1>5, <1>6, <1>8 DEF Result, Local, Ocr, Goto, ParseSteps
<1>. QED  BY <1>7, <1>8

\* The guardrails block what the graph takes for an injection.
LEMMA GuardrailImplements ==
  ASSUME GraphInv, Guardrail
  PROVE  Graph!Guardrail
<1>. USE DEF Halted
<1>1. /\ AbstractAt = "guardrail" /\ AbstractAt' = "extract"
      /\ s \in State /\ at = "guardrail"
  BY DEF Guardrail, Goto, AbstractAt, ParseSteps, ExtractSteps, GraphInv, TypeOK
<1>2. CASE Halted
  <2>1. Abstract' = Abstract
    BY <1>2 DEF Guardrail, Goto, Abstract, IsEmpty, Level
  <2>2. Abstract = Graph!GuardrailNode(Abstract)
    BY <1>2, AbstractFields DEF Graph!GuardrailNode, Graph!Halted
  <2>. QED  BY <1>1, <2>1, <2>2 DEF Graph!Guardrail, Graph!Node
<1>3. CASE ~ Halted
  <2>1. /\ s.text \in Texts /\ ~ IsEmpty(s.text) /\ s.text # NoText
        /\ s.text.words > 0 /\ s.text.words \in Nat
    BY <1>1, <1>3, Measured DEF GraphInv, ParsedInv, IsEmpty, MinChars
  <2>2. Block(s.text) = IF s.text.injection THEN "INJECTION_DETECTED" ELSE "none"
    BY <2>1 DEF Block
  <2>3. /\ s'.status = IF s.text.injection THEN "error" ELSE "extracting"
        /\ s'.reason = IF s.text.injection THEN "INJECTION_DETECTED" ELSE s.reason
        /\ s'.text = s.text /\ s'.fields = s.fields
        /\ s'.conf = s.conf /\ s'.decision = s.decision
    BY <1>1, <1>3, <2>2 DEF Guardrail, Goto, Failed, State
  <2>4. Seen(s.text) = IF s.text.injection THEN "injection" ELSE "plain"
    BY <2>1 DEF Seen
  <2>5. Abstract' = Graph!GuardrailNode(Abstract)
    BY <1>3, <2>1, <2>3, <2>4, AbstractFields
       DEF Graph!GuardrailNode, Graph!Halted, Abstract, Seen, SeenScore, IsEmpty, Level
  <2>. QED  BY <1>1, <2>5 DEF Graph!Guardrail, Graph!Node
<1>. QED  BY <1>2, <1>3

\* The chain's models are one step of the graph: with an extraction, without
\* one, or with a failure.
LEMMA ExtractImplements ==
  ASSUME GraphInv, Extract \/ Primary \/ Fallback
  PROVE  Graph!Extract \/ UNCHANGED <<AbstractAt, Abstract>>
<1>. USE DEF Halted
<1>1. AbstractAt = "extract" /\ s \in State
  BY DEF Extract, Primary, Fallback, AbstractAt, ParseSteps, ExtractSteps, GraphInv, TypeOK
<1>2. ASSUME at' = "score" PROVE AbstractAt' = "score"
  BY <1>2 DEF AbstractAt, ParseSteps, ExtractSteps
<1>3. ASSUME at' \in ExtractSteps, s' = s PROVE UNCHANGED <<AbstractAt, Abstract>>
  BY <1>1, <1>3 DEF AbstractAt, ParseSteps, ExtractSteps, Abstract, IsEmpty, Level
<1>4. ASSUME at' = "score", NEW out \in {"failed", "empty", "fields"},
             Abstract' = Graph!ExtractNode(Abstract, out)
      PROVE  Graph!Extract
  BY <1>1, <1>2, <1>4 DEF Graph!Extract, Graph!Extractions, Graph!Node
<1>5. CASE Extract
  <2>1. CASE Halted \/ s.fields # {}
    <3>1. at' = "score" /\ s' = s
      BY <1>5, <2>1 DEF Extract, Goto
    <3>2. Abstract' = Abstract
      BY <3>1 DEF Abstract, IsEmpty, Level
    <3>3. Abstract = Graph!ExtractNode(Abstract, "failed")
      BY <2>1, AbstractFields DEF Graph!ExtractNode, Graph!CallsLLM, Graph!Halted
    <3>. QED  BY <1>4, <3>1, <3>2, <3>3
  <2>2. CASE ~ (Halted \/ s.fields # {})
    BY <1>3, <1>5, <2>2 DEF Extract, Goto, ExtractSteps
  <2>. QED  BY <2>1, <2>2
<1>6. ASSUME ~ Halted, s.fields = {}, Answered PROVE Graph!Extract
  <2>1. PICK values \in [s.schema.props -> {"null", "blank", "text"}], self \in SelfReports :
          Goto("score",
               [s EXCEPT !.status = "scoring",
                         !.fields = {f \in s.schema.props : values[f] # "null"},
                         !.blank = {f \in s.schema.props : values[f] = "blank"},
                         !.self = self])
    BY <1>6, Zenon DEF Answered
  <2>2. /\ s'.status = "scoring" /\ s'.reason = s.reason /\ s'.text = s.text
        /\ s'.conf = s.conf /\ s'.decision = s.decision /\ at' = "score"
    BY <1>1, <2>1 DEF Goto, State
  <2>3. PICK out \in {"empty", "fields"} : out = IF s'.fields # {} THEN "fields" ELSE "empty"
    OBVIOUS
  <2>4. Graph!CallsLLM(Abstract)
    BY <1>6, AbstractFields DEF Graph!CallsLLM, Graph!Halted
  <2>5. Graph!ExtractNode(Abstract, out)
          = [Abstract EXCEPT !.status = "scoring", !.extracted = (out = "fields")]
    BY <2>3, <2>4 DEF Graph!ExtractNode
  <2>6. Abstract' = [status |-> "scoring", reason |-> s.reason, text |-> Seen(s.text),
                     extracted |-> (out = "fields"), conf |-> SeenScore(s.conf),
                     decision |-> s.decision]
    BY <2>2, <2>3 DEF Abstract, Seen, SeenScore, IsEmpty, Level
  <2>7. Abstract' = Graph!ExtractNode(Abstract, out)
    BY <2>5, <2>6, AbstractFields
  <2>. QED  BY <1>4, <2>2, <2>7
<1>7. ASSUME ~ Halted, s.fields = {}, ExtractFails PROVE Graph!Extract
  <2>1. /\ s'.status = "error" /\ s'.reason = "EXTRACTION_FAILED" /\ s'.text = s.text
        /\ s'.fields = s.fields /\ s'.conf = s.conf /\ s'.decision = s.decision
        /\ at' = "score"
    BY <1>1, <1>7 DEF ExtractFails, Goto, Failed, State
  <2>2. Abstract' = Graph!ExtractNode(Abstract, "failed")
    BY <1>7, <2>1, AbstractFields
       DEF Graph!ExtractNode, Graph!CallsLLM, Graph!Halted, Abstract, Seen, SeenScore,
           IsEmpty, Level
  <2>. QED  BY <1>4, <2>1, <2>2
<1>8. CASE Primary \/ Fallback
  <2>1. ~ Halted /\ s.fields = {}
    BY <1>8 DEF Primary, Fallback, GraphInv, CallInv
  <2>2. Goto("fallback", s) => UNCHANGED <<AbstractAt, Abstract>>
    BY <1>3 DEF Goto, ExtractSteps
  <2>. QED  BY <1>6, <1>7, <1>8, <2>1, <2>2, Zenon DEF Primary, Fallback
<1>. QED  BY <1>5, <1>8

\* A score is one of the graph's levels, and the decision follows the level.
LEMMA ScoreImplements ==
  ASSUME GraphInv, Score
  PROVE  Graph!Score
<1>. USE DEF Halted
<1>1. /\ AbstractAt = "score" /\ AbstractAt' = "route" /\ s \in State
  BY DEF Score, Goto, AbstractAt, ParseSteps, ExtractSteps, GraphInv, TypeOK
<1>2. CASE Halted
  <2>1. Abstract' = Abstract
    BY <1>2 DEF Score, Goto, Abstract, IsEmpty, Level
  <2>2. Abstract = Graph!ScoreNode(Abstract, "LOW")
    BY <1>2, AbstractFields DEF Graph!ScoreNode, Graph!Halted
  <2>. QED  BY <1>1, <2>1, <2>2 DEF Graph!Score, Graph!Levels, Graph!Node
<1>3. CASE ~ Halted
  <2>1. PICK conf \in Confidence :
          Goto("route", [s EXCEPT !.status = "routing", !.conf = conf])
    BY <1>3 DEF Score
  <2>2. conf # NoScore
    BY <2>1, ConfidenceIsScore, UnitIsPositive, Thresholds DEF GraphInv
  <2>3. /\ s'.status = "routing" /\ s'.reason = s.reason /\ s'.text = s.text
        /\ s'.fields = s.fields /\ s'.conf = conf /\ s'.decision = s.decision
    BY <1>1, <2>1 DEF Goto, State
  <2>4. Level(conf) \in {"HIGH", "MEDIUM", "LOW"}
    BY DEF Level
  <2>5. Abstract' = Graph!ScoreNode(Abstract, Level(conf))
    BY <1>3, <2>2, <2>3, AbstractFields
       DEF Graph!ScoreNode, Graph!Halted, Abstract, Seen, SeenScore, IsEmpty, Level
  <2>. QED  BY <1>1, <2>4, <2>5 DEF Graph!Score, Graph!Levels, Graph!Node
<1>. QED  BY <1>2, <1>3

\* The decision and the edge taken are the graph's.
LEMMA RouteImplements ==
  ASSUME GraphInv, Route
  PROVE  Graph!Route
<1>. USE DEF Halted
<1>1. at = "route" /\ s \in State
  BY DEF Route, GraphInv, TypeOK
<1>2. Decision \in {"HIGH", "MEDIUM", "LOW"}
  BY DEF Decision, Level
<1>3. /\ AbstractAt = "route" /\ AbstractAt' = Branch[Decision]
  BY <1>1, <1>2 DEF Route, Goto, AbstractAt, ParseSteps, ExtractSteps, Branch
<1>4. /\ s'.status = s.status /\ s'.reason = s.reason /\ s'.text = s.text
      /\ s'.fields = s.fields /\ s'.conf = s.conf /\ s'.decision = Decision
  BY <1>1 DEF Route, Goto, State
<1>5. Decision = Graph!RouteLevel(Abstract)
  BY <1>1, AbstractFields
     DEF Decision, GraphInv, ScoredInv, Graph!RouteLevel, Graph!Halted, SeenScore, Level
<1>6. Abstract' = Graph!RouteNode(Abstract)
  BY <1>4, <1>5, AbstractFields
     DEF Graph!RouteNode, Abstract, Seen, SeenScore, IsEmpty, Level
<1>7. Graph!RouteLevel(Graph!RouteNode(Abstract)) = Graph!RouteLevel(Abstract)
  BY AbstractFields DEF Graph!RouteNode, Graph!RouteLevel, Graph!Halted
<1>8. Branch[Decision] = Graph!RouteDecision(Graph!RouteNode(Abstract))
  BY <1>5, <1>7 DEF Branch, Graph!RouteDecision, Graph!Branch
<1>. QED  BY <1>3, <1>6, <1>8 DEF Graph!Route, Graph!Node

\* So are the last nodes, and what a new run finds.
LEMMA EndImplements ==
  ASSUME GraphInv
  PROVE  /\ Deliver \/ Review \/ Dlq => Graph!Terminate
         /\ Again => Graph!Again
<1>1. s \in State
  BY DEF GraphInv, TypeOK
<1>. USE DEF AbstractAt, ParseSteps, ExtractSteps, Goto
<1>2. ASSUME Deliver PROVE Graph!Terminate
  <2>1. /\ s'.status = "completed" /\ s'.reason = s.reason /\ s'.text = s.text
        /\ s'.fields = s.fields /\ s'.conf = s.conf /\ s'.decision = s.decision
    BY <1>1, <1>2 DEF Deliver, State
  <2>2. Abstract' = [status |-> "completed", reason |-> s.reason, text |-> Seen(s.text),
                     extracted |-> s.fields # {}, conf |-> SeenScore(s.conf),
                     decision |-> s.decision]
    BY <2>1 DEF Abstract, Seen, SeenScore, IsEmpty, Level
  <2>3. Graph!TerminalNode("deliver", Abstract) = Graph!DeliverNode(Abstract)
    BY DEF Graph!TerminalNode
  <2>4. Abstract' = Graph!TerminalNode("deliver", Abstract)
    BY <2>2, <2>3, AbstractFields DEF Graph!DeliverNode
  <2>. QED  BY <1>2, <2>4 DEF Deliver, Graph!Terminate, Graph!Node
<1>3. ASSUME Review PROVE Graph!Terminate
  <2>1. /\ s'.status = "review" /\ s'.reason = s.reason /\ s'.text = s.text
        /\ s'.fields = s.fields /\ s'.conf = s.conf /\ s'.decision = s.decision
    BY <1>1, <1>3 DEF Review, State
  <2>2. Abstract' = [status |-> "review", reason |-> s.reason, text |-> Seen(s.text),
                     extracted |-> s.fields # {}, conf |-> SeenScore(s.conf),
                     decision |-> s.decision]
    BY <2>1 DEF Abstract, Seen, SeenScore, IsEmpty, Level
  <2>3. Graph!TerminalNode("review", Abstract) = Graph!ReviewNode(Abstract)
    BY DEF Graph!TerminalNode
  <2>4. Abstract' = Graph!TerminalNode("review", Abstract)
    BY <2>2, <2>3, AbstractFields DEF Graph!ReviewNode
  <2>. QED  BY <1>3, <2>4 DEF Review, Graph!Terminate, Graph!Node
<1>4. ASSUME Dlq PROVE Graph!Terminate
  <2>1. /\ s'.status = "rejected" /\ s'.text = s.text /\ s'.fields = s.fields
        /\ s'.conf = s.conf /\ s'.decision = s.decision
        /\ s'.reason = IF s.reason = "none" THEN "LOW_CONFIDENCE" ELSE s.reason
    BY <1>1, <1>4 DEF Dlq, State
  <2>2. Graph!TerminalNode("dlq", Abstract) = Graph!DlqNode(Abstract)
    BY DEF Graph!TerminalNode
  <2>3. Abstract' = [status |-> "rejected",
                     reason |-> IF s.reason = "none" THEN "LOW_CONFIDENCE" ELSE s.reason,
                     text |-> Seen(s.text), extracted |-> s.fields # {},
                     conf |-> SeenScore(s.conf), decision |-> s.decision]
    BY <2>1 DEF Abstract, Seen, SeenScore, IsEmpty, Level
  <2>4. Abstract.reason = s.reason
    BY AbstractFields
  <2>5. ASSUME s.reason = "none" PROVE Abstract' = Graph!TerminalNode("dlq", Abstract)
    BY <2>2, <2>3, <2>4, <2>5, AbstractFields DEF Graph!DlqNode
  <2>6. ASSUME s.reason # "none" PROVE Abstract' = Graph!TerminalNode("dlq", Abstract)
    BY <2>2, <2>3, <2>4, <2>6, AbstractFields DEF Graph!DlqNode
  <2>7. Abstract' = Graph!TerminalNode("dlq", Abstract)
    BY <2>5, <2>6
  <2>. QED  BY <1>4, <2>7 DEF Dlq, Graph!Terminate, Graph!Node
<1>5. ASSUME Again PROVE Graph!Again
  <2>1. PICK input \in Inputs : s' = [s EXCEPT !.status = "pending", !.schema = input]
    BY <1>5 DEF Again
  <2>2. /\ s'.status = "pending" /\ s'.reason = s.reason /\ s'.text = s.text
        /\ s'.fields = s.fields /\ s'.conf = s.conf /\ s'.decision = s.decision
    BY <1>1, <2>1 DEF State
  <2>3. Abstract' = [status |-> "pending", reason |-> s.reason, text |-> Seen(s.text),
                     extracted |-> s.fields # {}, conf |-> SeenScore(s.conf),
                     decision |-> s.decision]
    BY <2>2 DEF Abstract, Seen, SeenScore, IsEmpty, Level
  <2>4. Abstract' = Graph!WithInput(Abstract)
    BY <2>3, AbstractFields DEF Graph!WithInput
  <2>. QED  BY <1>5, <2>4 DEF Again, Graph!Again, Graph!Node
<1>. QED  BY <1>2, <1>3, <1>4, <1>5

\* The runs in detail implement the graph DocumentLifecycle executes: every step
\* is one of its nodes, with an outcome Pipeline knows, or none of its concern.
THEOREM DetailImplementsGraph == Spec => ImplementsGraph
<1>1. Init => Graph!Init
  <2>. SUFFICES ASSUME Init PROVE Graph!Init
    OBVIOUS
  <2>1. /\ s.status = "pending" /\ s.reason = "none" /\ s.text = NoText
        /\ s.fields = {} /\ s.conf = NoScore /\ s.decision = "none"
        /\ AbstractAt = "parse"
    BY DEF Init, AbstractAt, ParseSteps
  <2>2. Abstract = [status |-> "pending", reason |-> "none", text |-> "none",
                    extracted |-> FALSE, conf |-> "none", decision |-> "none"]
    BY <2>1 DEF Abstract
  <2>3. Abstract = Graph!WithInput(Graph!EmptyState)
    <3>1. ASSUME NEW b
          PROVE  [[status |-> "none", reason |-> "none", text |-> "none",
                   extracted |-> b, conf |-> "none", decision |-> "none"]
                     EXCEPT !.status = "pending"]
                   = [status |-> "pending", reason |-> "none", text |-> "none",
                      extracted |-> b, conf |-> "none", decision |-> "none"]
      OBVIOUS
    <3>2. Graph!WithInput(Graph!EmptyState)
            = [status |-> "pending", reason |-> "none", text |-> "none",
               extracted |-> FALSE, conf |-> "none", decision |-> "none"]
      BY <3>1, Zenon DEF Graph!WithInput, Graph!EmptyState
    <3>. QED  BY <2>2, <3>2, Zenon
  <2>. QED  BY <2>1, <2>3 DEF Graph!Init
<1>2. GraphInv /\ [Next]_vars => [Graph!Next]_<<AbstractAt, Abstract>>
  <2>. SUFFICES ASSUME GraphInv, [Next]_vars
                PROVE  [Graph!Next]_<<AbstractAt, Abstract>>
    OBVIOUS
  <2>1. CASE UNCHANGED vars
    BY <2>1 DEF vars, AbstractAt, Abstract, IsEmpty, Level
  <2>2. CASE Load \/ Upload \/ Poll \/ PollTimesOut \/ Result \/ Local \/ Ocr
    BY <2>2, ParseImplements DEF GraphInv, Graph!Next
  <2>3. CASE Guardrail \/ Extract \/ Primary \/ Fallback
    BY <2>3, GuardrailImplements, ExtractImplements DEF Graph!Next
  <2>4. CASE Score \/ Route \/ Deliver \/ Review \/ Dlq \/ Again
    BY <2>4, ScoreImplements, RouteImplements, EndImplements DEF Graph!Next
  <2>. QED  BY <2>1, <2>2, <2>3, <2>4 DEF Next, Step
<1>. QED  BY <1>1, <1>2, GraphInvAlways, PTL DEF Spec, ImplementsGraph, Graph!Spec

-----------------------------------------------------------------------------
(* Weak signals *)

\* A signal reaches the high threshold up to half a unit.
Reaches(p) == 2 * p[1] * Unit + p[2] >= 2 * High * p[2]

\* What rounds to the threshold reaches it, and a multiplier only lowers.
LEMMA RoundedReaches ==
  ASSUME NEW p, Fraction(p), NEW m \in Nat, m <= Unit,
         NEW c \in Rounded(p, m), c >= High
  PROVE  Reaches(p)
<1>. DEFINE n == p[1]
            d == p[2]
<1>1. /\ n \in Nat /\ d \in Nat /\ d > 0
      /\ High \in Nat /\ Unit \in Nat
  BY Thresholds, UnitIsPositive DEF Fraction
<1>2. n * m \in Nat /\ n * m <= n * Unit /\ n * Unit \in Nat
  BY <1>1, Product
<1>3. PICK q \in Nat, r \in 0..(d - 1) :
        q = (n * m) \div d /\ r = (n * m) % d /\ n * m = d * q + r
  BY <1>1, <1>2, Division
<1>4. c \in IF 2 * r < d THEN {q}
            ELSE IF 2 * r > d THEN {q + 1} ELSE {q, q + 1}
  BY <1>3 DEF Rounded
<1>5. Reaches(p) <=> 2 * n * Unit + d >= 2 * High * d
  BY DEF Reaches
<1>. HIDE DEF n, d
<1>6. c \in Nat /\ d * q \in Nat /\ d * c \in Nat /\ d * High \in Nat
  BY <1>1, <1>3, <1>4
<1>7. 2 * (d * c) <= 2 * (n * m) + d
  <2>1. CASE c = q
    BY <1>1, <1>2, <1>3, <1>6, <2>1
  <2>2. CASE c = q + 1 /\ 2 * r >= d
    <3>1. d * c = d * q + d
      BY <1>1, <1>3, <2>2
    <3>. QED  BY <1>1, <1>2, <1>3, <1>6, <2>2, <3>1
  <2>. QED  BY <1>1, <1>3, <1>4, <2>1, <2>2
<1>8. d * High <= d * c
  BY <1>1, <1>6, Product
<1>9. 2 * (d * High) <= 2 * (n * Unit) + d
  BY <1>1, <1>2, <1>6, <1>7, <1>8
<1>10. 2 * n * Unit = 2 * (n * Unit) /\ 2 * High * d = 2 * (d * High)
  BY <1>1
<1>. QED  BY <1>1, <1>2, <1>5, <1>6, <1>9, <1>10

\* What is no smaller than a signal that reaches the threshold reaches it too.
LEMMA LargerReaches ==
  ASSUME NEW p, NEW q, Fraction(p), Fraction(q), AtMost(p, q), Reaches(p)
  PROVE  Reaches(q)
<1>. DEFINE a == p[1]
            b == p[2]
            c == q[1]
            e == q[2]
<1>1. /\ a \in Nat /\ b \in Nat /\ b > 0 /\ c \in Nat /\ e \in Nat
      /\ High \in Nat /\ Unit \in Nat
  BY Thresholds, UnitIsPositive DEF Fraction
<1>2. a * e <= c * b
  BY DEF AtMost
<1>3. 2 * a * Unit + b >= 2 * High * b
  BY DEF Reaches
<1>4. Reaches(q) <=> 2 * c * Unit + e >= 2 * High * e
  BY DEF Reaches
<1>. HIDE DEF a, b, c, e
<1>. SUFFICES ASSUME 2 * c * Unit + e + 1 <= 2 * High * e PROVE FALSE
  BY <1>1, <1>4
<1>. DEFINE x == a * e
            y == c * b
            w == High * e * b
<1>5. x \in Nat /\ y \in Nat /\ w \in Nat /\ e * b \in Nat
  BY <1>1
<1>6. (2 * High * b) * e <= (2 * a * Unit + b) * e
  <2>1. 2 * High * b \in Nat /\ 2 * a * Unit + b \in Nat
    BY <1>1
  <2>. QED  BY <1>1, <1>3, <2>1, Product
<1>7. (2 * c * Unit + e + 1) * b <= (2 * High * e) * b
  <2>1. 2 * High * e \in Nat /\ 2 * c * Unit + e + 1 \in Nat
    BY <1>1
  <2>. QED  BY <1>1, <2>1, Product
<1>8. /\ (2 * High * b) * e = 2 * w
      /\ (2 * a * Unit + b) * e = 2 * (x * Unit) + e * b
  BY <1>1
<1>9. /\ (2 * High * e) * b = 2 * w
      /\ (2 * c * Unit + e + 1) * b = 2 * (y * Unit) + e * b + b
  BY <1>1
<1>10. x * Unit <= y * Unit /\ x * Unit \in Nat /\ y * Unit \in Nat
  BY <1>1, <1>2, <1>5, Product
<1>. HIDE DEF x, y, w
<1>. QED  BY <1>1, <1>5, <1>6, <1>7, <1>8, <1>9, <1>10

\* The smaller of two signals reaches the threshold only if both do.
LEMMA LowerReaches ==
  ASSUME NEW p, NEW q, Fraction(p), Fraction(q), Reaches(Lower(p, q))
  PROVE  Reaches(p) /\ Reaches(q)
<1>1. AtMost(p, q) \/ AtMost(q, p)
  BY DEF AtMost, Fraction
<1>2. CASE AtMost(p, q)
  BY <1>2, LargerReaches DEF Lower
<1>3. CASE ~ AtMost(p, q)
  BY <1>1, <1>3, LargerReaches DEF Lower
<1>. QED  BY <1>2, <1>3

\* Every signal of the document reaches the high threshold.
SignalsReach ==
  /\ Reaches(Completeness)
  /\ Reaches(FillRate)
  /\ s.self > 0 => Reaches(<<s.self, Unit>>)

\* A confidence that reaches the high threshold is one of strong signals only.
LEMMA HighNeedsSignals ==
  ASSUME TypeOK, NEW c \in Confidence, c >= High
  PROVE  SignalsReach
<1>1. Fraction(SelfReport) /\ Fraction(Completeness) /\ Fraction(FillRate)
  BY SelfReportIsFraction, CompletenessIsFraction, FillRateIsFraction
<1>2. Fraction(Lower(SelfReport, Completeness))
  BY <1>1, LowerIsFraction
<1>3. Fraction(Lower(Lower(SelfReport, Completeness), FillRate))
  BY <1>1, <1>2, LowerIsFraction
<1>4. s.mult \in 1..Unit
  BY DEF TypeOK, State
<1>5. s.mult \in Nat /\ s.mult <= Unit
  BY <1>4, UnitIsPositive
<1>6. Reaches(Lower(Lower(SelfReport, Completeness), FillRate))
  BY <1>3, <1>5, RoundedReaches DEF Confidence
<1>7. Reaches(SelfReport) /\ Reaches(Completeness) /\ Reaches(FillRate)
  BY <1>1, <1>2, <1>6, LowerReaches
<1>. QED  BY <1>7 DEF SignalsReach, SelfReport

\* The score is computed from what the run still holds when it is completed.
SignalInv ==
  /\ at = "route" /\ ~ Halted => s.conf \in Confidence
  /\ at = "deliver" => SignalsReach
  /\ s.status = "completed" => at = "end" /\ SignalsReach

\* Steps that touch none of a score's sources leave the score alone.
LEMMA SignalsKept ==
  ASSUME s'.fields = s.fields, s'.blank = s.blank, s'.self = s.self,
         s'.schema = s.schema
  PROVE  /\ SignalsReach' = SignalsReach
         /\ s'.mult = s.mult => Confidence' = Confidence
<1>1. Completeness' = Completeness
  BY DEF Completeness
<1>2. FillRate' = FillRate
  BY DEF FillRate, Total
<1>3. SelfReport' = SelfReport
  BY <1>1, <1>2 DEF SelfReport, Lower, AtMost
<1>4. s'.mult = s.mult => Confidence' = Confidence
  BY <1>1, <1>2, <1>3 DEF Confidence, Rounded, Lower, AtMost
<1>5. SignalsReach' = SignalsReach
  BY <1>1, <1>2 DEF SignalsReach, Reaches
<1>. QED  BY <1>4, <1>5

\* No step completes a document whose signals do not all reach the threshold.
LEMMA SignalInvStep ==
  ASSUME TypeOK, SignalInv, [Next]_vars
  PROVE  SignalInv'
<1>. USE DEF SignalInv, Halted
<1>1. s \in State
  BY DEF TypeOK
<1>2. CASE UNCHANGED vars
  <2>1. SignalsReach' = SignalsReach /\ Confidence' = Confidence
    BY <1>2, SignalsKept DEF vars
  <2>. QED  BY <1>2, <2>1 DEF vars
<1>3. ASSUME at # "end", at' \notin {"route", "deliver"},
             s'.status = s.status \/ s'.status # "completed"
      PROVE  SignalInv'
  BY <1>3
<1>4. ASSUME NEW reason PROVE Failed(reason).status = "error"
  BY <1>1 DEF Failed, State
<1>5. ASSUME NEW t, Parsed(t) PROVE at' = "guardrail" /\ s'.status # "completed"
  BY <1>1, <1>4, <1>5 DEF Parsed, Goto, Failed, State
<1>6. ASSUME ParseFails PROVE at' = "guardrail" /\ s'.status # "completed"
  BY <1>4, <1>6 DEF ParseFails, Goto
<1>7. ASSUME NEW requests, Retry(requests) PROVE at' \in {"upload", "local"} /\ s' = s
  BY <1>7 DEF Retry, Goto
<1>8. CASE Load \/ Upload \/ Poll \/ PollTimesOut
  BY <1>3, <1>6, <1>7, <1>8 DEF Load, Upload, Poll, PollTimesOut, Goto
<1>9. CASE Result \/ Local \/ Ocr
  BY <1>3, <1>5, <1>6, <1>7, <1>9 DEF Result, Local, Ocr, Goto
<1>10. CASE Guardrail
  <2>1. [s EXCEPT !.status = "extracting", !.mult = Multiplier(s.text)].status = "extracting"
    BY <1>1 DEF State
  <2>. QED  BY <1>3, <1>4, <1>10, <2>1 DEF Guardrail, Goto
<1>11. CASE Extract
  BY <1>3, <1>11 DEF Extract, Goto
<1>12. ASSUME Answered PROVE at' = "score" /\ s'.status = "scoring"
  <2>1. PICK values \in [s.schema.props -> {"null", "blank", "text"}], self \in SelfReports :
          Goto("score",
               [s EXCEPT !.status = "scoring",
                         !.fields = {f \in s.schema.props : values[f] # "null"},
                         !.blank = {f \in s.schema.props : values[f] = "blank"},
                         !.self = self])
    BY <1>12, Zenon DEF Answered
  <2>. QED  BY <1>1, <2>1 DEF Goto, State
<1>13. ASSUME ExtractFails PROVE at' = "score" /\ s'.status = "error"
  BY <1>4, <1>13 DEF ExtractFails, Goto
<1>14. CASE Primary \/ Fallback
  BY <1>3, <1>12, <1>13, <1>14 DEF Primary, Fallback, Goto
<1>15. CASE Score
  <2>1. at = "score" /\ at' = "route" /\ s.status # "completed"
    BY <1>15 DEF Score, Goto
  <2>2. CASE Halted
    BY <1>15, <2>1, <2>2 DEF Score, Goto
  <2>3. CASE ~ Halted
    <3>1. PICK conf \in Confidence :
            s' = [s EXCEPT !.status = "routing", !.conf = conf]
      BY <1>15, <2>3 DEF Score, Goto
    <3>2. /\ s'.fields = s.fields /\ s'.blank = s.blank /\ s'.self = s.self
          /\ s'.schema = s.schema /\ s'.mult = s.mult
          /\ s'.conf = conf /\ s'.status = "routing"
      BY <1>1, <3>1 DEF State
    <3>3. Confidence' = Confidence
      BY <3>2, SignalsKept
    <3>. QED  BY <2>1, <3>1, <3>2, <3>3
  <2>. QED  BY <2>2, <2>3
<1>16. CASE Route
  <2>1. /\ at = "route" /\ at' = Branch[Decision]
        /\ s'.fields = s.fields /\ s'.blank = s.blank /\ s'.self = s.self
        /\ s'.schema = s.schema /\ s'.status = s.status
    BY <1>1, <1>16 DEF Route, Goto, State
  <2>2. SignalsReach' = SignalsReach
    BY <2>1, SignalsKept
  <2>3. s.status # "completed" /\ at' \in {"deliver", "review", "dlq"}
    BY <2>1 DEF Branch, Decision, Level
  <2>4. at' = "deliver" => SignalsReach
    <3>. SUFFICES ASSUME at' = "deliver" PROVE SignalsReach
      OBVIOUS
    <3>1. Decision = "HIGH"
      BY <2>1 DEF Branch, Decision, Level
    <3>2. ~ Halted /\ s.conf \in Confidence
      BY <2>1, <3>1 DEF Decision
    <3>3. s.conf # NoScore
      BY <3>2, ConfidenceIsScore, UnitIsPositive, Thresholds
    <3>4. s.conf >= High
      BY <3>1, <3>2, <3>3 DEF Decision, Level
    <3>. QED  BY <3>2, <3>4, HighNeedsSignals
  <2>. QED  BY <2>1, <2>2, <2>3, <2>4
<1>17. CASE Deliver
  <2>1. /\ at = "deliver" /\ at' = "end"
        /\ s'.fields = s.fields /\ s'.blank = s.blank /\ s'.self = s.self
        /\ s'.schema = s.schema
    BY <1>1, <1>17 DEF Deliver, Goto, State
  <2>2. SignalsReach' = SignalsReach
    BY <2>1, SignalsKept
  <2>. QED  BY <2>1, <2>2
<1>18. CASE Review \/ Dlq \/ Again
  <2>1. s'.status # "completed" /\ at' \in {"end", "load"}
    BY <1>1, <1>18 DEF Review, Dlq, Again, Goto, State
  <2>. QED  BY <2>1
<1>. QED
  BY <1>2, <1>8, <1>9, <1>10, <1>11, <1>14, <1>15, <1>16, <1>17, <1>18 DEF Next, Step

\* A weak signal keeps a document from being completed, for any schema, score,
\* threshold and number of runs.
THEOREM WeakSignalsHold == Spec => []WeakSignalHolds
<1>1. Init => SignalInv
  BY DEF Init, SignalInv
<1>2. TypeOK /\ SignalInv /\ [Next]_vars => SignalInv'
  BY SignalInvStep
<1>3. SignalInv => WeakSignalHolds
  <2>. SUFFICES ASSUME SignalsReach,
                       NEW signal \in {Completeness, FillRate,
                                       IF s.self > 0 THEN <<s.self, Unit>> ELSE <<1, 1>>}
                PROVE  Reaches(signal)
    BY DEF SignalInv, WeakSignalHolds, Reaches
  <2>1. Reaches(<<1, 1>>)
    BY Thresholds, UnitIsPositive DEF Reaches
  <2>. QED  BY <2>1 DEF SignalsReach
<1>. QED  BY <1>1, <1>2, <1>3, TypeCorrect, PTL DEF Spec

=============================================================================
