------------------------------ MODULE Pipeline ------------------------------
(***************************************************************************)
(* The extraction graph of app/pipeline: the LangGraph state that is       *)
(* threaded through the nodes (state.py), what each node returns for it    *)
(* (nodes.py) and the edges between the nodes (graph.py).                  *)
(*                                                                         *)
(* Data is abstracted to what the nodes branch on: the parsed text is      *)
(* absent, plain, or carries an injection; the extraction is present or    *)
(* not (truthy or falsy in Python); the confidence is known only by its    *)
(* side of the schema's two thresholds.  A node returns a partial update,  *)
(* so a key it does not name keeps the value it had, which is how values   *)
(* of an earlier run of the same thread survive into a later one.          *)
(***************************************************************************)

Levels == {"HIGH", "MEDIUM", "LOW"}

Parses == {"failed", "empty", "plain", "injection"}

Extractions == {"failed", "empty", "fields"}

Reasons == {"none", "PARSE_FAILED", "PARSE_EMPTY_OUTPUT", "INJECTION_DETECTED",
            "EXTRACTION_FAILED", "LOW_CONFIDENCE"}

GraphStatuses == {"none", "pending", "guarding", "extracting", "scoring",
                  "routing", "completed", "review", "rejected", "error"}

State == [status    : GraphStatuses,
          reason    : Reasons,
          text      : {"none", "plain", "injection"},
          extracted : BOOLEAN,
          conf      : Levels \cup {"none"},
          decision  : Levels \cup {"none"}]

\* The thread has no checkpoint: no key of the state is set.
EmptyState == [status |-> "none", reason |-> "none", text |-> "none",
               extracted |-> FALSE, conf |-> "none", decision |-> "none"]

\* Invoking the graph with a non-None input writes the input's keys over the
\* channels of the thread's last checkpoint and starts at START again.
WithInput(s) == [s EXCEPT !.status = "pending"]

\* A cancelled state also halts; the runner always seeds is_cancelled with
\* False, so no state of this graph is ever cancelled.
Halted(s) == s.status = "error"

ParseNode(s, out) ==
  CASE out = "failed" -> [s EXCEPT !.status = "error", !.reason = "PARSE_FAILED"]
    [] out = "empty"  -> [s EXCEPT !.status = "error", !.reason = "PARSE_EMPTY_OUTPUT",
                                   !.text = "none"]
    [] OTHER          -> [s EXCEPT !.status = "guarding", !.text = out]

GuardrailNode(s) ==
  IF Halted(s) THEN s
  ELSE IF s.text = "injection"
         THEN [s EXCEPT !.status = "error", !.reason = "INJECTION_DETECTED"]
         ELSE [s EXCEPT !.status = "extracting"]

\* Whether the node calls the LLM at all.
CallsLLM(s) == ~ Halted(s) /\ ~ s.extracted

ExtractNode(s, out) ==
  IF ~ CallsLLM(s) THEN s
  ELSE IF out = "failed"
         THEN [s EXCEPT !.status = "error", !.reason = "EXTRACTION_FAILED"]
         ELSE [s EXCEPT !.status = "scoring", !.extracted = (out = "fields")]

ScoreNode(s, level) ==
  IF Halted(s) THEN s ELSE [s EXCEPT !.status = "routing", !.conf = level]

Branch == [HIGH |-> "deliver", MEDIUM |-> "review", LOW |-> "dlq"]

\* The conditional edge; a halted state goes to the dead-letter branch, and a
\* missing confidence counts as 0.
RouteLevel(s) == IF Halted(s) \/ s.conf = "none" THEN "LOW" ELSE s.conf

RouteDecision(s) == Branch[RouteLevel(s)]

RouteNode(s) == [s EXCEPT !.decision = RouteLevel(s)]

DeliverNode(s) == [s EXCEPT !.status = "completed"]

ReviewNode(s) == [s EXCEPT !.status = "review"]

DlqNode(s) ==
  [s EXCEPT !.status = "rejected",
            !.reason = IF s.reason = "none" THEN "LOW_CONFIDENCE" ELSE s.reason]

TerminalNode(branch, s) ==
  CASE branch = "deliver" -> DeliverNode(s)
    [] branch = "review"  -> ReviewNode(s)
    [] branch = "dlq"     -> DlqNode(s)

=============================================================================
