------------------------------ MODULE GraphRun ------------------------------
(***************************************************************************)
(* What the rest of the system relies on of the runs of one document: the  *)
(* nodes of Pipeline are executed in the order of the graph, each with any *)
(* of its outcomes, and a later run starts from what the earlier one left. *)
(* ExtractionRun implements this.                                          *)
(***************************************************************************)
EXTENDS Pipeline

VARIABLES
  at, \* the node that is next, "end" after the last one
  st  \* the graph state

Init == at = "parse" /\ st = WithInput(EmptyState)

\* A node is executed: the state it leaves and the node after it.
Node(name, new, next) ==
  /\ at = name
  /\ st' = new
  /\ at' = next

Parse == \E out \in Parses : Node("parse", ParseNode(st, out), "guardrail")

Guardrail == Node("guardrail", GuardrailNode(st), "extract")

Extract == \E out \in Extractions : Node("extract", ExtractNode(st, out), "score")

Score == \E level \in Levels : Node("score", ScoreNode(st, level), "route")

Route == Node("route", RouteNode(st), RouteDecision(RouteNode(st)))

Terminate ==
  \E branch \in {"deliver", "review", "dlq"} : Node(branch, TerminalNode(branch, st), "end")

Again == Node("end", WithInput(st), "parse")

Next == Parse \/ Guardrail \/ Extract \/ Score \/ Route \/ Terminate \/ Again

Spec == Init /\ [][Next]_<<at, st>>

=============================================================================
