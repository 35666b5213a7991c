--------------------------- MODULE MCExtractionRun ---------------------------
(* ExtractionRun on small instances. *)
EXTENDS ExtractionRun

CONSTANTS f1, f2

\* The schema of two fields, one of them required, before and after an edit.
SmallInputs ==
  {[props |-> {f1, f2}, required |-> {f1}],
   [props |-> {f1}, required |-> {}],
   [props |-> {}, required |-> {}]}

Text(chars, words, printable, injection) ==
  [chars |-> chars, words |-> words, printable |-> printable, injection |-> injection]

\* Nothing, a page number, a good text, a short one, a garbled one, an attack.
SmallTexts ==
  {Text(0, 0, TRUE, FALSE), Text(2, 1, TRUE, FALSE), Text(200, 40, TRUE, FALSE),
   Text(60, 10, TRUE, FALSE), Text(200, 40, FALSE, FALSE), Text(200, 40, TRUE, TRUE)}

=============================================================================
