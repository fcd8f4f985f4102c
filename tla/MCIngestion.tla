---------------------------- MODULE MCIngestion ----------------------------
(* Values of the constants of Ingestion for TLC.                           *)
EXTENDS IngestionInvariant, TLC

CONSTANTS f1, f2, c1, c2

Doc(kind, describe, ocr, cloud) ==
  [sha |-> "a", kind |-> kind, sniffed |-> TRUE, size |-> 1,
   describe |-> describe, ocr |-> ocr, cloud |-> cloud]

\* A PDF with and without permission to leave, both with the same bytes; a text whose
\* type is not sniffed; and an empty file, which is refused.
SomeUploads ==
  {Doc("pdf", TRUE, FALSE, TRUE), Doc("pdf", FALSE, FALSE, FALSE),
   [Doc("text", FALSE, FALSE, FALSE) EXCEPT !.sniffed = FALSE],
   [Doc("pdf", FALSE, FALSE, FALSE) EXCEPT !.size = 0]}
SomeBudget == [[e \in Bounded |-> 1] EXCEPT !["upload"] = 2, !["any"] = 4]

\* Nothing left, or an image that an older version received and never converted.
LegacyImage ==
  [sha |-> "a", kind |-> "image", describe |-> FALSE, ocr |-> FALSE, cloud |-> FALSE,
   version |-> 0, attach |-> FALSE, status |-> "received", markdown |-> FALSE]
SomeLegacy == {<<>>, f1 :> LegacyImage}
=============================================================================
