------------------------------ MODULE MCSocket ------------------------------
(* The connection with one unary and one streamed call.                      *)
EXTENDS Socket

\* The application asks for another try when it is told "closed".
MCOnStatus == [s \in Status |-> IF s = "closed" THEN "resume" ELSE "nothing"]

\* It closes the connection when it is told that it reconnects.
MCCloseOnLoss ==
    [s \in Status |-> IF s = "connecting" THEN "close" ELSE "nothing"]

=============================================================================
