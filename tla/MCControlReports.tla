--------------------------- MODULE MCControlReports ---------------------------
(* An instance of ControlReports for TLC. *)
EXTENDS ControlReports

CONSTANTS b1, b2, b3, p1

MCConnectionID == [b \in {b1, b2, b3} |-> b]

\* A bridge that changes its policy three times, so that a waiting report can be
\* replaced while another is under way; two connections with the same id,
\* one taking over from the other or reconnecting; one of them with a phone.
MCCasts == {{b1}, {b2, b3}, {b3, p1}}
MCRequests == [b \in {b1, b2, b3} |-> CASE b = b1 -> {"normal", "suppress", none}
                                        [] b = b2 -> {"suppress"}
                                        [] b = b3 -> {none}]
MCUpdates == [s \in {b1, b2, b3, p1} |-> IF s = b1 THEN 3 ELSE 1]
===============================================================================
