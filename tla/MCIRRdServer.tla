--------------------------- MODULE MCIRRdServer ----------------------------
EXTENDS IRRdServer

CONSTANTS c1, c2

(* One client pipelines, the other only takes a place. *)
TwoClients == {c1, c2}
TwoAndNone == [c \in Conns |-> IF c = c1 THEN 2 ELSE 0]
=============================================================================
