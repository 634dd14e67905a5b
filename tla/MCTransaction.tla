--------------------------- MODULE MCTransaction ---------------------------
(* Instances of Transaction for TLC.                                        *)
EXTENDS Transaction

CONSTANTS t1, t2, c1, c2, c3

GoalSealed == [c \in Once |-> 4]
=============================================================================
