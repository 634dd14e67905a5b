------------------------------ MODULE MCEvents ------------------------------
(* The instance of Events is given by the .cfg file alone.                  *)
EXTENDS Events
=============================================================================
