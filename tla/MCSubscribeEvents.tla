------------------------- MODULE MCSubscribeEvents -------------------------
(* Instances of SubscribeEvents for TLC.                                    *)
EXTENDS SubscribeEvents

FromLatestAndOne == {Latest, 1}
=============================================================================
