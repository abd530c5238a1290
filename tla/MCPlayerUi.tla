----------------------------- MODULE MCPlayerUi -----------------------------
(* Three videos; seeks to the start, to the last second that works and to    *)
(* the first that does not.                                                  *)
EXTENDS PlayerUi

MCProgress == {0, 2147, 2148}
=============================================================================
