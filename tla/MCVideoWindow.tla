--------------------------- MODULE MCVideoWindow ---------------------------
(* Three surfaces in the life of the activity, and a few sources.            *)
EXTENDS VideoWindow

CONSTANTS w1, w2, w3

MCWindows == {w1, w2, w3}
=============================================================================
