---------------------------- MODULE MCPlayerClock ----------------------------
(* Tenths of a second: frames up to 0.2 s before the start, late after 0.3 s.*)
EXTENDS PlayerClock

CONSTANTS v, a

MCStreams == {v, a}
MCFrameTimes == {-2, 0, 4}
MCTargets == {0, 5}
=============================================================================
