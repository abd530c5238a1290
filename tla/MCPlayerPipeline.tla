-------------------------- MODULE MCPlayerPipeline --------------------------
(* A video and an audio stream, one or two threads of the app.               *)
EXTENDS PlayerPipeline, TLC

CONSTANTS v, a, c1, c2

MCStreams == {v, a}
OneCaller == {c1}
TwoCallers == {c1, c2}
CallersAreAlike == Permutations(TwoCallers)
=============================================================================
