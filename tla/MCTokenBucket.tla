---------------------------- MODULE MCTokenBucket ---------------------------
(***************************************************************************)
(* Bounds for TLC: a minute of MCMinute ticks, the clock running for two     *)
(* minutes and a half.                                                       *)
(***************************************************************************)
EXTENDS TokenBucket

MCMinute == 6
MCMaxTime == 15
=============================================================================
