----------------------------- MODULE MCRingQueue -----------------------------
(***************************************************************************)
(* RingQueue as small as it gets while head, tail and count can disagree:  *)
(* three slots, counted by the fewest values, for jobs told apart.         *)
(***************************************************************************)
EXTENDS RingQueue

MCQueueSize == 3
MCU8Max == 3
==============================================================================
