---- MODULE MCForkActivation ----
(* ForkActivation with a window of three blocks, two of which must signal. *)
EXTENDS ForkActivation, TLC
====
