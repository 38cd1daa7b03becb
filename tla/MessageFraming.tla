---- MODULE MessageFraming ----
(***************************************************************************)
(* How a message becomes frames and frames a message: SemuxMessageHandler  *)
(* on the sizes of a packet and of its frames' bodies.                     *)
(***************************************************************************)
EXTENDS Integers, Sequences, Functions

CONSTANT FrameLimit     \* netMaxFrameBodySize

ASSUME FramingAssumption == FrameLimit \in Nat \ {0}

Total(size) == (size - 1) \div FrameLimit + 1

\* The body sizes of a packet's frames; the last one gets the remainder.
Encode(size) == [i \in 1..Total(size) |-> IF i < Total(size) THEN FrameLimit ELSE size % FrameLimit]

\* What is left to come of a packet after some of its frames.
Remaining(size, bodies) == size - FoldFunction(+, 0, bodies)

\* A frame as large as the packet is decoded at once; others are collected until nothing remains.
Decodes(size, bodies) == bodies = <<size>> \/ Remaining(size, bodies) = 0

\* Whether a packet of this size reaches the other side.
Arrives(size) == Decodes(size, Encode(size))
====
