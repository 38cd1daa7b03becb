---- MODULE MCSemuxSync ----
(* SemuxSync with small queues: an honest and a faulty peer. *)
EXTENDS SemuxSync, TLC

CONSTANTS h, g, f

\* Every peer says it has all blocks.
AllHave == [p \in Peers |-> MaxHeight]
\* g is behind.
OneBehind == [p \in Peers |-> IF p = g THEN 1 ELSE MaxHeight]
====
