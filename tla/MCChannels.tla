---- MODULE MCChannels ----
(* Channels: two nodes whose dials cross, and a second dial of one. *)
EXTENDS Channels

Dials == {<<"A", "B", 1>>, <<"B", "A", 1>>, <<"A", "B", 2>>}
====
