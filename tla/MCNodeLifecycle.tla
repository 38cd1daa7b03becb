---- MODULE MCNodeLifecycle ----
(* NodeLifecycle: the genesis pays an account c and an account s, block 1 only rewards
   c, block 2 has a transaction of s. *)
EXTENDS NodeLifecycle

TwoKeys == {"c", "s"}
KeysOf(h) == IF h = 1 THEN {"c"} ELSE {"c", "s"}
SenderOf(h) == IF h = 2 THEN "s" ELSE "nobody"
====
