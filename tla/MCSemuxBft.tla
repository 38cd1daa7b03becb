---- MODULE MCSemuxBft ----
(* SemuxBft on small networks.  Blocks are model values; each network lists
   their headers, who leads each view, and which messages come in time. *)
EXTENDS SemuxBft, TLC

CONSTANTS n1, n2, n3, n4, b1, b2, b3, b4

\* A header whose parent is p.
H(k, p, c) == [number |-> k, parent |-> p, coinbase |-> c]

\* Every vote may reach every node but its signer.
AllDelivered(v, n) == v.signer # n
AllHeard(n, w) == TRUE

\* Two validators, two heights, two views: n1 leads first, then n2.
PairPrimary(h, w) == IF (h + w) % 2 = 1 THEN n1 ELSE n2
PairHeader == b1 :> H(1, Genesis, n1) @@ b2 :> H(1, Genesis, n2)
           @@ b3 :> H(2, b1, n2) @@ b4 :> H(2, b1, n1)

\* Three validators in a line: n2 hears both others, who do not hear each other.
TrioPrimary(h, w) == IF w = 0 THEN n1 ELSE n2
TrioHeader == b1 :> H(1, Genesis, n1) @@ b2 :> H(1, Genesis, n2)

\* A slow network: n1 is cut off in view 1 and n3 from the proposal of view 0; in view 0 n1 and n2 exchange VALIDATE votes, and only the
\* PRECOMMIT votes of n2 reach the others; in view 1 n2 and n3 exchange VALIDATE
\* votes and the PRECOMMIT vote of n3 reaches n2.  COMMIT votes come too late.
SplitDelivers(v, n) ==
    \/ v.type = "VALIDATE" /\ v.view = 0 /\ {v.signer, n} = {n1, n2}
    \/ v.type = "PRECOMMIT" /\ v.view = 0 /\ v.signer = n2 /\ n # n2
    \/ v.type = "VALIDATE" /\ v.view = 1 /\ {v.signer, n} = {n2, n3}
    \/ v.type = "PRECOMMIT" /\ v.view = 1 /\ v.signer = n3 /\ n = n2
SplitHears(n, w) == IF w = 0 THEN n # n3 ELSE n # n1

\* Four validators, the first leader faulty: n4 offers b3 to some and b4 to others.
FourPrimary(h, w) == IF w = 0 THEN n4 ELSE n1
FourHeader == b1 :> H(1, Genesis, n1) @@ b3 :> H(1, Genesis, n4)
           @@ b4 :> H(1, Genesis, n4)

\* The leader n4 is faulty: it offers n1 and n2 two blocks, and assembles proofs.  n1
\* hears the VALIDATE approvals of view 0 for b3 and those of view 1, and the
\* rejections that unlock view 1; n3 never gets started.
FaultyDelivers(v, n) ==
    /\ n = n1 /\ v.signer \in {n2, n4}
    /\ \/ v.view = 0 /\ v.type = "PRECOMMIT" /\ ~v.value
       \/ v.value /\ v.type = "VALIDATE" /\ (v.view = 0 => v.blockHash = b3)
FaultyIdle == state[n3] = "NEW_HEIGHT"

\* An observer n3 next to two validators.  Approvals alone count in view 0: the
\* validators leave COMMIT by timeout, the observer hears COMMIT votes only.
ObserverDelivers(v, n) ==
    /\ v.signer # n /\ v.value
    /\ (v.type = "COMMIT") = (n = n3)
====
