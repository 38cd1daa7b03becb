------------------------------- MODULE VoteSet -------------------------------
(***************************************************************************)
(* The votes of the Semux BFT consensus and the sets they are collected    *)
(* in (consensus/Vote.java, consensus/VoteSet.java).  A signature is       *)
(* abstracted to its signer: a vote can only be in circulation if its      *)
(* signer produced it, or if the signer is faulty.                         *)
(***************************************************************************)
EXTENDS Integers, FiniteSets

CONSTANTS
    Nodes,        \* every node of the network, validators or not
    Validators,   \* the validators elected for the modelled heights
    Faulty,       \* nodes that may send anything
    Restarting,   \* nodes that may stop and start again without their votes
    Blocks,       \* block hashes (a hash stands for its block)
    EmptyHash     \* Bytes.EMPTY_HASH, the hash in a reject vote

ASSUME NodesAssumption ==
    /\ IsFiniteSet(Nodes)
    /\ Validators \subseteq Nodes
    /\ Faulty \subseteq Nodes
    /\ Restarting \subseteq Nodes \ Faulty
    /\ EmptyHash \notin Blocks

\* The validators that run the code and keep their memory.
Reliable == Validators \ (Faulty \cup Restarting)

\* Less than a third of the validators are faulty or lose their memory.
ASSUME FaultAssumption ==
    3 * Cardinality(Validators \ Reliable) < Cardinality(Validators)

Correct == Nodes \ Faulty

Heights == Nat \ {0}
Views == Nat

VoteType == {"VALIDATE", "PRECOMMIT", "COMMIT"}

Vote ==
    [type: VoteType, value: BOOLEAN, height: Heights, view: Views,
     blockHash: Blocks \cup {EmptyHash}, signer: Nodes]

NewApprove(t, h, w, b, n) ==
    [type |-> t, value |-> TRUE, height |-> h, view |-> w,
     blockHash |-> b, signer |-> n]

\* Mutant: height and view are swapped.
NewRejectSwapped(t, h, w, n) ==
    [type |-> t, value |-> FALSE, height |-> w, view |-> h,
     blockHash |-> EmptyHash, signer |-> n]

NewReject(t, h, w, n) ==
    [type |-> t, value |-> FALSE, height |-> h, view |-> w,
     blockHash |-> EmptyHash, signer |-> n]

\* What a faulty signer may put in circulation for a height and a view.
FaultyVotes(h, w) ==
    {NewApprove(t, h, w, b, n) : t \in VoteType, b \in Blocks, n \in Faulty}
        \cup {NewReject(t, h, w, n) : t \in VoteType, n \in Faulty}

\* (int) Math.ceil(validators.size() * 2.0 / 3.0)
TwoThirds == (2 * Cardinality(Validators) + 2) \div 3

IsQuorum(S) == Cardinality(S) >= TwoThirds

VoteSets ==
    [type: VoteType, height: Heights, view: Views, votes: SUBSET Vote]

EmptyVoteSet(t, h, w) == [type |-> t, height |-> h, view |-> w, votes |-> {}]

Accepts(vs, v) ==
    /\ v.type = vs.type
    /\ v.height = vs.height
    /\ v.view = vs.view
    /\ v.signer \in Validators

\* The maps of approvals and rejections are keyed by signer, so a repeated
\* vote changes nothing; an approval and a rejection do not exclude each other.
AddVote(vs, v) ==
    IF Accepts(vs, v) THEN [vs EXCEPT !.votes = @ \cup {v}] ELSE vs

AddVotes(vs, V) == [vs EXCEPT !.votes = @ \cup {v \in V : Accepts(vs, v)}]

GetApprovals(vs, b) ==
    {v.signer : v \in {u \in vs.votes : u.value /\ u.blockHash = b}}

GetRejections(vs) == {v \in vs.votes : ~v.value}

IsRejected(vs) == IsQuorum({v.signer : v \in GetRejections(vs)})

\* anyApproved() returns one of these, in the order of a hash map.
AnyApproved(vs) == {b \in Blocks : IsQuorum(GetApprovals(vs, b))}
=============================================================================
