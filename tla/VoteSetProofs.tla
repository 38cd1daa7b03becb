---------------------------- MODULE VoteSetProofs ----------------------------
(***************************************************************************)
(* Quorums of the BFT consensus: what ceil(2n/3) of the validators         *)
(* (VoteSet.getTwoThirds) guarantees when less than a third of them are    *)
(* unreliable, for every set of validators.                                *)
(***************************************************************************)
EXTENDS VoteSet, FiniteSetTheorems, TLAPS

LEMMA ValidatorsFinite ==
    /\ IsFiniteSet(Validators)
    /\ Cardinality(Validators) \in Nat
BY NodesAssumption, FS_Subset, FS_CardinalityType

\* The rounding up of the code, as the inequalities the proofs use.
LEMMA TwoThirdsBounds ==
    /\ TwoThirds \in Nat
    /\ 3 * TwoThirds >= 2 * Cardinality(Validators)
    /\ 3 * TwoThirds < 2 * Cardinality(Validators) + 3
BY ValidatorsFinite DEF TwoThirds

\* Counting a subset of the validators never exceeds a larger one.
LEMMA QuorumMonotonic ==
    ASSUME NEW S, NEW T, S \subseteq T, T \subseteq Validators, IsQuorum(S)
    PROVE  IsQuorum(T)
<1>1. IsFiniteSet(T)
    BY ValidatorsFinite, FS_Subset
<1>2. IsFiniteSet(S) /\ Cardinality(S) <= Cardinality(T)
    BY <1>1, FS_Subset
<1>3. Cardinality(S) \in Nat /\ Cardinality(T) \in Nat
    BY <1>1, <1>2, FS_CardinalityType
<1> QED
    BY <1>2, <1>3, TwoThirdsBounds DEF IsQuorum

\* Two quorums have a reliable validator in common: what keeps two blocks from
\* both being approved in one view (VoteSet.anyApproved).
THEOREM QuorumsShareReliable ==
    ASSUME NEW S \in SUBSET Validators, NEW T \in SUBSET Validators,
           IsQuorum(S), IsQuorum(T)
    PROVE  \E s \in Reliable : s \in S /\ s \in T
<1> DEFINE Bad == Validators \ Reliable
<1>1. /\ IsFiniteSet(S) /\ Cardinality(S) \in Nat
      /\ IsFiniteSet(T) /\ Cardinality(T) \in Nat
      /\ IsFiniteSet(Bad) /\ Cardinality(Bad) \in Nat
      /\ IsFiniteSet(S \cap T) /\ Cardinality(S \cap T) \in Nat
    <2>1. Bad \in SUBSET Validators /\ S \cap T \in SUBSET Validators
        OBVIOUS
    <2> QED
        BY <2>1, ValidatorsFinite, FS_Subset, FS_CardinalityType
<1>2. Cardinality(S) + Cardinality(T) - Cardinality(S \cap T)
          <= Cardinality(Validators)
    <2>1. Cardinality(S \cup T)
              = Cardinality(S) + Cardinality(T) - Cardinality(S \cap T)
        BY <1>1, FS_Union
    <2>2. Cardinality(S \cup T) <= Cardinality(Validators)
        BY ValidatorsFinite, FS_Subset
    <2> QED
        BY <2>1, <2>2
<1>3. 3 * Cardinality(Bad) < Cardinality(Validators)
    BY FaultAssumption
<1>4. Cardinality(S) >= TwoThirds /\ Cardinality(T) >= TwoThirds
    BY DEF IsQuorum
<1> HIDE DEF Bad
<1>5. Cardinality(S \cap T) > Cardinality(Bad)
    BY <1>1, <1>2, <1>3, <1>4, ValidatorsFinite, TwoThirdsBounds
<1>6. ~ (S \cap T \subseteq Bad)
    <2>1. SUFFICES ASSUME S \cap T \subseteq Bad PROVE FALSE
        OBVIOUS
    <2>2. Cardinality(S \cap T) <= Cardinality(Bad)
        BY <1>1, <2>1, FS_Subset
    <2> QED
        BY <1>1, <1>5, <2>2
<1> QED
    BY <1>6 DEF Bad, Reliable

\* A quorum holds a reliable validator.
LEMMA QuorumHasReliable ==
    ASSUME NEW S \in SUBSET Validators, IsQuorum(S)
    PROVE  \E s \in Reliable : s \in S
BY QuorumsShareReliable

\* Adding a vote keeps a vote set of one type, height and view.
LEMMA AddVoteType ==
    ASSUME NEW vs \in VoteSets, NEW v \in Vote
    PROVE  AddVote(vs, v) \in VoteSets
BY DEF AddVote, VoteSets

LEMMA EmptyVoteSetType ==
    ASSUME NEW t \in VoteType, NEW h \in Heights, NEW w \in Views
    PROVE  EmptyVoteSet(t, h, w) \in VoteSets
BY DEF EmptyVoteSet, VoteSets

\* Everything a vote set holds beyond its initial votes was offered to it, and is
\* of its type, height and view and from a validator.
LEMMA AddVoteOnlyAdds ==
    ASSUME NEW vs \in VoteSets, NEW v \in Vote
    PROVE  /\ AddVote(vs, v).type = vs.type
           /\ AddVote(vs, v).height = vs.height
           /\ AddVote(vs, v).view = vs.view
           /\ AddVote(vs, v).votes
                  = vs.votes \cup (IF Accepts(vs, v) THEN {v} ELSE {})
BY DEF AddVote, VoteSets

\* The votes the code constructs are votes.
LEMMA NewVotesType ==
    ASSUME NEW t \in VoteType, NEW h \in Heights, NEW w \in Views, NEW n \in Nodes
    PROVE  /\ \A b \in Blocks : NewApprove(t, h, w, b, n) \in Vote
           /\ NewReject(t, h, w, n) \in Vote
BY DEF Vote, NewApprove, NewReject

\* Two approvals are the same only if all that was signed is the same.
LEMMA ApproveInjective ==
    ASSUME NEW t, NEW h, NEW w, NEW b, NEW n,
           NEW t2, NEW h2, NEW w2, NEW b2, NEW n2,
           NewApprove(t, h, w, b, n) = NewApprove(t2, h2, w2, b2, n2)
    PROVE  t = t2 /\ h = h2 /\ w = w2 /\ b = b2 /\ n = n2
BY DEF NewApprove

\* A rejection is never taken for the approval of some block.
LEMMA RejectIsNoApprove ==
    ASSUME NEW t, NEW h, NEW w, NEW n, NEW t2, NEW h2, NEW w2, NEW b, NEW n2
    PROVE  NewReject(t, h, w, n) # NewApprove(t2, h2, w2, b, n2)
BY DEF NewApprove, NewReject
=============================================================================
