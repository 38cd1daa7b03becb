---------------------------- MODULE SemuxBftProofs ----------------------------
(***************************************************************************)
(* The engine of SemuxBft keeps its types, counts nothing stale, and       *)
(* implements the voting rules of BftVoting, for every network.            *)
(***************************************************************************)
EXTENDS SemuxBft, VoteSetProofs, SequenceTheorems

\* The signed votes a node can have received at height h and view w.
Signed(h, w) == votes \cup FaultyVotes(h, w)

\* A vote set of n: of its type and of the height and view n is in, with votes
\* that validators signed (VoteSet.addVote, clearVotes).
CountedIn(vs, t, n) ==
    /\ vs.type = t /\ vs.height = height[n] /\ vs.view = view[n]
    /\ \A v \in vs.votes :
          /\ v \in Signed(height[n], view[n])
          /\ v.type = t /\ v.height = height[n] /\ v.view = view[n]
          /\ v.signer \in Validators

Counted ==
    \A n \in Correct :
        /\ CountedIn(validateVotes[n], "VALIDATE", n)
        /\ CountedIn(precommitVotes[n], "PRECOMMIT", n)
        /\ CountedIn(commitVotes[n], "COMMIT", n)

\* The validators that may be shown to have approved or rejected, as in BftVoting.
Approvable(t, h, w, b) ==
    IsQuorum({s \in Validators : s \in Reliable => NewApprove(t, h, w, b, s) \in votes})

Rejectable(h, w) ==
    IsQuorum({s \in Validators : s \in Reliable => NewReject("PRECOMMIT", h, w, s) \in votes})

\* A proof-of-unlock holds votes that were signed for the view it unlocks.
HonestProof(pf) ==
    /\ pf.view <= MaxView
    /\ pf.view = 0 => pf.votes = {}
    /\ pf.view > 0 => pf.votes \subseteq Signed(pf.height, pf.view - 1)

HonestProofs ==
    /\ \A pf \in newViews : HonestProof(pf)
    /\ \A p \in proposals : HonestProof(p.proof)
    /\ \A n \in Correct :
          /\ HonestProof(proof[n])
          /\ proof[n].height = height[n] /\ proof[n].view = view[n]

\* The proposal of n is for the view it is in.
HeldProposals ==
    \A n \in Correct :
        proposal[n] # NoProposal =>
            /\ proposal[n].proof.height = height[n]
            /\ proposal[n].proof.view = view[n]
            /\ proposal[n].signer = Primary(height[n], view[n])
            /\ HonestProof(proposal[n].proof)

\* Correct nodes sign rejections of nothing and approvals of a block.
WellFormed == \A v \in votes : IF v.value THEN v.blockHash \in Blocks
                               ELSE v.blockHash = EmptyHash

\* The view n is in was unlocked.
PreviousRejected ==
    \A n \in Correct : view[n] > 0 => Rejectable(height[n], view[n] - 1)

\* n votes on the block after its latest one, until it has added that.
AtHeight ==
    \A n \in Correct :
        /\ status[n] = "RUNNING" =>
              height[n] = IF state[n] = "FINALIZE" THEN Len(chain[n]) ELSE Len(chain[n]) + 1
        /\ status[n] = "SYNCING" => height[n] < target[n] /\ target[n] <= MaxHeight + 1

\* What is on the chains is within the bounds.
ChainBounds ==
    \A n \in Correct :
        /\ Len(chain[n]) <= MaxHeight
        /\ \A h \in 1 .. Len(chain[n]) : chain[n][h].view <= MaxView

\* A reliable validator has not voted ahead of itself; what it validated in its
\* view is the proposal it holds.
VotesBehind ==
    \A v \in votes : v.signer \in Reliable =>
        LET s == v.signer IN
        /\ \/ v.height < height[s]
           \/ v.height = height[s] /\ v.view <= view[s]
        /\ v.height = height[s] /\ v.view = view[s] /\ v.type = "VALIDATE" /\ v.value
              => proposal[s] # NoProposal /\ proposal[s].block = v.blockHash

\* What a reliable validator validated belongs to the height it voted on.
ValidatedFits ==
    \A v \in votes : v.signer \in Reliable /\ v.type = "VALIDATE" /\ v.value
        => Header[v.blockHash].number = v.height

\* What it approved in PRE_COMMIT was validated by 2/3.
PreCommitsBacked ==
    \A v \in votes : v.signer \in Reliable /\ v.type = "PRECOMMIT" /\ v.value
        => Approvable("VALIDATE", v.height, v.view, v.blockHash)

Inv ==
    /\ TypeOK
    /\ Counted
    /\ HonestProofs
    /\ HeldProposals
    /\ WellFormed
    /\ PreviousRejected
    /\ AtHeight
    /\ ChainBounds
    /\ VotesBehind
    /\ ValidatedFits
    /\ PreCommitsBacked

\* What a step does to what BftVoting sees.  A node casts a vote ...
Casts ==
    \E n \in Correct, v \in Vote :
        /\ status[n] = "RUNNING" /\ state[n] # "FINALIZE" /\ height[n] <= MaxHeight
        /\ v.signer = n /\ v.height = height[n] /\ v.view = view[n]
        /\ IF v.value THEN v.blockHash \in Blocks ELSE v.blockHash = EmptyHash
        /\ v.type = "VALIDATE" /\ v.value =>
              proposal[n] # NoProposal /\ proposal[n].block = v.blockHash
        /\ v.type = "PRECOMMIT" /\ v.value =>
              Approvable("VALIDATE", height[n], view[n], v.blockHash)
        /\ v.type = "COMMIT" =>
              v.value /\ Approvable("PRECOMMIT", height[n], view[n], v.blockHash)
        /\ votes' = votes \cup {v} /\ UNCHANGED chain

\* ... or adds a block to its chain ...
Appends ==
    \E n \in Correct, fb \in FinalBlock :
        /\ Len(chain[n]) + 1 <= MaxHeight /\ fb.view <= MaxView
        /\ Approvable("PRECOMMIT", Len(chain[n]) + 1, fb.view, fb.block)
        /\ chain' = [chain EXCEPT ![n] = Append(@, fb)] /\ UNCHANGED votes

\* ... or neither.
Quiet == UNCHANGED <<votes, chain>>

Effect == Casts \/ Appends \/ Quiet

-----------------------------------------------------------------------------
\* Votes stay in circulation, so what they prove stays proved.
LEMMA Monotonic ==
    ASSUME votes \subseteq votes', NEW t, NEW h, NEW w, NEW b
    PROVE  /\ Approvable(t, h, w, b) => Approvable(t, h, w, b)'
           /\ Rejectable(h, w) => Rejectable(h, w)'
           /\ Signed(h, w) \subseteq Signed(h, w)'
<1>1. {s \in Validators : s \in Reliable => NewApprove(t, h, w, b, s) \in votes}
          \subseteq {s \in Validators : s \in Reliable => NewApprove(t, h, w, b, s) \in votes'}
    OBVIOUS
<1>2. {s \in Validators : s \in Reliable => NewReject("PRECOMMIT", h, w, s) \in votes}
          \subseteq {s \in Validators : s \in Reliable => NewReject("PRECOMMIT", h, w, s) \in votes'}
    OBVIOUS
<1>3. Approvable(t, h, w, b) => Approvable(t, h, w, b)'
    BY <1>1, QuorumMonotonic DEF Approvable
<1>4. Rejectable(h, w) => Rejectable(h, w)'
    BY <1>2, QuorumMonotonic DEF Rejectable
<1>5. Signed(h, w) \subseteq Signed(h, w)'
    BY DEF Signed
<1> QED
    BY <1>3, <1>4, <1>5

LEMMA HonestProofStays ==
    ASSUME votes \subseteq votes', NEW pf, HonestProof(pf)
    PROVE  HonestProof(pf)'
BY Monotonic DEF HonestProof

\* Every vote that can be received is a vote, and those of reliable validators
\* were cast.
LEMMA SignedVotes ==
    ASSUME TypeOK, NEW h \in Heights, NEW w \in Views
    PROVE  /\ Signed(h, w) \subseteq Vote
           /\ \A v \in Signed(h, w) : v.signer \in Reliable => v \in votes
           /\ \A v \in FaultyVotes(h, w) : v.height = h /\ v.view = w
<1>1. FaultyVotes(h, w) \subseteq Vote
    <2>1. ASSUME NEW t \in VoteType, NEW n \in Faulty
          PROVE  /\ \A b \in Blocks : NewApprove(t, h, w, b, n) \in Vote
                 /\ NewReject(t, h, w, n) \in Vote
        BY NodesAssumption, NewVotesType
    <2> QED
        BY <2>1 DEF FaultyVotes
<1>2. \A v \in FaultyVotes(h, w) : v.signer \in Faulty /\ v.height = h /\ v.view = w
    BY DEF FaultyVotes, NewApprove, NewReject
<1> QED
    BY <1>1, <1>2 DEF TypeOK, Signed, Reliable

\* A rejection or an approval is determined by its fields.
LEMMA VoteByFields ==
    ASSUME NEW v \in Vote
    PROVE  /\ v.value => v = NewApprove(v.type, v.height, v.view, v.blockHash, v.signer)
           /\ ~v.value /\ v.blockHash = EmptyHash
                  => v = NewReject(v.type, v.height, v.view, v.signer)
BY DEF Vote, NewApprove, NewReject

\* Approvals a node counts could be shown to anybody.
LEMMA CountedApproval ==
    ASSUME TypeOK, Counted, NEW n \in Correct, NEW b \in Blocks
    PROVE  /\ b \in AnyApproved(validateVotes[n])
                  => Approvable("VALIDATE", height[n], view[n], b)
           /\ b \in AnyApproved(precommitVotes[n])
                  => Approvable("PRECOMMIT", height[n], view[n], b)
<1>1. ASSUME NEW vs \in VoteSets, NEW t, CountedIn(vs, t, n), b \in AnyApproved(vs)
      PROVE  Approvable(t, height[n], view[n], b)
    <2> DEFINE A == {s \in Validators :
                       s \in Reliable => NewApprove(t, height[n], view[n], b, s) \in votes}
    <2>1. GetApprovals(vs, b) \subseteq A
        <3> SUFFICES ASSUME NEW v \in vs.votes, v.value, v.blockHash = b
                     PROVE  v.signer \in A
            BY DEF GetApprovals
        <3>1. height[n] \in Heights /\ view[n] \in Views
            BY DEF TypeOK
        <3>2. v \in Signed(height[n], view[n]) /\ v.signer \in Validators
            BY <1>1 DEF CountedIn
        <3>3. v \in Vote /\ (v.signer \in Reliable => v \in votes)
            BY <3>1, <3>2, SignedVotes
        <3>4. v = NewApprove(t, height[n], view[n], b, v.signer)
            BY <1>1, <3>3, VoteByFields DEF CountedIn
        <3> QED
            BY <3>2, <3>3, <3>4
    <2>2. IsQuorum(GetApprovals(vs, b))
        BY <1>1 DEF AnyApproved
    <2> QED
        BY <2>1, <2>2, QuorumMonotonic DEF Approvable
<1> QED
    BY <1>1 DEF Counted, TypeOK

\* A quorum of rejections, counted or shown, could be shown to anybody.
LEMMA SignedRejections ==
    ASSUME TypeOK, WellFormed, NEW h \in Heights, NEW w \in Views,
           NEW V, V \subseteq Signed(h, w),
           \A v \in V : ~v.value /\ v.type = "PRECOMMIT" /\ v.height = h /\ v.view = w
                          /\ v.signer \in Validators,
           IsQuorum({v.signer : v \in V})
    PROVE  Rejectable(h, w)
<1> DEFINE R == {s \in Validators :
                   s \in Reliable => NewReject("PRECOMMIT", h, w, s) \in votes}
<1>1. {v.signer : v \in V} \subseteq R
    <2> SUFFICES ASSUME NEW v \in V PROVE v.signer \in R
        OBVIOUS
    <2>1. v \in Vote /\ (v.signer \in Reliable => v \in votes)
        BY SignedVotes
    <2>2. v.signer \in Reliable => v = NewReject("PRECOMMIT", h, w, v.signer)
        BY <2>1, VoteByFields DEF WellFormed
    <2> QED
        BY <2>1, <2>2
<1> QED
    BY <1>1, QuorumMonotonic DEF Rejectable

LEMMA CountedRejection ==
    ASSUME TypeOK, Counted, WellFormed, NEW n \in Correct, IsRejected(precommitVotes[n])
    PROVE  Rejectable(height[n], view[n])
<1>1. height[n] \in Heights /\ view[n] \in Views
    BY DEF TypeOK
<1> DEFINE V == GetRejections(precommitVotes[n])
<1>2. IsQuorum({v.signer : v \in V})
    BY DEF IsRejected
<1>3. /\ V \subseteq Signed(height[n], view[n])
      /\ \A v \in V : /\ ~v.value /\ v.type = "PRECOMMIT"
                       /\ v.height = height[n] /\ v.view = view[n]
                       /\ v.signer \in Validators
    BY DEF GetRejections, Counted, CountedIn
<1> QED
    BY <1>1, <1>2, <1>3, SignedRejections

\* A proof-of-unlock that is accepted proves that view rejected.
LEMMA UnlockProves ==
    ASSUME TypeOK, WellFormed, NEW pf \in Proof, pf.view > 0, HonestProof(pf), Unlocks(pf)
    PROVE  Rejectable(pf.height, pf.view - 1)
<1> DEFINE h == pf.height
           w == pf.view - 1
           V == {v \in pf.votes : /\ ~v.value /\ v.type = "PRECOMMIT" /\ v.height = h
                                  /\ v.view = w /\ v.signer \in Validators}
<1>1. h \in Heights /\ w \in Views
    BY DEF Proof, Heights, Views
<1>2. V \subseteq Signed(h, w)
    BY DEF HonestProof
<1>3. IsQuorum({v.signer : v \in V})
    <2>1. GetRejections(AddVotes(EmptyVoteSet("PRECOMMIT", h, w), pf.votes)) = V
        BY DEF GetRejections, AddVotes, EmptyVoteSet, Accepts
    <2> QED
        BY <2>1 DEF Unlocks, IsRejected
<1>4. \A v \in V : /\ ~v.value /\ v.type = "PRECOMMIT" /\ v.height = h
                   /\ v.view = w /\ v.signer \in Validators
    OBVIOUS
<1> HIDE DEF V
<1> QED
    BY <1>1, <1>2, <1>3, <1>4, SignedRejections
-----------------------------------------------------------------------------
\* Vote sets that were just cleared count nothing.
LEMMA ClearedCount ==
    ASSUME TypeOK, Counted, NEW n \in Correct, NEW h \in Heights, NEW w \in Views,
           ClearVotes(n, h, w), votes \subseteq votes',
           height' = [height EXCEPT ![n] = h], view' = [view EXCEPT ![n] = w]
    PROVE  /\ validateVotes' \in [Correct -> VoteSets]
           /\ precommitVotes' \in [Correct -> VoteSets]
           /\ commitVotes' \in [Correct -> VoteSets]
           /\ Counted'
<1>1. \A t \in VoteType : EmptyVoteSet(t, h, w) \in VoteSets
    BY EmptyVoteSetType
<1>2. /\ validateVotes' \in [Correct -> VoteSets]
      /\ precommitVotes' \in [Correct -> VoteSets]
      /\ commitVotes' \in [Correct -> VoteSets]
    BY <1>1 DEF ClearVotes, TypeOK, VoteType
<1>3. ASSUME NEW m \in Correct
      PROVE  /\ CountedIn(validateVotes[m], "VALIDATE", m)'
             /\ CountedIn(precommitVotes[m], "PRECOMMIT", m)'
             /\ CountedIn(commitVotes[m], "COMMIT", m)'
    <2>1. CASE m # n
        <3>1. /\ validateVotes'[m] = validateVotes[m]
              /\ precommitVotes'[m] = precommitVotes[m]
              /\ commitVotes'[m] = commitVotes[m]
              /\ height'[m] = height[m] /\ view'[m] = view[m]
            BY <2>1 DEF ClearVotes, TypeOK
        <3>2. ASSUME NEW vs, NEW t, CountedIn(vs, t, m)
              PROVE  /\ vs.type = t /\ vs.height = height[m] /\ vs.view = view[m]
                     /\ \A v \in vs.votes :
                           /\ v \in votes' \cup FaultyVotes(height[m], view[m])
                           /\ v.type = t /\ v.height = height[m] /\ v.view = view[m]
                           /\ v.signer \in Validators
            BY <3>2 DEF CountedIn, Signed
        <3> QED
            BY <3>1, <3>2 DEF Counted, CountedIn, Signed
    <2>2. CASE m = n
        BY <2>2 DEF ClearVotes, TypeOK, CountedIn, EmptyVoteSet
    <2> QED
        BY <2>1, <2>2
<1> QED
    BY <1>2, <1>3 DEF Counted

\* The loop gives way to a sync (sync).
LEMMA StartSyncKeeps ==
    ASSUME Inv, NEW n \in Correct, NEW t \in Heights,
           height[n] < t, t <= MaxHeight + 1, StartSync(n, t),
           NEW s \in States, state' = [state EXCEPT ![n] = s]
    PROVE  Inv'
<1>1. TypeOK
    BY DEF Inv
<1>2. UNCHANGED <<chain, height, view, proof, proposal, validBlocks, votes, proposals, newViews>>
    BY DEF StartSync, position, network
<1>3. height[n] \in Heights /\ view[n] \in Views
    BY <1>1 DEF TypeOK
<1>4. /\ height' = [height EXCEPT ![n] = height[n]]
      /\ view' = [view EXCEPT ![n] = view[n]]
    BY <1>1, <1>2 DEF TypeOK
<1>5. /\ validateVotes' \in [Correct -> VoteSets]
      /\ precommitVotes' \in [Correct -> VoteSets]
      /\ commitVotes' \in [Correct -> VoteSets]
      /\ Counted'
    BY <1>1, <1>2, <1>3, <1>4, ClearedCount DEF StartSync, Inv
<1>6. TypeOK'
    BY <1>1, <1>2, <1>5 DEF StartSync, TypeOK, Statuses
<1>7. HonestProofs' /\ HeldProposals' /\ PreviousRejected' /\ PreCommitsBacked'
    BY <1>2 DEF Inv, HonestProofs, HeldProposals, HonestProof, Signed, PreviousRejected,
                Rejectable, PreCommitsBacked, Approvable
<1>8. WellFormed' /\ ChainBounds' /\ VotesBehind' /\ ValidatedFits'
    BY <1>2 DEF Inv, WellFormed, ChainBounds, VotesBehind, ValidatedFits
<1>9. AtHeight'
    BY <1>1, <1>2 DEF Inv, AtHeight, TypeOK, StartSync
<1> QED
    BY <1>5, <1>6, <1>7, <1>8, <1>9 DEF Inv

\* The loop starts a new height (enterNewHeight).
LEMMA EnterNewHeightKeeps ==
    ASSUME Inv, NEW n \in Correct, EnterNewHeight(n),
           validBlocks' \in [Correct -> SUBSET Blocks],
           n \in Reliable => height[n] < Len(chain[n]) + 1
    PROVE  Inv'
<1> DEFINE h == Len(chain[n]) + 1
<1>1. TypeOK
    BY DEF Inv
<1>2. UNCHANGED <<chain, target, votes, proposals, newViews>>
    BY DEF EnterNewHeight, network
<1>3. h \in Heights /\ 0 \in Views
    BY <1>1 DEF TypeOK, Heights, Views
<1>4. /\ height' = [height EXCEPT ![n] = h]
      /\ view' = [view EXCEPT ![n] = 0]
      /\ proof' = [proof EXCEPT ![n] = NewProof(h, 0, {})]
      /\ proposal' = [proposal EXCEPT ![n] = NoProposal]
    BY DEF EnterNewHeight, NextHeight
<1>5. /\ state' = [state EXCEPT ![n] = "NEW_HEIGHT"]
      /\ status' = [status EXCEPT ![n] = "RUNNING"]
      /\ timer' = [timer EXCEPT ![n] = n \in Validators]
    BY DEF EnterNewHeight
<1>6. /\ validateVotes' \in [Correct -> VoteSets]
      /\ precommitVotes' \in [Correct -> VoteSets]
      /\ commitVotes' \in [Correct -> VoteSets]
      /\ Counted'
    BY <1>1, <1>2, <1>3, <1>4, ClearedCount DEF EnterNewHeight, NextHeight, Inv
<1> HIDE DEF h
<1>7. TypeOK'
    <2>1. NewProof(h, 0, {}) \in Proof
        BY <1>3 DEF NewProof, Proof
    <2>2. /\ height' \in [Correct -> Heights] /\ view' \in [Correct -> Views]
          /\ proof' \in [Correct -> Proof]
          /\ proposal' \in [Correct -> Proposal \cup {NoProposal}]
        BY <1>1, <1>3, <1>4, <2>1 DEF TypeOK
    <2>3. /\ state' \in [Correct -> States] /\ status' \in [Correct -> Statuses]
          /\ timer' \in [Correct -> BOOLEAN]
        BY <1>1, <1>5 DEF TypeOK, States, Statuses
    <2> QED
        BY <1>1, <1>2, <1>6, <2>2, <2>3 DEF TypeOK
<1>8. HonestProofs'
    <2>1. \A pf : HonestProof(pf) => HonestProof(pf)'
        BY <1>2, HonestProofStays
    <2>2. ASSUME NEW m \in Correct
          PROVE  /\ HonestProof(proof[m])'
                 /\ proof'[m].height = height'[m] /\ proof'[m].view = view'[m]
        <3>1. CASE m = n
            <4>1. proof'[m] = NewProof(h, 0, {}) /\ height'[m] = h /\ view'[m] = 0
                BY <1>1, <1>4, <3>1 DEF TypeOK
            <4> QED
                BY <4>1, BoundAssumption DEF HonestProof, NewProof
        <3>2. CASE m # n
            <4>1. /\ proof'[m] = proof[m] /\ height'[m] = height[m] /\ view'[m] = view[m]
                BY <1>1, <1>4, <3>2 DEF TypeOK
            <4>2. HonestProof(proof[m]) /\ proof[m].height = height[m] /\ proof[m].view = view[m]
                BY DEF Inv, HonestProofs
            <4> QED
                BY <1>2, <4>1, <4>2 DEF HonestProof, Signed
        <3> QED
            BY <3>1, <3>2
    <2> QED
        BY <1>2, <2>1, <2>2 DEF HonestProofs, Inv
<1>9. HeldProposals'
    <2>1. \A pf : HonestProof(pf) => HonestProof(pf)'
        BY <1>2, HonestProofStays
    <2> QED
        BY <1>1, <1>4, <2>1 DEF TypeOK, Inv, HeldProposals
<1>10. PreviousRejected' /\ PreCommitsBacked'
    <2>1. PreviousRejected'
        BY <1>1, <1>2, <1>4 DEF Inv, TypeOK, PreviousRejected, Rejectable
    <2>2. PreCommitsBacked'
        BY <1>2 DEF Inv, PreCommitsBacked, Approvable
    <2> QED
        BY <2>1, <2>2
<1>11. WellFormed' /\ ChainBounds' /\ ValidatedFits'
    BY <1>2 DEF Inv, WellFormed, ChainBounds, ValidatedFits
<1>12. AtHeight'
    BY <1>1, <1>2, <1>4, <1>5 DEF Inv, AtHeight, TypeOK, h
<1>13. VotesBehind'
    <2> SUFFICES ASSUME NEW v \in votes', v.signer \in Reliable
                 PROVE  /\ \/ v.height < height'[v.signer]
                           \/ v.height = height'[v.signer] /\ v.view <= view'[v.signer]
                        /\ /\ v.height = height'[v.signer] /\ v.view = view'[v.signer]
                           /\ v.type = "VALIDATE" /\ v.value
                           => /\ proposal'[v.signer] # NoProposal
                              /\ proposal'[v.signer].block = v.blockHash
        BY DEF VotesBehind
    <2>1. v \in votes /\ v \in Vote
        BY <1>1, <1>2 DEF TypeOK
    <2>2. v.signer \in Correct /\ v.height \in Heights
        BY <2>1, NodesAssumption DEF Reliable, Correct, Vote
    <2>3. CASE v.signer = n
        <3>1. v.height <= height[n] /\ height[n] < h
            <4>1. n \in Reliable
                BY <2>3
            <4>2. v.height < height[n] \/ v.height = height[n]
                BY <2>1, <2>3, <4>1 DEF Inv, VotesBehind
            <4>3. height[n] \in Nat /\ v.height \in Nat
                BY <1>1, <2>2 DEF TypeOK, Heights
            <4> QED
                BY <4>1, <4>2, <4>3 DEF h
        <3>2. height'[n] = h /\ h \in Nat /\ height[n] \in Nat /\ v.height \in Nat
            BY <1>1, <1>3, <1>4, <2>2 DEF TypeOK, Heights
        <3> QED
            BY <2>3, <3>1, <3>2
    <2>4. CASE v.signer # n
        BY <1>1, <1>4, <2>1, <2>2, <2>4 DEF Inv, VotesBehind, TypeOK
    <2> QED
        BY <2>3, <2>4
<1> QED
    BY <1>6, <1>7, <1>8, <1>9, <1>10, <1>11, <1>12, <1>13 DEF Inv

\* The end of enterPropose in view w, which is the view of n with its proof and
\* proposal, or a later one that was unlocked.
LEMMA ProposeKeeps ==
    ASSUME Inv, NEW n \in Correct, NEW w \in Views, NEW pf \in Proof,
           NEW pp \in Proposal \cup {NoProposal},
           status[n] = "RUNNING", state[n] # "FINALIZE", w <= MaxView,
           Propose(n, w, pf, pp),
           HonestProof(pf), pf.height = height[n], pf.view = w,
           pp # NoProposal =>
               /\ pp.proof.height = height[n] /\ pp.proof.view = w
               /\ pp.signer = Primary(height[n], w) /\ HonestProof(pp.proof),
           \/ /\ w = view[n] /\ UNCHANGED voteSets
              /\ proposal[n] # NoProposal => pp = proposal[n]
           \/ /\ w > view[n] /\ ClearVotes(n, height[n], w)
              /\ Rejectable(height[n], w - 1)
    PROVE  Inv'
<1>1. TypeOK /\ height[n] \in Heights /\ view[n] \in Views
    BY DEF Inv, TypeOK
<1>2. UNCHANGED <<chain, status, height, validBlocks, target, votes>>
    BY DEF Propose
<1>3. /\ view' = [view EXCEPT ![n] = w]
      /\ proof' = [proof EXCEPT ![n] = pf]
      /\ state' = [state EXCEPT ![n] = "PROPOSE"]
      /\ timer' = [timer EXCEPT ![n] = TRUE]
      /\ newViews' = newViews \cup {pf}
    BY DEF Propose
<1>4. PICK q \in Proposal \cup {NoProposal} :
          /\ proposal' = [proposal EXCEPT ![n] = q]
          /\ proposals' = proposals \/ (q # NoProposal /\ proposals' = proposals \cup {q})
          /\ pp # NoProposal => q = pp
          /\ q # NoProposal =>
                /\ q.proof.height = height[n] /\ q.proof.view = w
                /\ q.signer = Primary(height[n], w) /\ HonestProof(q.proof)
    <2>1. CASE proposal' = [proposal EXCEPT ![n] = pp] /\ UNCHANGED proposals
        BY <2>1
    <2>2. CASE /\ Primary(height[n], w) = n
               /\ \E p \in IF pp # NoProposal THEN {pp}
                           ELSE {[proof |-> pf, block |-> b, signer |-> n] :
                                   b \in {c \in Blocks : Extends(chain[n], c)
                                                        /\ Header[c].coinbase = n}} :
                     /\ proposal' = [proposal EXCEPT ![n] = p]
                     /\ proposals' = proposals \cup {p}
        <3>1. n \in Nodes
            BY DEF Correct
        <3>2. CASE pp # NoProposal
            BY <2>2, <3>2
        <3>3. CASE pp = NoProposal
            <4>1. PICK b \in Blocks :
                      LET p == [proof |-> pf, block |-> b, signer |-> n] IN
                      /\ proposal' = [proposal EXCEPT ![n] = p]
                      /\ proposals' = proposals \cup {p}
                BY <2>2, <3>3
            <4> DEFINE p == [proof |-> pf, block |-> b, signer |-> n]
            <4>2. p \in Proposal
                BY <3>1 DEF Proposal
            <4>3. p # NoProposal
                BY <4>2, NoProposalAssumption
            <4> QED
                <5>1. /\ p.proof.height = height[n] /\ p.proof.view = w
                      /\ p.signer = Primary(height[n], w) /\ HonestProof(p.proof)
                    BY <2>2
                <5>2. /\ proposal' = [proposal EXCEPT ![n] = p]
                      /\ proposals' = proposals \cup {p}
                    BY <4>1
                <5> HIDE DEF p
                <5> QED
                    BY <3>3, <4>2, <4>3, <5>1, <5>2
        <3> QED
            BY <3>2, <3>3
    <2> QED
        BY <2>1, <2>2 DEF Propose
<1>5. /\ validateVotes' \in [Correct -> VoteSets]
      /\ precommitVotes' \in [Correct -> VoteSets]
      /\ commitVotes' \in [Correct -> VoteSets]
      /\ Counted'
    <2>1. CASE w = view[n] /\ UNCHANGED voteSets
        <3>1. view' = view
            BY <1>1, <1>3, <2>1 DEF TypeOK
        <3> QED
            BY <1>1, <1>2, <2>1, <3>1 DEF Inv, TypeOK, voteSets, Counted, CountedIn, Signed
    <2>2. CASE ClearVotes(n, height[n], w)
        <3>1. height' = [height EXCEPT ![n] = height[n]]
            BY <1>1, <1>2 DEF TypeOK
        <3> QED
            BY <1>1, <1>2, <1>3, <2>2, <3>1, ClearedCount DEF Inv
    <2> QED
        BY <2>1, <2>2
<1>6. TypeOK'
    <2>1. /\ view' \in [Correct -> Views] /\ proof' \in [Correct -> Proof]
          /\ state' \in [Correct -> States] /\ timer' \in [Correct -> BOOLEAN]
          /\ newViews' \subseteq Proof
        BY <1>1, <1>3 DEF TypeOK, States
    <2>2. /\ proposal' \in [Correct -> Proposal \cup {NoProposal}]
          /\ proposals' \subseteq Proposal
        BY <1>1, <1>4 DEF TypeOK
    <2> QED
        BY <1>1, <1>2, <1>5, <2>1, <2>2 DEF TypeOK
<1>7. \A x : HonestProof(x)' <=> HonestProof(x)
    BY <1>2 DEF HonestProof, Signed
<1>8. HonestProofs'
    <2>1. \A x \in newViews' : HonestProof(x)
        BY <1>3 DEF Inv, HonestProofs
    <2>2. \A p \in proposals' : HonestProof(p.proof)
        BY <1>4 DEF Inv, HonestProofs
    <2>3. \A m \in Correct : /\ HonestProof(proof'[m])
                             /\ proof'[m].height = height'[m] /\ proof'[m].view = view'[m]
        BY <1>1, <1>2, <1>3 DEF TypeOK, Inv, HonestProofs
    <2> QED
        BY <1>2, <2>1, <2>2, <2>3 DEF HonestProofs, HonestProof, Signed
<1>9. HeldProposals'
    <2>1. \A m \in Correct : proposal'[m] # NoProposal =>
              /\ proposal'[m].proof.height = height'[m]
              /\ proposal'[m].proof.view = view'[m]
              /\ proposal'[m].signer = Primary(height'[m], view'[m])
              /\ HonestProof(proposal'[m].proof)
        BY <1>1, <1>2, <1>3, <1>4 DEF TypeOK, Inv, HeldProposals
    <2> QED
        BY <1>2, <2>1 DEF HeldProposals, HonestProof, Signed
<1>10. PreviousRejected' /\ PreCommitsBacked'
    <2>1. PreviousRejected'
        BY <1>1, <1>2, <1>3 DEF Inv, TypeOK, PreviousRejected, Rejectable
    <2>2. PreCommitsBacked'
        BY <1>2 DEF Inv, PreCommitsBacked, Approvable
    <2> QED
        BY <2>1, <2>2
<1>11. WellFormed' /\ ChainBounds' /\ ValidatedFits'
    BY <1>2 DEF Inv, WellFormed, ChainBounds, ValidatedFits
<1>12. AtHeight'
    BY <1>1, <1>2, <1>3 DEF Inv, AtHeight, TypeOK
<1>13. VotesBehind'
    <2> SUFFICES ASSUME NEW v \in votes, v.signer \in Reliable
                 PROVE  /\ \/ v.height < height[v.signer]
                           \/ v.height = height[v.signer] /\ v.view <= view'[v.signer]
                        /\ /\ v.height = height[v.signer] /\ v.view = view'[v.signer]
                           /\ v.type = "VALIDATE" /\ v.value
                           => /\ proposal'[v.signer] # NoProposal
                              /\ proposal'[v.signer].block = v.blockHash
        BY <1>2 DEF VotesBehind
    <2>1. v \in Vote /\ v.signer \in Correct /\ v.view \in Nat
        BY <1>1, NodesAssumption DEF TypeOK, Reliable, Correct, Vote, Views
    <2>2. /\ \/ v.height < height[v.signer]
             \/ v.height = height[v.signer] /\ v.view <= view[v.signer]
          /\ /\ v.height = height[v.signer] /\ v.view = view[v.signer]
             /\ v.type = "VALIDATE" /\ v.value
             => /\ proposal[v.signer] # NoProposal
                /\ proposal[v.signer].block = v.blockHash
        BY DEF Inv, VotesBehind
    <2>3. CASE v.signer # n
        BY <1>1, <1>3, <1>4, <2>1, <2>2, <2>3 DEF TypeOK
    <2>4. CASE v.signer = n /\ w = view[n]
        BY <1>1, <1>3, <1>4, <2>1, <2>2, <2>4 DEF TypeOK
    <2>5. CASE v.signer = n /\ w > view[n]
        <3>1. view'[n] = w /\ view[n] \in Nat /\ w \in Nat
            BY <1>1, <1>3 DEF TypeOK, Views
        <3>2. height[n] \in Nat /\ v.height \in Nat
            BY <1>1, <2>1 DEF Vote, Heights
        <3> QED
            BY <2>1, <2>2, <2>5, <3>1, <3>2
    <2> QED
        BY <2>3, <2>4, <2>5
<1> QED
    BY <1>5, <1>6, <1>8, <1>9, <1>10, <1>11, <1>12, <1>13 DEF Inv

\* A vote set of n counts one more vote of its type, height and view.
LEMMA AddedCounts ==
    ASSUME TypeOK, Counted, NEW n \in Correct,
           NEW vs \in VoteSets, NEW t \in VoteType, CountedIn(vs, t, n),
           NEW v \in Vote, v.height = height[n], v.view = view[n],
           v \in votes' \cup FaultyVotes(height[n], view[n]), votes \subseteq votes',
           NEW vs2, vs2 = vs \/ vs2 = AddVote(vs, v)
    PROVE  /\ vs2 \in VoteSets
           /\ vs2.type = t /\ vs2.height = height[n] /\ vs2.view = view[n]
           /\ \A u \in vs2.votes :
                 /\ u \in votes' \cup FaultyVotes(height[n], view[n])
                 /\ u.type = t /\ u.height = height[n] /\ u.view = view[n]
                 /\ u.signer \in Validators
<1>1. AddVote(vs, v) \in VoteSets
    BY AddVoteType
<1>2. /\ AddVote(vs, v).type = vs.type /\ AddVote(vs, v).height = vs.height
      /\ AddVote(vs, v).view = vs.view
      /\ AddVote(vs, v).votes = vs.votes \cup (IF Accepts(vs, v) THEN {v} ELSE {})
    BY AddVoteOnlyAdds
<1>3. /\ vs.type = t /\ vs.height = height[n] /\ vs.view = view[n]
      /\ \A u \in vs.votes :
            /\ u \in votes' \cup FaultyVotes(height[n], view[n])
            /\ u.type = t /\ u.height = height[n] /\ u.view = view[n]
            /\ u.signer \in Validators
    BY DEF CountedIn, Signed
<1>4. CASE vs2 = vs
    BY <1>3, <1>4
<1>5. CASE vs2 = AddVote(vs, v)
    <2>1. \A u \in vs2.votes : u \in vs.votes \/ (u = v /\ Accepts(vs, v))
        BY <1>2, <1>5
    <2>2. Accepts(vs, v) => /\ v.type = t /\ v.height = height[n] /\ v.view = view[n]
                            /\ v.signer \in Validators
        BY <1>3 DEF Accepts
    <2>3. vs2 \in VoteSets /\ vs2.type = t /\ vs2.height = height[n] /\ vs2.view = view[n]
        BY <1>1, <1>2, <1>3, <1>5
    <2> QED
        BY <1>3, <2>1, <2>2, <2>3
<1> QED
    BY <1>4, <1>5

\* n counts one more vote, its own or a received one, in one of its sets.
LEMMA CountKeeps ==
    ASSUME TypeOK, Counted, NEW n \in Correct,
           NEW v \in Vote, v.height = height[n], v.view = view[n],
           v \in votes' \cup FaultyVotes(height[n], view[n]), votes \subseteq votes',
           UNCHANGED <<height, view>>,
           \/ validateVotes' = [validateVotes EXCEPT ![n] = AddVote(@, v)]
           \/ UNCHANGED validateVotes,
           \/ precommitVotes' = [precommitVotes EXCEPT ![n] = AddVote(@, v)]
           \/ UNCHANGED precommitVotes,
           \/ commitVotes' = [commitVotes EXCEPT ![n] = AddVote(@, v)]
           \/ UNCHANGED commitVotes
    PROVE  /\ validateVotes' \in [Correct -> VoteSets]
           /\ precommitVotes' \in [Correct -> VoteSets]
           /\ commitVotes' \in [Correct -> VoteSets]
           /\ Counted'
<1>1. ASSUME NEW m \in Correct, NEW t \in VoteType, NEW vs \in VoteSets, CountedIn(vs, t, m),
             NEW vs2, vs2 = vs \/ (m = n /\ vs2 = AddVote(vs, v))
      PROVE  /\ vs2 \in VoteSets
             /\ vs2.type = t /\ vs2.height = height'[m] /\ vs2.view = view'[m]
             /\ \A u \in vs2.votes :
                   /\ u \in votes' \cup FaultyVotes(height'[m], view'[m])
                   /\ u.type = t /\ u.height = height'[m] /\ u.view = view'[m]
                   /\ u.signer \in Validators
    <2>1. CASE vs2 = vs
        BY <1>1, <2>1 DEF CountedIn, Signed
    <2>2. CASE m = n /\ vs2 = AddVote(vs, v)
        BY <1>1, <2>2, AddedCounts
    <2> QED
        BY <1>1, <2>1, <2>2
<1>2. ASSUME NEW m \in Correct
      PROVE  /\ validateVotes'[m] = validateVotes[m]
                  \/ (m = n /\ validateVotes'[m] = AddVote(validateVotes[m], v))
             /\ precommitVotes'[m] = precommitVotes[m]
                  \/ (m = n /\ precommitVotes'[m] = AddVote(precommitVotes[m], v))
             /\ commitVotes'[m] = commitVotes[m]
                  \/ (m = n /\ commitVotes'[m] = AddVote(commitVotes[m], v))
    BY DEF TypeOK
<1>3. ASSUME NEW m \in Correct
      PROVE  /\ validateVotes'[m] \in VoteSets /\ CountedIn(validateVotes[m], "VALIDATE", m)'
             /\ precommitVotes'[m] \in VoteSets /\ CountedIn(precommitVotes[m], "PRECOMMIT", m)'
             /\ commitVotes'[m] \in VoteSets /\ CountedIn(commitVotes[m], "COMMIT", m)'
    <2>1. /\ CountedIn(validateVotes[m], "VALIDATE", m) /\ validateVotes[m] \in VoteSets
          /\ CountedIn(precommitVotes[m], "PRECOMMIT", m) /\ precommitVotes[m] \in VoteSets
          /\ CountedIn(commitVotes[m], "COMMIT", m) /\ commitVotes[m] \in VoteSets
        BY DEF TypeOK, Counted
    <2>2. {"VALIDATE", "PRECOMMIT", "COMMIT"} \subseteq VoteType
        BY DEF VoteType
    <2>3. validateVotes'[m] \in VoteSets /\ CountedIn(validateVotes[m], "VALIDATE", m)'
        BY <1>1, <1>2, <2>1, <2>2 DEF CountedIn, Signed
    <2>4. precommitVotes'[m] \in VoteSets /\ CountedIn(precommitVotes[m], "PRECOMMIT", m)'
        BY <1>1, <1>2, <2>1, <2>2 DEF CountedIn, Signed
    <2>5. commitVotes'[m] \in VoteSets /\ CountedIn(commitVotes[m], "COMMIT", m)'
        BY <1>1, <1>2, <2>1, <2>2 DEF CountedIn, Signed
    <2> QED
        BY <2>3, <2>4, <2>5
<1>4. /\ validateVotes' \in [Correct -> VoteSets]
      /\ precommitVotes' \in [Correct -> VoteSets]
      /\ commitVotes' \in [Correct -> VoteSets]
    BY <1>3 DEF TypeOK
<1> QED
    BY <1>3, <1>4 DEF Counted

\* n enters a voting phase and casts v there (enterValidate, enterPreCommit,
\* enterCommit).
LEMMA CastKeeps ==
    ASSUME Inv, NEW n \in Correct, status[n] = "RUNNING", state[n] # "FINALIZE",
           NEW s \in States, s # "FINALIZE", EnterPhase(n, s),
           NEW v \in Vote, v.signer = n, v.height = height[n], v.view = view[n], Broadcast(v),
           validBlocks' \in [Correct -> SUBSET Blocks],
           \/ validateVotes' = [validateVotes EXCEPT ![n] = AddVote(@, v)]
           \/ UNCHANGED validateVotes,
           \/ precommitVotes' = [precommitVotes EXCEPT ![n] = AddVote(@, v)]
           \/ UNCHANGED precommitVotes,
           \/ commitVotes' = [commitVotes EXCEPT ![n] = AddVote(@, v)]
           \/ UNCHANGED commitVotes,
           IF v.value THEN v.blockHash \in Blocks ELSE v.blockHash = EmptyHash,
           v.type = "VALIDATE" /\ v.value =>
               /\ proposal[n] # NoProposal /\ proposal[n].block = v.blockHash
               /\ Header[v.blockHash].number = height[n],
           v.type = "PRECOMMIT" /\ v.value =>
               Approvable("VALIDATE", height[n], view[n], v.blockHash)
    PROVE  Inv'
<1>1. TypeOK
    BY DEF Inv
<1>2. /\ UNCHANGED <<chain, status, height, view, proof, proposal, target>>
      /\ UNCHANGED <<proposals, newViews>>
      /\ votes' = votes \cup {v}
      /\ state' = [state EXCEPT ![n] = s]
      /\ timer' = [timer EXCEPT ![n] = TRUE]
    BY DEF EnterPhase, Broadcast, position
<1>3. votes \subseteq votes'
    BY <1>2
<1>4. /\ validateVotes' \in [Correct -> VoteSets]
      /\ precommitVotes' \in [Correct -> VoteSets]
      /\ commitVotes' \in [Correct -> VoteSets]
      /\ Counted'
    BY <1>1, <1>2, <1>3, CountKeeps DEF Inv
<1>5. TypeOK'
    BY <1>1, <1>2, <1>4 DEF TypeOK
<1>6. HonestProofs'
    <2>1. ASSUME NEW pf, HonestProof(pf)
          PROVE  HonestProof(pf)'
        BY <1>3, <2>1, HonestProofStays
    <2>2. /\ \A pf \in newViews' : HonestProof(pf)'
          /\ \A p \in proposals' : HonestProof(p.proof)'
        BY <1>2, <2>1 DEF Inv, HonestProofs
    <2>3. ASSUME NEW m \in Correct
          PROVE  /\ HonestProof(proof[m])'
                 /\ proof'[m].height = height'[m] /\ proof'[m].view = view'[m]
        <3>1. /\ HonestProof(proof[m])
              /\ proof[m].height = height[m] /\ proof[m].view = view[m]
            BY DEF Inv, HonestProofs
        <3> QED
            BY <1>2, <1>3, <3>1 DEF HonestProof, Signed
    <2> QED
        BY <2>2, <2>3 DEF HonestProofs
<1>7. HeldProposals'
    <2>1. ASSUME NEW m \in Correct, proposal[m] # NoProposal
          PROVE  HonestProof(proposal[m].proof)'
        <3>1. HonestProof(proposal[m].proof)
            BY <2>1 DEF Inv, HeldProposals
        <3> QED
            BY <1>2, <1>3, <3>1 DEF HonestProof, Signed
    <2> QED
        BY <1>2, <2>1 DEF Inv, HeldProposals
<1>8. WellFormed' /\ ChainBounds'
    BY <1>2 DEF Inv, WellFormed, ChainBounds
<1>9. PreviousRejected'
    <2>1. \A h, w : Rejectable(h, w) => Rejectable(h, w)'
        BY <1>3, Monotonic
    <2>2. height' = height /\ view' = view
        BY <1>2
    <2>3. ASSUME NEW m \in Correct, view[m] > 0
          PROVE  Rejectable(height[m], view[m] - 1)'
        <3>1. PICK h : h = height[m]
            OBVIOUS
        <3>2. PICK w : w = view[m] - 1
            OBVIOUS
        <3>3. Rejectable(h, w)
            BY <2>3, <3>1, <3>2 DEF Inv, PreviousRejected
        <3>4. Rejectable(h, w)'
            BY <2>1, <3>3
        <3>5. height'[m] = h /\ view'[m] - 1 = w
            BY ONLY <2>2, <3>1, <3>2
        <3> QED
            BY ONLY <3>4, <3>5 DEF Rejectable
    <2>4. \A m \in Correct : view'[m] > 0 => view[m] > 0
        BY ONLY <2>2
    <2> QED
        BY <2>3, <2>4 DEF PreviousRejected
<1>10. AtHeight'
    BY <1>1, <1>2 DEF Inv, AtHeight, TypeOK
<1>11. VotesBehind'
    <2> SUFFICES ASSUME NEW u \in votes', u.signer \in Reliable
                 PROVE  /\ \/ u.height < height[u.signer]
                           \/ u.height = height[u.signer] /\ u.view <= view[u.signer]
                        /\ /\ u.height = height[u.signer] /\ u.view = view[u.signer]
                           /\ u.type = "VALIDATE" /\ u.value
                           => /\ proposal[u.signer] # NoProposal
                              /\ proposal[u.signer].block = u.blockHash
        BY <1>2 DEF VotesBehind
    <2>1. CASE u \in votes
        BY <2>1 DEF Inv, VotesBehind
    <2>2. CASE u = v
        <3>1. view[n] \in Nat
            BY <1>1 DEF TypeOK, Views
        <3> QED
            BY <2>2, <3>1
    <2> QED
        BY <1>2, <2>1, <2>2
<1>12. ValidatedFits'
    BY <1>2 DEF Inv, ValidatedFits
<1>13. PreCommitsBacked'
    <2>1. \A t, h, w, b : Approvable(t, h, w, b) => Approvable(t, h, w, b)'
        BY <1>3, Monotonic
    <2>2. \A u \in votes' : u.signer \in Reliable /\ u.type = "PRECOMMIT" /\ u.value
              => Approvable("VALIDATE", u.height, u.view, u.blockHash)
        BY <1>2 DEF Inv, PreCommitsBacked
    <2> QED
        BY <2>1, <2>2 DEF PreCommitsBacked
<1> QED
    BY <1>4, <1>5, <1>6, <1>7, <1>8, <1>9, <1>10, <1>11, <1>12, <1>13 DEF Inv

\* n counts a vote it received (onVote).
LEMMA ReceiveKeeps ==
    ASSUME Inv, NEW n \in Correct,
           NEW v \in Signed(height[n], view[n]), v.height = height[n], v.view = view[n],
           UNCHANGED <<chain, status, state, position, validBlocks, timer, target, network>>,
           \/ validateVotes' = [validateVotes EXCEPT ![n] = AddVote(@, v)]
           \/ UNCHANGED validateVotes,
           \/ precommitVotes' = [precommitVotes EXCEPT ![n] = AddVote(@, v)]
           \/ UNCHANGED precommitVotes,
           \/ commitVotes' = [commitVotes EXCEPT ![n] = AddVote(@, v)]
           \/ UNCHANGED commitVotes
    PROVE  Inv'
<1>1. TypeOK /\ height[n] \in Heights /\ view[n] \in Views
    BY DEF Inv, TypeOK
<1>2. UNCHANGED <<chain, status, state, height, view, proof, proposal, validBlocks, timer,
                  target, votes, proposals, newViews>>
    BY DEF position, network
<1>3. v \in Vote
    BY <1>1, SignedVotes
<1>4. /\ validateVotes' \in [Correct -> VoteSets]
      /\ precommitVotes' \in [Correct -> VoteSets]
      /\ commitVotes' \in [Correct -> VoteSets]
      /\ Counted'
    BY <1>1, <1>2, <1>3, CountKeeps DEF Inv, Signed
<1>5. TypeOK'
    BY <1>1, <1>2, <1>4 DEF TypeOK
<1>6. HonestProofs' /\ HeldProposals' /\ PreviousRejected' /\ PreCommitsBacked'
    BY <1>2 DEF Inv, HonestProofs, HeldProposals, HonestProof, Signed, PreviousRejected,
                Rejectable, PreCommitsBacked, Approvable
<1>7. WellFormed' /\ ChainBounds' /\ VotesBehind' /\ ValidatedFits' /\ AtHeight'
    BY <1>2 DEF Inv, WellFormed, ChainBounds, VotesBehind, ValidatedFits, AtHeight
<1> QED
    BY <1>4, <1>5, <1>6, <1>7 DEF Inv

\* What is approved in PRE_COMMIT is a block of the height that is voted on: the
\* exception of applyBlock is never thrown.
LEMMA ApprovedFits ==
    ASSUME Inv, NEW h \in Heights, NEW w \in Views, NEW b \in Blocks,
           Approvable("PRECOMMIT", h, w, b)
    PROVE  Header[b].number = h
<1>1. ASSUME NEW t, Approvable(t, h, w, b)
      PROVE  \E s \in Reliable : NewApprove(t, h, w, b, s) \in votes
    BY <1>1, QuorumHasReliable DEF Approvable
<1>2. PICK s \in Reliable : NewApprove("PRECOMMIT", h, w, b, s) \in votes
    BY <1>1
<1>3. Approvable("VALIDATE", h, w, b)
    BY <1>2 DEF Inv, PreCommitsBacked, NewApprove
<1>4. PICK r \in Reliable : NewApprove("VALIDATE", h, w, b, r) \in votes
    BY <1>1, <1>3
<1> QED
    BY <1>4 DEF Inv, ValidatedFits, NewApprove

\* n adds a block to its chain.
LEMMA AppendKeeps ==
    ASSUME Inv, NEW n \in Correct, NEW fb \in FinalBlock,
           Len(chain[n]) + 1 <= MaxHeight, fb.view <= MaxView,
           chain' = [chain EXCEPT ![n] = Append(@, fb)],
           UNCHANGED <<status, position, validBlocks, target, network>>,
           state' \in [Correct -> States], timer' \in [Correct -> BOOLEAN],
           validateVotes' \in [Correct -> VoteSets],
           precommitVotes' \in [Correct -> VoteSets],
           commitVotes' \in [Correct -> VoteSets],
           Counted', AtHeight'
    PROVE  Inv'
<1>1. TypeOK
    BY DEF Inv
<1>2. UNCHANGED <<status, height, view, proof, proposal, validBlocks, target, votes,
                  proposals, newViews>>
    BY DEF position, network
<1>3. chain[n] \in Seq(FinalBlock)
    BY <1>1 DEF TypeOK
<1>4. /\ Append(chain[n], fb) \in Seq(FinalBlock)
      /\ Len(Append(chain[n], fb)) = Len(chain[n]) + 1
      /\ \A h \in 1 .. Len(chain[n]) : Append(chain[n], fb)[h] = chain[n][h]
      /\ Append(chain[n], fb)[Len(chain[n]) + 1] = fb
    BY <1>3, AppendProperties
<1>5. TypeOK'
    BY <1>1, <1>2, <1>4 DEF TypeOK
<1>6. ChainBounds'
    <2> SUFFICES ASSUME NEW m \in Correct
                 PROVE  /\ Len(chain'[m]) <= MaxHeight
                        /\ \A h \in 1 .. Len(chain'[m]) : chain'[m][h].view <= MaxView
        BY DEF ChainBounds
    <2>1. CASE m # n
        BY <1>1, <2>1 DEF Inv, ChainBounds, TypeOK
    <2>2. CASE m = n
        <3>1. chain'[n] = Append(chain[n], fb)
            BY <1>1 DEF TypeOK
        <3>2. Len(chain[n]) \in Nat
            BY <1>3
        <3>3. \A h \in 1 .. Len(chain[n]) : chain[n][h].view <= MaxView
            BY DEF Inv, ChainBounds
        <3>4. \A h \in 1 .. Len(chain[n]) + 1 : h \in 1 .. Len(chain[n]) \/ h = Len(chain[n]) + 1
            BY <3>2
        <3> QED
            BY <1>4, <2>2, <3>1, <3>3, <3>4
    <2> QED
        BY <2>1, <2>2
<1>7. HonestProofs' /\ HeldProposals' /\ PreviousRejected' /\ PreCommitsBacked'
    BY <1>2 DEF Inv, HonestProofs, HeldProposals, HonestProof, Signed, PreviousRejected,
                Rejectable, PreCommitsBacked, Approvable
<1>8. WellFormed' /\ VotesBehind' /\ ValidatedFits'
    BY <1>2 DEF Inv, WellFormed, VotesBehind, ValidatedFits
<1> QED
    BY <1>5, <1>6, <1>7, <1>8 DEF Inv

-----------------------------------------------------------------------------
\* n enters FINALIZE with the COMMIT votes cvs: it adds the approved block, or
\* syncs if it has not cached it.
LEMMA EnterFinalizeStep ==
    ASSUME Inv, NEW n \in Correct, Active(n), state[n] # "FINALIZE",
           NEW cvs, EnterFinalize(n, cvs),
           \/ cvs = commitVotes[n]
           \/ \E v \in Signed(height[n], view[n]) :
                 /\ v.height = height[n] /\ v.view = view[n]
                 /\ cvs = AddVote(commitVotes[n], v)
    PROVE  Inv' /\ Effect
<1>1. TypeOK /\ Counted
    BY DEF Inv
<1>2. /\ height[n] \in Heights /\ view[n] \in Views /\ height[n] \in Nat
      /\ status[n] = "RUNNING" /\ height[n] <= MaxHeight
    BY <1>1 DEF TypeOK, Active, Heights
<1>3. state' = [state EXCEPT ![n] = "FINALIZE"] /\ "FINALIZE" \in States
    BY DEF EnterFinalize, States
<1>4. CASE StartSync(n, height[n] + 1)
    <2>1. height[n] + 1 \in Heights /\ height[n] < height[n] + 1 /\ height[n] + 1 <= MaxHeight + 1
        BY <1>2, BoundAssumption DEF Heights
    <2>2. Inv'
        BY <1>3, <1>4, <2>1, StartSyncKeeps
    <2>3. Quiet
        BY <1>4 DEF StartSync, Quiet, network
    <2> QED
        BY <2>2, <2>3 DEF Effect
<1>5. ASSUME NEW b \in AnyApproved(precommitVotes[n]) \cap validBlocks[n], ApplyBlock(n, b),
             timer' = [timer EXCEPT ![n] = TRUE],
             commitVotes' = [commitVotes EXCEPT ![n] = cvs],
             UNCHANGED <<status, position, validateVotes, precommitVotes,
                         validBlocks, target, network>>
      PROVE  Inv' /\ Effect
    <2> DEFINE fb == [block |-> b, view |-> view[n], votes |-> GetApprovals(precommitVotes[n], b)]
    <2>1. b \in Blocks /\ Approvable("PRECOMMIT", height[n], view[n], b)
        BY <1>1, CountedApproval DEF AnyApproved
    <2>2. Header[b].number = height[n]
        BY <1>2, <2>1, ApprovedFits
    <2>3. height[n] = Len(chain[n]) + 1
        BY <1>2 DEF Inv, AtHeight
    <2>4. fb \in FinalBlock
        <3>1. GetApprovals(precommitVotes[n], b) \subseteq Validators
            BY <1>1 DEF GetApprovals, Counted, CountedIn
        <3> QED
            BY <1>2, <2>1, <3>1 DEF FinalBlock
    <2>5. chain' = [chain EXCEPT ![n] = Append(@, fb)]
        BY <1>5, <2>2, <2>3 DEF ApplyBlock
    <2>6. fb.view <= MaxView
        BY DEF Inv, HonestProofs, HonestProof
    <2>7. /\ validateVotes' \in [Correct -> VoteSets]
          /\ precommitVotes' \in [Correct -> VoteSets]
          /\ commitVotes' \in [Correct -> VoteSets]
          /\ Counted'
        <3>1. UNCHANGED <<height, view, votes, validateVotes, precommitVotes>>
            BY <1>5 DEF position, network
        <3>2. CASE cvs = commitVotes[n]
            <4>1. commitVotes' = commitVotes
                BY <1>1, <1>5, <3>2 DEF TypeOK
            <4> QED
                BY <1>1, <3>1, <4>1 DEF TypeOK, Counted, CountedIn, Signed
        <3>3. ASSUME NEW v \in Signed(height[n], view[n]),
                     v.height = height[n], v.view = view[n],
                     cvs = AddVote(commitVotes[n], v)
              PROVE  /\ validateVotes' \in [Correct -> VoteSets]
                     /\ precommitVotes' \in [Correct -> VoteSets]
                     /\ commitVotes' \in [Correct -> VoteSets]
                     /\ Counted'
            <4>1. v \in Vote
                BY <1>1, <1>2, SignedVotes
            <4>2. v \in votes' \cup FaultyVotes(height[n], view[n])
                BY <3>1 DEF Signed
            <4>3. commitVotes' = [commitVotes EXCEPT ![n] = AddVote(@, v)]
                BY <1>5, <3>3
            <4> QED
                BY <1>1, <3>1, <3>3, <4>1, <4>2, <4>3, CountKeeps
        <3> QED
            BY <3>2, <3>3
    <2>8. state' \in [Correct -> States] /\ timer' \in [Correct -> BOOLEAN]
        BY <1>1, <1>3, <1>5 DEF TypeOK
    <2>9. AtHeight'
        <3> SUFFICES ASSUME NEW m \in Correct
                     PROVE  /\ status'[m] = "RUNNING" =>
                               height'[m] = IF state'[m] = "FINALIZE" THEN Len(chain'[m])
                                            ELSE Len(chain'[m]) + 1
                            /\ status'[m] = "SYNCING" =>
                               height'[m] < target'[m] /\ target'[m] <= MaxHeight + 1
            BY DEF AtHeight
        <3>1. UNCHANGED <<height, status, target>>
            BY <1>5 DEF position
        <3>2. CASE m # n
            BY <1>1, <1>3, <2>5, <3>1, <3>2 DEF TypeOK, Inv, AtHeight
        <3>3. CASE m = n
            <4>1. state'[n] = "FINALIZE" /\ chain'[n] = Append(chain[n], fb)
                BY <1>1, <1>3, <2>5 DEF TypeOK
            <4>2. Len(chain'[n]) = Len(chain[n]) + 1
                BY <1>1, <2>4, <4>1, AppendProperties DEF TypeOK
            <4> QED
                BY <1>2, <2>3, <3>1, <3>3, <4>1, <4>2
        <3> QED
            BY <3>2, <3>3
    <2>10. Len(chain[n]) + 1 <= MaxHeight
        BY <1>2, <2>3
    <2>11. Inv'
        BY <1>5, <2>4, <2>5, <2>6, <2>7, <2>8, <2>9, <2>10, AppendKeeps
    <2>12. Appends
        BY <1>5, <2>1, <2>3, <2>4, <2>5, <2>6, <2>10 DEF Appends, network
    <2> QED
        BY <2>11, <2>12 DEF Effect
<1> QED
    BY <1>4, <1>5 DEF EnterFinalize

LEMMA EnterProposeStep ==
    ASSUME Inv, NEW n \in Correct, Active(n), state[n] # "FINALIZE", EnterPropose(n)
    PROVE  Inv' /\ Effect
<1>1. TypeOK /\ Counted /\ WellFormed
    BY DEF Inv
<1>2. /\ height[n] \in Heights /\ view[n] \in Views /\ view[n] \in Nat
      /\ status[n] = "RUNNING" /\ proof[n] \in Proof
      /\ proposal[n] \in Proposal \cup {NoProposal}
    BY <1>1 DEF TypeOK, Active, Views
<1>3. CASE /\ IsRejected(precommitVotes[n])
           /\ view[n] < MaxView
           /\ Propose(n, view[n] + 1,
                      NewProof(height[n], view[n] + 1, GetRejections(precommitVotes[n])),
                      NoProposal)
           /\ ClearVotes(n, height[n], view[n] + 1)
    <2> DEFINE w == view[n] + 1
               pf == NewProof(height[n], w, GetRejections(precommitVotes[n]))
    <2>1. w \in Views /\ w > view[n] /\ w <= MaxView /\ w - 1 = view[n] /\ w > 0 /\ w # 0
        BY <1>2, <1>3, BoundAssumption DEF Views
    <2>2. GetRejections(precommitVotes[n]) \subseteq Signed(height[n], view[n])
        BY <1>1 DEF GetRejections, Counted, CountedIn
    <2>3. pf \in Proof
        BY <1>1, <1>2, <2>1, <2>2, SignedVotes DEF Proof, NewProof
    <2>4. HonestProof(pf) /\ pf.height = height[n] /\ pf.view = w
        BY <2>1, <2>2 DEF HonestProof, NewProof
    <2>5. Rejectable(height[n], w - 1)
        BY <1>1, <1>3, <2>1, CountedRejection
    <2>6. Propose(n, w, pf, NoProposal) /\ ClearVotes(n, height[n], w)
        BY <1>3
    <2> HIDE DEF w, pf
    <2>7. Inv'
        BY <1>2, <2>1, <2>3, <2>4, <2>5, <2>6, ProposeKeeps
    <2>8. Quiet
        BY <2>6 DEF Propose, Quiet
    <2> QED
        BY <2>7, <2>8 DEF Effect
<1>4. CASE Propose(n, view[n], proof[n], proposal[n]) /\ UNCHANGED voteSets
    <2>1. /\ HonestProof(proof[n]) /\ proof[n].height = height[n] /\ proof[n].view = view[n]
          /\ view[n] <= MaxView
        BY DEF Inv, HonestProofs, HonestProof
    <2>2. proposal[n] # NoProposal =>
              /\ proposal[n].proof.height = height[n] /\ proposal[n].proof.view = view[n]
              /\ proposal[n].signer = Primary(height[n], view[n])
              /\ HonestProof(proposal[n].proof)
        BY DEF Inv, HeldProposals
    <2>3. Inv'
        BY <1>2, <1>4, <2>1, <2>2, ProposeKeeps
    <2>4. Quiet
        BY <1>4 DEF Propose, Quiet
    <2> QED
        BY <2>3, <2>4 DEF Effect
<1> QED
    BY <1>3, <1>4 DEF EnterPropose

\* A proof-of-unlock in circulation, of a later view of n's height, moves n there.
LEMMA JumpToViewStep ==
    ASSUME Inv, NEW n \in Correct, Active(n), state[n] # "FINALIZE",
           NEW pf \in Proof, pf.height = height[n], pf.view > view[n],
           HonestProof(pf), Unlocks(pf),
           NEW pp \in Proposal \cup {NoProposal},
           pp # NoProposal => pp.proof = pf /\ pp.signer = Primary(height[n], pf.view),
           JumpToView(n, pf.view, pf, pp)
    PROVE  Inv' /\ Effect
<1>1. TypeOK /\ WellFormed
    BY DEF Inv
<1>2. /\ height[n] \in Heights /\ view[n] \in Nat /\ status[n] = "RUNNING"
      /\ pf.view \in Views /\ pf.view \in Nat
    BY <1>1 DEF TypeOK, Active, Views, Proof
<1>3. pf.view <= MaxView /\ pf.view > 0
    BY <1>2 DEF HonestProof
<1>4. Rejectable(height[n], pf.view - 1)
    BY <1>1, <1>3, UnlockProves
<1>5. Propose(n, pf.view, pf, pp) /\ ClearVotes(n, height[n], pf.view)
    BY DEF JumpToView
<1>6. Inv'
    BY <1>2, <1>3, <1>4, <1>5, ProposeKeeps
<1>7. Quiet
    BY <1>5 DEF Propose, Quiet
<1> QED
    BY <1>6, <1>7 DEF Effect

LEMMA EnterValidateStep ==
    ASSUME Inv, NEW n \in Correct, Active(n), state[n] # "FINALIZE", EnterValidate(n)
    PROVE  Inv' /\ Effect
<1>1. TypeOK
    BY DEF Inv
<1>2. /\ height[n] \in Heights /\ view[n] \in Views /\ n \in Nodes
      /\ status[n] = "RUNNING" /\ height[n] <= MaxHeight
      /\ EnterPhase(n, "VALIDATE") /\ "VALIDATE" \in States /\ "VALIDATE" \in VoteType
    BY <1>1 DEF TypeOK, Active, Correct, EnterValidate, States, VoteType
<1>3. ASSUME NEW v \in Vote, v.type = "VALIDATE",
             v.signer = n, v.height = height[n], v.view = view[n],
             CastValidate(n, v), validBlocks' \in [Correct -> SUBSET Blocks],
             IF v.value THEN v.blockHash \in Blocks ELSE v.blockHash = EmptyHash,
             v.value => /\ proposal[n] # NoProposal /\ proposal[n].block = v.blockHash
                        /\ Header[v.blockHash].number = height[n]
      PROVE  Inv' /\ Effect
    <2>1. Inv'
        BY <1>2, <1>3, CastKeeps DEF CastValidate
    <2>2. Casts
        BY <1>2, <1>3 DEF Casts, CastValidate, Broadcast, EnterPhase
    <2> QED
        BY <2>1, <2>2 DEF Effect
<1>4. CASE /\ proposal[n] # NoProposal
           /\ ValidProposal(n, proposal[n])
           /\ \E S \in Cached(validBlocks[n] \cup {proposal[n].block}) :
                 validBlocks' = [validBlocks EXCEPT ![n] = S]
           /\ CastValidate(n, NewApprove("VALIDATE", height[n], view[n], proposal[n].block, n))
    <2> DEFINE b == proposal[n].block
               v == NewApprove("VALIDATE", height[n], view[n], b, n)
    <2>1. b \in Blocks
        BY <1>1, <1>4 DEF TypeOK, Proposal
    <2>2. v \in Vote
        BY <1>2, <2>1, NewVotesType
    <2>3. Header[b].number = height[n]
        BY <1>2, <1>4 DEF ValidProposal, Extends, Inv, AtHeight
    <2>4. validBlocks' \in [Correct -> SUBSET Blocks]
        <3>1. PICK S \in Cached(validBlocks[n] \cup {b}) :
                  validBlocks' = [validBlocks EXCEPT ![n] = S]
            BY <1>4
        <3>2. S \subseteq Blocks
            BY <1>1, <2>1, <3>1 DEF Cached, TypeOK
        <3> QED
            BY <1>1, <3>1, <3>2 DEF TypeOK
    <2>5. /\ v.type = "VALIDATE" /\ v.signer = n /\ v.height = height[n] /\ v.view = view[n]
          /\ v.value /\ v.blockHash = b
        BY DEF NewApprove
    <2>6. CastValidate(n, v) /\ proposal[n] # NoProposal
        BY <1>4
    <2> HIDE DEF v
    <2> QED
        BY <1>3, <2>1, <2>2, <2>3, <2>4, <2>5, <2>6
<1>5. CASE CastValidate(n, NewReject("VALIDATE", height[n], view[n], n)) /\ UNCHANGED validBlocks
    <2> DEFINE v == NewReject("VALIDATE", height[n], view[n], n)
    <2>1. v \in Vote
        BY <1>2, NewVotesType
    <2>2. /\ v.type = "VALIDATE" /\ v.signer = n /\ v.height = height[n] /\ v.view = view[n]
          /\ ~v.value /\ v.blockHash = EmptyHash
        BY DEF NewReject
    <2>3. validBlocks' \in [Correct -> SUBSET Blocks]
        BY <1>1, <1>5 DEF TypeOK
    <2>4. CastValidate(n, v)
        BY <1>5
    <2> HIDE DEF v
    <2> QED
        BY <1>3, <2>1, <2>2, <2>3, <2>4
<1> QED
    BY <1>4, <1>5 DEF EnterValidate

LEMMA EnterPreCommitStep ==
    ASSUME Inv, NEW n \in Correct, Active(n), state[n] # "FINALIZE", EnterPreCommit(n)
    PROVE  Inv' /\ Effect
<1>1. TypeOK /\ Counted
    BY DEF Inv
<1>2. /\ height[n] \in Heights /\ view[n] \in Views /\ n \in Nodes
      /\ status[n] = "RUNNING" /\ height[n] <= MaxHeight
      /\ EnterPhase(n, "PRE_COMMIT") /\ "PRE_COMMIT" \in States /\ "PRECOMMIT" \in VoteType
    BY <1>1 DEF TypeOK, Active, Correct, EnterPreCommit, States, VoteType
<1>3. ASSUME NEW v \in Vote, v.type = "PRECOMMIT",
             v.signer = n, v.height = height[n], v.view = view[n], CastPreCommit(n, v),
             IF v.value THEN v.blockHash \in Blocks ELSE v.blockHash = EmptyHash,
             v.value => Approvable("VALIDATE", height[n], view[n], v.blockHash)
      PROVE  Inv' /\ Effect
    <2>1. validBlocks' \in [Correct -> SUBSET Blocks]
        BY <1>1, <1>3 DEF CastPreCommit, TypeOK
    <2>2. Inv'
        BY <1>2, <1>3, <2>1, CastKeeps DEF CastPreCommit
    <2>3. Casts
        BY <1>2, <1>3 DEF Casts, CastPreCommit, Broadcast, EnterPhase
    <2> QED
        BY <2>2, <2>3 DEF Effect
<1>4. ASSUME NEW b \in AnyApproved(validateVotes[n]),
             CastPreCommit(n, NewApprove("PRECOMMIT", height[n], view[n], b, n))
      PROVE  Inv' /\ Effect
    <2> DEFINE v == NewApprove("PRECOMMIT", height[n], view[n], b, n)
    <2>1. b \in Blocks /\ Approvable("VALIDATE", height[n], view[n], b)
        BY <1>1, CountedApproval DEF AnyApproved
    <2>2. v \in Vote
        BY <1>2, <2>1, NewVotesType
    <2>3. /\ v.type = "PRECOMMIT" /\ v.signer = n /\ v.height = height[n] /\ v.view = view[n]
          /\ v.value /\ v.blockHash = b
        BY DEF NewApprove
    <2>4. CastPreCommit(n, v)
        BY <1>4
    <2> HIDE DEF v
    <2> QED
        BY <1>3, <2>1, <2>2, <2>3, <2>4
<1>5. CASE CastPreCommit(n, NewReject("PRECOMMIT", height[n], view[n], n))
    <2> DEFINE v == NewReject("PRECOMMIT", height[n], view[n], n)
    <2>1. v \in Vote
        BY <1>2, NewVotesType
    <2>2. /\ v.type = "PRECOMMIT" /\ v.signer = n /\ v.height = height[n] /\ v.view = view[n]
          /\ ~v.value /\ v.blockHash = EmptyHash
        BY DEF NewReject
    <2>3. CastPreCommit(n, v)
        BY <1>5
    <2> HIDE DEF v
    <2> QED
        BY <1>3, <2>1, <2>2, <2>3
<1> QED
    BY <1>4, <1>5 DEF EnterPreCommit

LEMMA EnterCommitStep ==
    ASSUME Inv, NEW n \in Correct, Active(n), state[n] # "FINALIZE", EnterCommit(n)
    PROVE  Inv' /\ Effect
<1>1. TypeOK /\ Counted
    BY DEF Inv
<1>2. /\ height[n] \in Heights /\ view[n] \in Views /\ n \in Nodes
      /\ status[n] = "RUNNING" /\ height[n] <= MaxHeight
      /\ EnterPhase(n, "COMMIT") /\ "COMMIT" \in States /\ "COMMIT" \in VoteType
    BY <1>1 DEF TypeOK, Active, Correct, EnterCommit, States, VoteType
<1>3. PICK b \in AnyApproved(precommitVotes[n]) :
          LET v == NewApprove("COMMIT", height[n], view[n], b, n) IN
          commitVotes' = [commitVotes EXCEPT ![n] = AddVote(@, v)] /\ Broadcast(v)
    BY DEF EnterCommit
<1> DEFINE v == NewApprove("COMMIT", height[n], view[n], b, n)
<1>4. b \in Blocks /\ Approvable("PRECOMMIT", height[n], view[n], b)
    BY <1>1, CountedApproval DEF AnyApproved
<1>5. v \in Vote
    BY <1>2, <1>4, NewVotesType
<1>6. /\ v.type = "COMMIT" /\ v.signer = n /\ v.height = height[n] /\ v.view = view[n]
      /\ v.value /\ v.blockHash = b
    BY DEF NewApprove
<1>7. /\ commitVotes' = [commitVotes EXCEPT ![n] = AddVote(@, v)] /\ Broadcast(v)
      /\ UNCHANGED <<validateVotes, precommitVotes, validBlocks>>
    BY <1>3 DEF EnterCommit
<1> HIDE DEF v
<1>8. validBlocks' \in [Correct -> SUBSET Blocks]
    BY <1>1, <1>7 DEF TypeOK
<1>9. Inv'
    BY <1>2, <1>4, <1>5, <1>6, <1>7, <1>8, CastKeeps
<1>10. Casts
    BY <1>2, <1>4, <1>5, <1>6, <1>7 DEF Casts, Broadcast, EnterPhase
<1> QED
    BY <1>9, <1>10 DEF Effect

LEMMA OnTimeoutStep ==
    ASSUME Inv, NEW n \in Correct, OnTimeout(n)
    PROVE  Inv' /\ Effect
<1>1. TypeOK /\ Active(n)
    BY DEF Inv, OnTimeout
<1>2. CASE state[n] = "NEW_HEIGHT" /\ EnterPropose(n)
    BY <1>1, <1>2, EnterProposeStep
<1>3. CASE state[n] = "PROPOSE" /\ EnterValidate(n)
    BY <1>1, <1>3, EnterValidateStep
<1>4. CASE state[n] = "VALIDATE" /\ EnterPreCommit(n)
    BY <1>1, <1>4, EnterPreCommitStep
<1>5. CASE state[n] = "PRE_COMMIT" /\ EnterCommit(n)
    BY <1>1, <1>5, EnterCommitStep
<1>6. CASE state[n] = "PRE_COMMIT" /\ EnterPropose(n)
    BY <1>1, <1>6, EnterProposeStep
<1>7. CASE state[n] = "COMMIT" /\ EnterFinalize(n, commitVotes[n])
    BY <1>1, <1>7, EnterFinalizeStep
<1>8. CASE state[n] = "FINALIZE" /\ EnterNewHeight(n) /\ UNCHANGED validBlocks
    <2>1. height[n] = Len(chain[n]) /\ height[n] \in Nat
        BY <1>1, <1>8 DEF Active, Inv, AtHeight, TypeOK, Heights
    <2>2. height[n] < Len(chain[n]) + 1
        BY <2>1
    <2>3. validBlocks' \in [Correct -> SUBSET Blocks]
        BY <1>1, <1>8 DEF TypeOK
    <2>4. Inv'
        BY <1>8, <2>2, <2>3, EnterNewHeightKeeps
    <2>5. Quiet
        BY <1>8 DEF EnterNewHeight, Quiet, network
    <2> QED
        BY <2>4, <2>5 DEF Effect
<1> QED
    BY <1>2, <1>3, <1>4, <1>5, <1>6, <1>7, <1>8 DEF OnTimeout

LEMMA OnNewHeightStep ==
    ASSUME Inv, NEW n \in Correct, OnNewHeight(n)
    PROVE  Inv' /\ Effect
<1>1. TypeOK
    BY DEF Inv
<1>2. PICK t \in (height[n] + 1) .. (MaxHeight + 1) : StartSync(n, t)
    BY DEF OnNewHeight
<1>3. t \in Heights /\ height[n] < t /\ t <= MaxHeight + 1
    BY <1>1, BoundAssumption DEF TypeOK, Heights
<1>4. state[n] \in States /\ state' = [state EXCEPT ![n] = state[n]]
    BY <1>1 DEF TypeOK, OnNewHeight
<1>5. Inv'
    BY <1>2, <1>3, <1>4, StartSyncKeeps
<1>6. Quiet
    BY <1>2 DEF StartSync, Quiet, network
<1> QED
    BY <1>5, <1>6 DEF Effect

\* Even a proof-of-unlock that faulty nodes assembled holds signed votes only.
LEMMA ForgedProofIsHonest ==
    ASSUME TypeOK, NEW h \in Heights, NEW w \in 1 .. MaxView
    PROVE  /\ ForgedProof(h, w) \in Proof /\ HonestProof(ForgedProof(h, w))
           /\ ForgedProof(h, w).height = h /\ ForgedProof(h, w).view = w
<1>1. w \in Nat /\ w <= MaxView /\ w > 0 /\ w - 1 \in Nat
    BY BoundAssumption
<1>2. w \in Views /\ w - 1 \in Views
    BY <1>1 DEF Views
<1>3. ForgedProof(h, w).votes \subseteq Signed(h, w - 1)
    BY DEF ForgedProof, NewProof, Signed
<1>4. Signed(h, w - 1) \subseteq Vote
    BY <1>2, SignedVotes
<1>5. ForgedProof(h, w).height = h /\ ForgedProof(h, w).view = w
    BY DEF ForgedProof, NewProof
<1>6. ForgedProof(h, w) \in Proof
    BY <1>2, <1>3, <1>4 DEF ForgedProof, NewProof, Proof
<1> QED
    BY <1>1, <1>3, <1>5, <1>6 DEF HonestProof

LEMMA OnNewViewStep ==
    ASSUME Inv, NEW n \in Correct, OnNewView(n)
    PROVE  Inv' /\ Effect
<1>1. TypeOK /\ Active(n) /\ height[n] \in Heights /\ view[n] \in Nat
    BY DEF Inv, OnNewView, TypeOK, Views
<1>2. PICK pf \in ProofsFor(n) :
          /\ pf.height = height[n] /\ pf.view > view[n]
          /\ state[n] # "FINALIZE" /\ Unlocks(pf)
          /\ JumpToView(n, pf.view, pf, NoProposal)
    BY DEF OnNewView
<1>3. pf \in Proof /\ HonestProof(pf)
    <2>1. CASE pf \in newViews
        BY <1>1, <2>1 DEF Inv, TypeOK, HonestProofs
    <2>2. ASSUME NEW w \in (view[n] + 1) .. MaxView, pf = ForgedProof(height[n], w)
          PROVE  pf \in Proof /\ HonestProof(pf)
        <3>1. w \in 1 .. MaxView
            BY <1>1, BoundAssumption
        <3> QED
            BY <1>1, <2>2, <3>1, ForgedProofIsHonest
    <2> QED
        BY <2>1, <2>2 DEF ProofsFor
<1> QED
    BY <1>1, <1>2, <1>3, JumpToViewStep

\* The first proposal of the view n is in is kept.
LEMMA TakeProposalKeeps ==
    ASSUME Inv, NEW n \in Correct, NEW p \in Proposal, HonestProof(p.proof),
           p.proof.height = height[n], p.proof.view = view[n],
           p.signer = Primary(height[n], view[n]), proposal[n] = NoProposal,
           proposal' = [proposal EXCEPT ![n] = p],
           UNCHANGED <<chain, status, state, height, view, proof, voteSets,
                       validBlocks, timer, target, network>>
    PROVE  Inv'
<1>1. UNCHANGED <<chain, status, state, height, view, proof, validateVotes, precommitVotes,
                  commitVotes, validBlocks, timer, target, votes, proposals, newViews>>
    BY DEF voteSets, network
<1>2. TypeOK'
    BY <1>1 DEF Inv, TypeOK
<1>3. Counted' /\ HonestProofs'
    BY <1>1 DEF Inv, Counted, CountedIn, HonestProofs, HonestProof, Signed
<1>4. WellFormed' /\ ValidatedFits' /\ ChainBounds' /\ AtHeight'
    BY <1>1 DEF Inv, WellFormed, ValidatedFits, ChainBounds, AtHeight
<1>5. PreviousRejected' /\ PreCommitsBacked'
    BY <1>1 DEF Inv, PreviousRejected, Rejectable, PreCommitsBacked, Approvable
<1>6. proposal'[n] = p /\ \A m \in Correct : m # n => proposal'[m] = proposal[m]
    BY DEF Inv, TypeOK
<1>7. HonestProof(p.proof)'
    BY <1>1, HonestProofStays
<1>8. HeldProposals'
    <2> SUFFICES ASSUME NEW m \in Correct, proposal'[m] # NoProposal
                 PROVE  /\ proposal'[m].proof.height = height[m]
                        /\ proposal'[m].proof.view = view[m]
                        /\ proposal'[m].signer = Primary(height[m], view[m])
                        /\ HonestProof(proposal[m].proof)'
        BY <1>1 DEF HeldProposals
    <2>1. CASE m = n
        BY <1>6, <1>7, <2>1 DEF HonestProof
    <2>2. CASE m # n
        <3>1. HonestProof(proposal[m].proof)
            BY <1>6, <2>2 DEF Inv, HeldProposals
        <3>2. HonestProof(proposal[m].proof)'
            BY <1>1, <1>6, <2>2, <3>1 DEF HonestProof, Signed
        <3> QED
            BY <1>6, <2>2, <3>2 DEF Inv, HeldProposals
    <2> QED
        BY <2>1, <2>2
<1>9. VotesBehind'
    BY <1>1, <1>6, NodesAssumption DEF Inv, VotesBehind, Reliable, Correct
<1> QED
    BY <1>2, <1>3, <1>4, <1>5, <1>8, <1>9 DEF Inv

LEMMA OnProposalStep ==
    ASSUME Inv, NEW n \in Correct, OnProposal(n)
    PROVE  Inv' /\ Effect
<1>1. /\ TypeOK /\ Active(n) /\ height[n] \in Heights /\ view[n] \in Nat
    BY DEF Inv, OnProposal, TypeOK, Views
<1>2. PICK p \in ProposalsFor(n) :
          /\ p.proof.height = height[n]
          /\ Expects(n, p.proof.view)
          /\ p.signer = Primary(p.proof.height, p.proof.view)
          /\ IF p.proof.view = 0 THEN p.proof.votes = {} ELSE Unlocks(p.proof)
          /\ \/ /\ p.proof.view = view[n]
                /\ proposal' = [proposal EXCEPT ![n] = p]
                /\ UNCHANGED <<chain, status, state, height, view, proof, voteSets,
                               validBlocks, timer, target, network>>
             \/ /\ p.proof.view # view[n]
                /\ JumpToView(n, p.proof.view, p.proof, p)
    BY DEF OnProposal
<1>3. p \in Proposal /\ HonestProof(p.proof)
    <2>1. CASE p \in proposals
        BY <1>1, <2>1 DEF Inv, TypeOK, HonestProofs
    <2>2. ASSUME NEW pf \in {NewProof(height[n], 0, {})} \cup
                              {ForgedProof(height[n], w) : w \in 1 .. MaxView},
                 NEW b \in Blocks, NEW m \in Faulty,
                 p = [proof |-> pf, block |-> b, signer |-> m]
          PROVE  p \in Proposal /\ HonestProof(p.proof)
        <3>1. NewProof(height[n], 0, {}) \in Proof /\ HonestProof(NewProof(height[n], 0, {}))
            BY <1>1, BoundAssumption DEF NewProof, Proof, HonestProof, Views
        <3>2. pf \in Proof /\ HonestProof(pf)
            BY <1>1, <3>1, ForgedProofIsHonest
        <3> QED
            BY <2>2, <3>2, NodesAssumption DEF Proposal
    <2> QED
        BY <2>1, <2>2 DEF ProposalsFor
<1>4. p.proof \in Proof /\ p.proof.view \in Nat
    BY <1>3 DEF Proposal, Proof, Views
<1>5. CASE /\ p.proof.view = view[n]
           /\ proposal' = [proposal EXCEPT ![n] = p]
           /\ UNCHANGED <<chain, status, state, height, view, proof, voteSets,
                          validBlocks, timer, target, network>>
    <2>1. proposal[n] = NoProposal
        BY <1>1, <1>2, <1>5 DEF Expects
    <2>2. Inv'
        BY <1>2, <1>3, <1>5, <2>1, TakeProposalKeeps
    <2>3. Quiet
        BY <1>5 DEF Quiet, network
    <2> QED
        BY <2>2, <2>3 DEF Effect
<1>6. CASE p.proof.view # view[n] /\ JumpToView(n, p.proof.view, p.proof, p)
    <2>1. state[n] # "FINALIZE" /\ p.proof.view > view[n] /\ p.proof.view # 0
        BY <1>1, <1>2, <1>4, <1>6 DEF Expects
    <2>2. Unlocks(p.proof)
        BY <1>2, <2>1
    <2> QED
        BY <1>1, <1>2, <1>3, <1>4, <1>6, <2>1, <2>2, JumpToViewStep
<1> QED
    BY <1>2, <1>5, <1>6

LEMMA OnVoteStep ==
    ASSUME Inv, NEW n \in Correct, OnVote(n)
    PROVE  Inv' /\ Effect
<1>1. PICK v \in Signed(height[n], view[n]) :
          /\ v.height = height[n] /\ v.view = view[n]
          /\ \/ /\ validateVotes' = [validateVotes EXCEPT ![n] = AddVote(@, v)]
                /\ UNCHANGED <<chain, status, state, position, precommitVotes,
                               commitVotes, validBlocks, timer, target, network>>
             \/ /\ precommitVotes' = [precommitVotes EXCEPT ![n] = AddVote(@, v)]
                /\ UNCHANGED <<chain, status, state, position, validateVotes,
                               commitVotes, validBlocks, timer, target, network>>
             \/ LET cvs == AddVote(commitVotes[n], v) IN
                \/ state[n] # "FINALIZE" /\ EnterFinalize(n, cvs)
                \/ /\ commitVotes' = [commitVotes EXCEPT ![n] = cvs]
                   /\ UNCHANGED <<chain, status, state, position, validateVotes,
                                  precommitVotes, validBlocks, timer, target, network>>
    BY DEF OnVote, Signed
<1>2. CASE state[n] # "FINALIZE" /\ EnterFinalize(n, AddVote(commitVotes[n], v))
    <2>1. Active(n)
        BY DEF OnVote
    <2> QED
        BY <1>1, <1>2, <2>1, EnterFinalizeStep
<1>3. CASE ~(state[n] # "FINALIZE" /\ EnterFinalize(n, AddVote(commitVotes[n], v)))
    <2>1. /\ UNCHANGED <<chain, status, state, position, validBlocks, timer, target, network>>
          /\ \/ validateVotes' = [validateVotes EXCEPT ![n] = AddVote(@, v)]
             \/ UNCHANGED validateVotes
          /\ \/ precommitVotes' = [precommitVotes EXCEPT ![n] = AddVote(@, v)]
             \/ UNCHANGED precommitVotes
          /\ \/ commitVotes' = [commitVotes EXCEPT ![n] = AddVote(@, v)]
             \/ UNCHANGED commitVotes
        BY <1>1, <1>3
    <2>2. Inv'
        BY <1>1, <2>1, ReceiveKeeps
    <2>3. Quiet
        BY <2>1 DEF Quiet, network
    <2> QED
        BY <2>2, <2>3 DEF Effect
<1> QED
    BY <1>2, <1>3

\* The signatures in circulation are those of validators that may be shown to
\* have approved.
LEMMA CertifiedIsApprovable ==
    ASSUME TypeOK, NEW h \in Heights, NEW fb \in FinalBlock, CertifiedBlock(h, fb)
    PROVE  Approvable("PRECOMMIT", h, fb.view, fb.block)
<1> DEFINE w == fb.view
           b == fb.block
           A == {s \in Validators :
                   s \in Reliable => NewApprove("PRECOMMIT", h, w, b, s) \in votes}
<1>1. w \in Views
    BY DEF FinalBlock
<1>2. PreCommitSigners(h, w, b) \subseteq A
    <2> SUFFICES ASSUME NEW v \in Signed(h, w), v.type = "PRECOMMIT", v.value,
                        v.blockHash = b, v.height = h, v.view = w, v.signer \in Validators
                 PROVE  v.signer \in A
        BY DEF PreCommitSigners, Signed
    <2>1. v \in Vote /\ (v.signer \in Reliable => v \in votes)
        BY <1>1, SignedVotes
    <2>2. v = NewApprove("PRECOMMIT", h, w, b, v.signer)
        BY <2>1, VoteByFields
    <2> QED
        BY <2>1, <2>2
<1>3. fb.votes \subseteq A /\ A \subseteq Validators
    BY <1>2 DEF CertifiedBlock
<1> QED
    BY <1>3, QuorumMonotonic DEF CertifiedBlock, Approvable

LEMMA SyncBlockStep ==
    ASSUME Inv, NEW n \in Correct, SyncBlock(n)
    PROVE  Inv' /\ Effect
<1> DEFINE h == Len(chain[n]) + 1
<1>1. TypeOK /\ status[n] = "SYNCING" /\ h < target[n]
    BY DEF Inv, SyncBlock
<1>2. UNCHANGED <<status, state, position, voteSets, validBlocks, timer, target, network>>
    BY DEF SyncBlock
<1>3. PICK fb \in BlocksFor(h) :
          CertifiedBlock(h, fb) /\ chain' = [chain EXCEPT ![n] = Append(@, fb)]
    BY DEF SyncBlock
<1>4. /\ chain \in [Correct -> Seq(FinalBlock)] /\ Len(chain[n]) \in Nat
      /\ h \in Heights /\ h \in Nat
    BY <1>1 DEF TypeOK, Heights
<1>5. fb \in FinalBlock /\ fb.view <= MaxView
    <2>1. ASSUME NEW m \in Correct, Len(chain[m]) >= h, fb = chain[m][h]
          PROVE  fb \in FinalBlock /\ fb.view <= MaxView
        <3>1. h \in 1 .. Len(chain[m])
            BY <1>4, <2>1
        <3> QED
            BY <1>4, <2>1, <3>1, ElementOfSeq DEF Inv, ChainBounds
    <2>2. ASSUME NEW b \in Blocks, NEW w \in 0 .. MaxView,
                 fb = [block |-> b, view |-> w, votes |-> PreCommitSigners(h, w, b)]
          PROVE  fb \in FinalBlock /\ fb.view <= MaxView
        <3>1. PreCommitSigners(h, w, b) \subseteq Validators
            BY DEF PreCommitSigners
        <3>2. w \in Views /\ w <= MaxView
            BY BoundAssumption DEF Views
        <3> QED
            BY <2>2, <3>1, <3>2 DEF FinalBlock
    <2> QED
        BY <1>3, <2>1, <2>2 DEF BlocksFor
<1>6. Approvable("PRECOMMIT", h, fb.view, fb.block)
    BY <1>1, <1>3, <1>4, <1>5, CertifiedIsApprovable
<1>7. h <= MaxHeight
    <2>1. target[n] <= MaxHeight + 1 /\ target[n] \in Nat
        BY <1>1 DEF Inv, AtHeight, TypeOK, Heights
    <2> QED
        BY <1>1, <1>4, <2>1, BoundAssumption
<1>8. /\ UNCHANGED <<status, state, height, view, validateVotes, precommitVotes, commitVotes,
                     timer, target, votes>>
      /\ UNCHANGED <<position, validBlocks, network>>
    BY <1>2 DEF position, voteSets, network
<1>9. Counted'
    BY <1>8 DEF Inv, Counted, CountedIn, Signed
<1>10. AtHeight'
    <2>1. \A m \in Correct : status[m] = "RUNNING" => chain'[m] = chain[m]
        BY <1>1, <1>3, <1>4
    <2> QED
        BY <1>8, <2>1 DEF Inv, AtHeight
<1>11. Inv'
    BY <1>1, <1>3, <1>5, <1>7, <1>8, <1>9, <1>10, AppendKeeps DEF TypeOK
<1>12. Appends
    BY <1>3, <1>5, <1>6, <1>7, <1>8 DEF Appends
<1> QED
    BY <1>11, <1>12 DEF Effect

LEMMA SyncDoneStep ==
    ASSUME Inv, NEW n \in Correct, SyncDone(n)
    PROVE  Inv' /\ Effect
<1>1. TypeOK /\ status[n] = "SYNCING" /\ EnterNewHeight(n) /\ UNCHANGED validBlocks
    BY DEF Inv, SyncDone
<1>2. height[n] < Len(chain[n]) + 1
    <2>1. height[n] < target[n] /\ Len(chain[n]) + 1 >= target[n]
        BY <1>1 DEF Inv, AtHeight, SyncDone
    <2>2. height[n] \in Nat /\ target[n] \in Nat /\ Len(chain[n]) \in Nat
        BY <1>1 DEF TypeOK, Heights
    <2> QED
        BY <2>1, <2>2
<1>3. validBlocks' \in [Correct -> SUBSET Blocks]
    BY <1>1 DEF TypeOK
<1>4. Inv'
    BY <1>1, <1>2, <1>3, EnterNewHeightKeeps
<1>5. Quiet
    BY <1>1 DEF EnterNewHeight, Quiet, network
<1> QED
    BY <1>4, <1>5 DEF Effect

LEMMA CrashStep ==
    ASSUME Inv, NEW n \in Restarting, Crash(n)
    PROVE  Inv' /\ Effect
<1>1. TypeOK /\ n \in Correct
    BY NodesAssumption DEF Inv, Correct
<1>2. UNCHANGED <<chain, state, height, view, proof, proposal, validateVotes, precommitVotes,
                  commitVotes, validBlocks, timer, target, votes, proposals, newViews>>
    BY DEF Crash, position, voteSets, network
<1>3. status' = [status EXCEPT ![n] = "STOPPED"]
    BY DEF Crash
<1>4. TypeOK'
    BY <1>1, <1>2, <1>3 DEF TypeOK, Statuses
<1>5. AtHeight'
    BY <1>1, <1>2, <1>3 DEF Inv, AtHeight, TypeOK
<1>6. Counted' /\ HonestProofs' /\ HeldProposals'
    BY <1>2 DEF Inv, Counted, CountedIn, HonestProofs, HonestProof, HeldProposals, Signed
<1>7. WellFormed' /\ ChainBounds' /\ VotesBehind' /\ ValidatedFits'
    BY <1>2 DEF Inv, WellFormed, ChainBounds, VotesBehind, ValidatedFits
<1>8. PreviousRejected' /\ PreCommitsBacked'
    BY <1>2 DEF Inv, PreviousRejected, Rejectable, PreCommitsBacked, Approvable
<1>9. Inv'
    BY <1>4, <1>5, <1>6, <1>7, <1>8 DEF Inv
<1>10. Quiet
    BY <1>2 DEF Quiet
<1> QED
    BY <1>9, <1>10 DEF Effect

LEMMA StartStep ==
    ASSUME Inv, NEW n \in Restarting, Start(n)
    PROVE  Inv' /\ Effect
<1>1. n \in Correct /\ n \notin Reliable
    BY NodesAssumption DEF Correct, Reliable
<1>2. EnterNewHeight(n) /\ validBlocks' = [validBlocks EXCEPT ![n] = {}]
    BY DEF Start
<1>3. validBlocks' \in [Correct -> SUBSET Blocks]
    BY <1>2 DEF Inv, TypeOK
<1>4. Inv'
    BY <1>1, <1>2, <1>3, EnterNewHeightKeeps
<1>5. Quiet
    BY <1>2 DEF EnterNewHeight, Quiet, network
<1> QED
    BY <1>4, <1>5 DEF Effect

LEMMA StutterStep ==
    ASSUME Inv, UNCHANGED vars
    PROVE  Inv' /\ Effect
<1>1. UNCHANGED <<chain, status, state, height, view, proof, proposal, validateVotes,
                  precommitVotes, commitVotes, validBlocks, timer, target, votes, proposals,
                  newViews>>
    BY DEF vars, position, voteSets, network
<1>2. TypeOK' /\ Counted' /\ HonestProofs' /\ HeldProposals'
    BY <1>1 DEF Inv, TypeOK, Counted, CountedIn, HonestProofs, HonestProof, HeldProposals, Signed
<1>3. WellFormed' /\ AtHeight' /\ ChainBounds' /\ VotesBehind' /\ ValidatedFits'
    BY <1>1 DEF Inv, WellFormed, AtHeight, ChainBounds, VotesBehind, ValidatedFits
<1>4. PreviousRejected' /\ PreCommitsBacked'
    BY <1>1 DEF Inv, PreviousRejected, Rejectable, PreCommitsBacked, Approvable
<1> QED
    BY <1>1, <1>2, <1>3, <1>4 DEF Inv, Effect, Quiet
-----------------------------------------------------------------------------
LEMMA InitInv == Init => Inv
<1> SUFFICES ASSUME Init PROVE Inv
    OBVIOUS
<1>1. 1 \in Heights /\ 0 \in Views /\ <<>> \in Seq(FinalBlock) /\ Len(<<>>) = 0
    BY EmptySeq DEF Heights, Views
<1>2. \A t \in VoteType : EmptyVoteSet(t, 1, 0) \in VoteSets
    BY <1>1, EmptyVoteSetType
<1>3. NewProof(1, 0, {}) \in Proof
    BY <1>1 DEF NewProof, Proof
<1>4. TypeOK
    <2>1. /\ validateVotes \in [Correct -> VoteSets]
          /\ precommitVotes \in [Correct -> VoteSets]
          /\ commitVotes \in [Correct -> VoteSets]
        BY <1>2 DEF Init, VoteType
    <2>2. /\ chain \in [Correct -> Seq(FinalBlock)]
          /\ status \in [Correct -> Statuses] /\ state \in [Correct -> States]
          /\ timer \in [Correct -> BOOLEAN]
        BY <1>1 DEF Init, Statuses, States
    <2>3. /\ height \in [Correct -> Heights] /\ view \in [Correct -> Views]
          /\ proof \in [Correct -> Proof] /\ proposal \in [Correct -> Proposal \cup {NoProposal}]
          /\ validBlocks \in [Correct -> SUBSET Blocks] /\ target \in [Correct -> Heights]
        BY <1>1, <1>3 DEF Init
    <2> QED
        BY <2>1, <2>2, <2>3 DEF Init, TypeOK
<1>5. Counted
    BY DEF Init, Counted, CountedIn, EmptyVoteSet
<1>6. HonestProofs
    BY BoundAssumption DEF Init, HonestProofs, HonestProof, NewProof
<1>7. HeldProposals /\ WellFormed /\ PreviousRejected
    BY DEF Init, HeldProposals, WellFormed, PreviousRejected
<1>8. AtHeight /\ ChainBounds
    BY <1>1, BoundAssumption DEF Init, AtHeight, ChainBounds
<1>9. VotesBehind /\ ValidatedFits /\ PreCommitsBacked
    BY DEF Init, VotesBehind, ValidatedFits, PreCommitsBacked
<1> QED
    BY <1>4, <1>5, <1>6, <1>7, <1>8, <1>9 DEF Inv

LEMMA NextInv ==
    ASSUME Inv, [Next]_vars
    PROVE  Inv' /\ Effect
<1>1. ASSUME NEW n \in Correct,
             \/ OnTimeout(n) \/ OnNewHeight(n) \/ OnNewView(n) \/ OnProposal(n)
             \/ OnVote(n) \/ SyncBlock(n) \/ SyncDone(n)
      PROVE  Inv' /\ Effect
    BY <1>1, OnTimeoutStep, OnNewHeightStep, OnNewViewStep, OnProposalStep, OnVoteStep,
       SyncBlockStep, SyncDoneStep
<1>2. ASSUME NEW n \in Restarting, Crash(n) \/ Start(n)
      PROVE  Inv' /\ Effect
    BY <1>2, CrashStep, StartStep
<1>3. CASE UNCHANGED vars
    BY <1>3, StutterStep
<1> QED
    BY <1>1, <1>2, <1>3 DEF Next

LEMMA SpecInv == Spec => []Inv
<1>1. Inv /\ [Next]_vars => Inv'
    BY NextInv
<1> QED
    BY <1>1, InitInv, PTL DEF Spec

-----------------------------------------------------------------------------
\* BftVoting counts votes the way the engine does.
LEMMA VotingCountsAlike ==
    ASSUME NEW t, NEW h, NEW w, NEW b
    PROVE  /\ Voting!Approvable(t, h, w, b) <=> Approvable(t, h, w, b)
           /\ Voting!Rejectable(h, w) <=> Rejectable(h, w)
<1>1. \A S : Voting!IsQuorum(S) <=> IsQuorum(S)
    <2>1. \A S : Voting!Cardinality(S) = Cardinality(S)
        BY DEF Voting!Cardinality, Cardinality
    <2> QED
        BY <2>1 DEF Voting!IsQuorum, IsQuorum, Voting!TwoThirds, TwoThirds
<1>2. Voting!Reliable = Reliable
    BY DEF Voting!Reliable, Reliable
<1>3. \A s : /\ Voting!NewApprove(t, h, w, b, s) = NewApprove(t, h, w, b, s)
             /\ Voting!NewReject("PRECOMMIT", h, w, s) = NewReject("PRECOMMIT", h, w, s)
             /\ NewApprove(t, h, w, b, s).signer = s
             /\ NewReject("PRECOMMIT", h, w, s).signer = s
    BY DEF Voting!NewApprove, NewApprove, Voting!NewReject, NewReject
<1>4. Voting!Approvers(t, h, w, b)
          = {s \in Validators : s \in Reliable => NewApprove(t, h, w, b, s) \in votes}
    BY <1>2, <1>3 DEF Voting!Approvers, ReliableVotes
<1>5. Voting!Rejecters(h, w)
          = {s \in Validators : s \in Reliable => NewReject("PRECOMMIT", h, w, s) \in votes}
    BY <1>2, <1>3 DEF Voting!Rejecters, ReliableVotes
<1> QED
    BY <1>1, <1>4, <1>5 DEF Voting!Approvable, Approvable, Voting!Rejectable, Rejectable

\* A correct node that votes has reached that height and view.
LEMMA VoterHasReached ==
    ASSUME Inv, NEW n \in Correct, status[n] = "RUNNING", state[n] # "FINALIZE"
    PROVE  Voting!Reached(height[n], view[n])
<1>1. /\ height[n] = Len(chain[n]) + 1
      /\ chain[n] \in Seq(FinalBlock) /\ Len(chain[n]) \in Nat /\ view[n] \in Nat
    BY DEF Inv, AtHeight, TypeOK, Views
<1>2. height[n] = 1 \/ \E d \in Finalized : d[1] = height[n] - 1
    <2>1. CASE Len(chain[n]) = 0
        BY <1>1, <2>1
    <2>2. CASE Len(chain[n]) # 0
        <3> DEFINE k == Len(chain[n])
        <3>1. k \in 1 .. Len(chain[n]) /\ height[n] - 1 = k
            BY <1>1, <2>2
        <3>2. <<k, chain[n][k].view, chain[n][k].block>> \in Finalized
            BY <3>1 DEF Finalized
        <3>3. <<k, chain[n][k].view, chain[n][k].block>>[1] = k
            OBVIOUS
        <3> QED
            BY <3>1, <3>2, <3>3
    <2> QED
        BY <2>1, <2>2
<1>3. view[n] = 0 \/ Voting!Rejectable(height[n], view[n] - 1)
    BY <1>1, VotingCountsAlike DEF Inv, PreviousRejected
<1> QED
    BY <1>2, <1>3 DEF Voting!Reached

LEMMA CastsAllowed ==
    ASSUME Inv, Casts
    PROVE  [Voting!Next]_(Voting!vars)
<1>1. PICK n \in Correct, v \in Vote :
        /\ status[n] = "RUNNING" /\ state[n] # "FINALIZE" /\ height[n] <= MaxHeight
        /\ v.signer = n /\ v.height = height[n] /\ v.view = view[n]
        /\ IF v.value THEN v.blockHash \in Blocks ELSE v.blockHash = EmptyHash
        /\ v.type = "VALIDATE" /\ v.value =>
              proposal[n] # NoProposal /\ proposal[n].block = v.blockHash
        /\ v.type = "PRECOMMIT" /\ v.value =>
              Approvable("VALIDATE", height[n], view[n], v.blockHash)
        /\ v.type = "COMMIT" =>
              v.value /\ Approvable("PRECOMMIT", height[n], view[n], v.blockHash)
        /\ votes' = votes \cup {v} /\ UNCHANGED chain
    BY DEF Casts
<1>2. Finalized' = Finalized
    BY <1>1 DEF Finalized
<1>3. CASE n \notin Reliable
    <2>1. ReliableVotes' = ReliableVotes
        BY <1>1, <1>3 DEF ReliableVotes
    <2> QED
        BY <1>2, <2>1 DEF Voting!vars
<1>4. CASE n \in Reliable
    <2> DEFINE h == height[n]
               w == view[n]
               b == v.blockHash
    <2>1. ReliableVotes' = ReliableVotes \cup {v}
        BY <1>1, <1>4 DEF ReliableVotes
    <2>2. h \in 1 .. MaxHeight /\ w \in 0 .. MaxView
        <3>1. h \in Nat /\ h # 0 /\ w \in Nat /\ w <= MaxView
            BY DEF Inv, TypeOK, Heights, Views, HonestProofs, HonestProof
        <3> QED
            BY <1>1, <3>1, BoundAssumption
    <2>3. Voting!Reached(h, w)
        BY <1>1, VoterHasReached
    <2>4. n \in Voting!Reliable
        BY <1>4 DEF Voting!Reliable, Reliable
    <2>5. CASE v.value
        <3>1. b \in Blocks /\ v = Voting!NewApprove(v.type, h, w, b, n)
            BY <1>1, <2>5, VoteByFields DEF NewApprove, Voting!NewApprove
        <3>2. CASE v.type = "VALIDATE"
            <4>1. \A c \in Blocks :
                      Voting!NewApprove("VALIDATE", h, w, c, n) \in ReliableVotes => c = b
                <5> SUFFICES ASSUME NEW c \in Blocks,
                                    NewApprove("VALIDATE", h, w, c, n) \in votes
                             PROVE  c = b
                    BY DEF ReliableVotes, NewApprove, Voting!NewApprove
                <5>1. proposal[n].block = c
                    BY <1>4 DEF Inv, VotesBehind, NewApprove
                <5> QED
                    BY <1>1, <2>5, <3>2, <5>1
            <4>2. Voting!ApproveValidate(n, h, w, b)
                BY <1>2, <2>1, <2>3, <3>1, <3>2, <4>1 DEF Voting!ApproveValidate
            <4> QED
                BY <2>2, <2>4, <3>1, <4>2 DEF Voting!Next
        <3>3. CASE v.type = "PRECOMMIT"
            <4>1. Voting!Approvable("VALIDATE", h, w, b)
                BY <1>1, <2>5, <3>3, VotingCountsAlike
            <4>2. Voting!ApprovePreCommit(n, h, w, b)
                BY <1>2, <2>1, <2>3, <3>1, <3>3, <4>1 DEF Voting!ApprovePreCommit
            <4> QED
                BY <2>2, <2>4, <3>1, <4>2 DEF Voting!Next
        <3>4. CASE v.type = "COMMIT"
            <4>1. Voting!Approvable("PRECOMMIT", h, w, b)
                BY <1>1, <2>5, <3>4, VotingCountsAlike
            <4>2. Voting!ApproveCommit(n, h, w, b)
                BY <1>2, <2>1, <2>3, <3>1, <3>4, <4>1 DEF Voting!ApproveCommit
            <4> QED
                BY <2>2, <2>4, <3>1, <4>2 DEF Voting!Next
        <3> QED
            BY <3>2, <3>3, <3>4 DEF Vote, VoteType
    <2>6. CASE ~v.value
        <3>1. v = Voting!NewReject(v.type, h, w, n)
            BY <1>1, <2>6, VoteByFields DEF NewReject, Voting!NewReject
        <3>2. v.type \in {"VALIDATE", "PRECOMMIT"}
            BY <1>1, <2>6 DEF Vote, VoteType
        <3>3. Voting!Reject(n, v.type, h, w)
            BY <1>2, <2>1, <2>3, <3>1 DEF Voting!Reject
        <3> QED
            BY <2>2, <2>4, <3>2, <3>3 DEF Voting!Next
    <2> QED
        BY <2>5, <2>6
<1> QED
    BY <1>3, <1>4

LEMMA AppendsAllowed ==
    ASSUME Inv, Appends
    PROVE  [Voting!Next]_(Voting!vars)
<1>1. PICK n \in Correct, fb \in FinalBlock :
        /\ Len(chain[n]) + 1 <= MaxHeight /\ fb.view <= MaxView
        /\ Approvable("PRECOMMIT", Len(chain[n]) + 1, fb.view, fb.block)
        /\ chain' = [chain EXCEPT ![n] = Append(@, fb)] /\ UNCHANGED votes
    BY DEF Appends
<1> DEFINE h == Len(chain[n]) + 1
           w == fb.view
           b == fb.block
<1>2. /\ chain \in [Correct -> Seq(FinalBlock)] /\ chain[n] \in Seq(FinalBlock)
      /\ Len(chain[n]) \in Nat
    BY DEF Inv, TypeOK
<1>3. h \in 1 .. MaxHeight /\ w \in 0 .. MaxView /\ b \in Blocks
    BY <1>1, <1>2, BoundAssumption DEF FinalBlock, Views
<1>4. ReliableVotes' = ReliableVotes
    BY <1>1 DEF ReliableVotes
<1>5. Finalized' = Finalized \cup {<<h, w, b>>}
    <2> DEFINE On(c) == {<<k, c[k].view, c[k].block>> : k \in 1 .. Len(c)}
    <2>1. chain'[n] = Append(chain[n], fb)
          /\ \A m \in Correct : m # n => chain'[m] = chain[m]
        BY <1>1, <1>2
    <2>2. On(Append(chain[n], fb)) = On(chain[n]) \cup {<<h, w, b>>}
        <3>1. /\ Len(Append(chain[n], fb)) = h
              /\ \A k \in 1 .. Len(chain[n]) : Append(chain[n], fb)[k] = chain[n][k]
              /\ Append(chain[n], fb)[h] = fb
            BY <1>2, AppendProperties
        <3>2. 1 .. h = (1 .. Len(chain[n])) \cup {h}
            BY <1>2
        <3> QED
            BY <3>1, <3>2
    <2>3. Finalized = UNION {On(chain[m]) : m \in Correct}
        BY DEF Finalized
    <2>4. Finalized' = UNION {On(chain'[m]) : m \in Correct}
        BY DEF Finalized
    <2> HIDE DEF On, h, w, b
    <2>5. \A m \in Correct : On(chain'[m]) = IF m = n THEN On(chain[m]) \cup {<<h, w, b>>}
                                             ELSE On(chain[m])
        BY <2>1, <2>2
    <2> QED
        <3>1. n \in Correct
            OBVIOUS
        <3>2. ASSUME NEW x
              PROVE  x \in Finalized' <=> (x \in Finalized \/ x = <<h, w, b>>)
            <4>1. x \in Finalized' <=> \E m \in Correct : x \in On(chain'[m])
                BY ONLY <2>4
            <4>2. x \in Finalized <=> \E m \in Correct : x \in On(chain[m])
                BY ONLY <2>3
            <4>3. \A m \in Correct :
                      x \in On(chain'[m]) <=> (x \in On(chain[m]) \/ (m = n /\ x = <<h, w, b>>))
                BY ONLY <2>5
            <4> QED
                BY ONLY <3>1, <4>1, <4>2, <4>3
        <3> QED
            BY ONLY <3>2
<1>6. Voting!Approvable("PRECOMMIT", h, w, b)
    BY <1>1, VotingCountsAlike
<1>7. Voting!Decide(h, w, b)
    BY <1>4, <1>5, <1>6 DEF Voting!Decide
<1> QED
    BY <1>3, <1>7 DEF Voting!Next

LEMMA StepAllowed ==
    ASSUME Inv, [Next]_vars
    PROVE  [Voting!Next]_(Voting!vars)
<1>1. CASE Quiet
    BY <1>1 DEF Quiet, ReliableVotes, Finalized, Voting!vars
<1> QED
    BY <1>1, NextInv, CastsAllowed, AppendsAllowed DEF Effect

\* The event loops together implement the voting rules, for any number of nodes
\* and faults below a third: every vote a reliable validator casts and every
\* block a correct node adds is one that BftVoting allows.
THEOREM SemuxBftFollowsVotingRules == Spec => FollowsVotingRules
<1>1. Init => Voting!Init
    BY DEF Init, Voting!Init, ReliableVotes, Finalized
<1>2. Inv /\ [Next]_vars => [Voting!Next]_(Voting!vars)
    BY StepAllowed
<1> QED
    BY <1>1, <1>2, SpecInv, PTL DEF Spec, Voting!Spec, FollowsVotingRules

-----------------------------------------------------------------------------
\* A reliable validator validates one block in a view ...
OneValidation ==
    \A u, v \in votes :
        /\ u.signer \in Reliable /\ u.signer = v.signer
        /\ u.type = "VALIDATE" /\ v.type = "VALIDATE" /\ u.value /\ v.value
        /\ u.height = v.height /\ u.view = v.view
        => u.blockHash = v.blockHash

\* ... and votes in views that were all unlocked ...
VotedViewsUnlocked ==
    \A v \in votes : v.signer \in Reliable =>
        \A u \in 0 .. (v.view - 1) : Rejectable(v.height, u)

\* ... and what is on the chains was approved by 2/3.
ChainsBacked ==
    \A n \in Correct : \A h \in 1 .. Len(chain[n]) :
        Approvable("PRECOMMIT", h, chain[n][h].view, chain[n][h].block)

VotingInv == OneValidation /\ VotedViewsUnlocked /\ ChainsBacked

\* The view n is in was unlocked, so the view before it was voted in, and so
\* the views before that one were unlocked too.
LEMMA AllEarlierUnlocked ==
    ASSUME Inv, VotedViewsUnlocked, NEW n \in Correct, NEW u \in 0 .. (view[n] - 1)
    PROVE  Rejectable(height[n], u)
<1>1. view[n] \in Nat
    BY DEF Inv, TypeOK, Views
<1>2. view[n] > 0 /\ Rejectable(height[n], view[n] - 1)
    BY <1>1 DEF Inv, PreviousRejected
<1>3. PICK s \in Reliable : NewReject("PRECOMMIT", height[n], view[n] - 1, s) \in votes
    BY <1>2, QuorumHasReliable DEF Rejectable
<1>4. \A i \in 0 .. ((view[n] - 1) - 1) : Rejectable(height[n], i)
    BY <1>3 DEF VotedViewsUnlocked, NewReject
<1>5. u = view[n] - 1 \/ u \in 0 .. ((view[n] - 1) - 1)
    BY <1>1
<1> QED
    BY <1>2, <1>4, <1>5

LEMMA CastsKeepVotingInv ==
    ASSUME Inv, VotingInv, Casts
    PROVE  VotingInv'
<1>1. PICK n \in Correct, v \in Vote :
        /\ v.signer = n /\ v.height = height[n] /\ v.view = view[n]
        /\ v.type = "VALIDATE" /\ v.value =>
              proposal[n] # NoProposal /\ proposal[n].block = v.blockHash
        /\ votes' = votes \cup {v} /\ UNCHANGED chain
    BY DEF Casts
<1>2. votes \subseteq votes'
    BY <1>1
<1>3. OneValidation'
    <2>1. ASSUME NEW u \in votes, u.signer \in Reliable, u.signer = v.signer,
                 u.type = "VALIDATE", v.type = "VALIDATE", u.value, v.value,
                 u.height = v.height, u.view = v.view
          PROVE  u.blockHash = v.blockHash
        BY <1>1, <2>1 DEF Inv, VotesBehind
    <2> QED
        BY <1>1, <2>1 DEF VotingInv, OneValidation
<1>4. VotedViewsUnlocked'
    <2> SUFFICES ASSUME NEW u \in votes', u.signer \in Reliable, NEW i \in 0 .. (u.view - 1)
                 PROVE  Rejectable(u.height, i)'
        BY DEF VotedViewsUnlocked
    <2>1. Rejectable(u.height, i)
        <3>1. CASE u \in votes
            BY <3>1 DEF VotingInv, VotedViewsUnlocked
        <3>2. CASE u = v
            BY <1>1, <3>2, AllEarlierUnlocked DEF VotingInv
        <3> QED
            BY <1>1, <3>1, <3>2
    <2> QED
        BY <1>2, <2>1, Monotonic
<1>5. ChainsBacked'
    BY <1>1, <1>2, Monotonic DEF VotingInv, ChainsBacked
<1> QED
    BY <1>3, <1>4, <1>5 DEF VotingInv

LEMMA AppendsKeepVotingInv ==
    ASSUME Inv, VotingInv, Appends
    PROVE  VotingInv'
<1>1. PICK n \in Correct, fb \in FinalBlock :
        /\ Approvable("PRECOMMIT", Len(chain[n]) + 1, fb.view, fb.block)
        /\ chain' = [chain EXCEPT ![n] = Append(@, fb)] /\ UNCHANGED votes
    BY DEF Appends
<1>2. \A t, h, w, b : Approvable(t, h, w, b)' = Approvable(t, h, w, b)
    BY <1>1 DEF Approvable
<1>3. OneValidation' /\ VotedViewsUnlocked'
    BY <1>1 DEF VotingInv, OneValidation, VotedViewsUnlocked, Rejectable
<1>4. ChainsBacked'
    <2> SUFFICES ASSUME NEW m \in Correct, NEW h \in 1 .. Len(chain'[m])
                 PROVE  Approvable("PRECOMMIT", h, chain'[m][h].view, chain'[m][h].block)
        BY <1>1 DEF ChainsBacked, Approvable
    <2>1. chain \in [Correct -> Seq(FinalBlock)] /\ Len(chain[n]) \in Nat
        BY DEF Inv, TypeOK
    <2>2. CASE m # n
        BY <1>1, <2>1, <2>2 DEF VotingInv, ChainsBacked
    <2>3. CASE m = n
        <3>1. chain'[n] = Append(chain[n], fb)
            BY <1>1, <2>1
        <3>2. /\ Len(chain'[n]) = Len(chain[n]) + 1
              /\ \A i \in 1 .. Len(chain[n]) : chain'[n][i] = chain[n][i]
              /\ chain'[n][Len(chain[n]) + 1] = fb
            BY <2>1, <3>1, AppendProperties
        <3>3. h \in 1 .. Len(chain[n]) \/ h = Len(chain[n]) + 1
            BY <2>1, <2>3, <3>2
        <3> QED
            BY <1>1, <2>3, <3>2, <3>3 DEF VotingInv, ChainsBacked
    <2> QED
        BY <2>2, <2>3
<1> QED
    BY <1>3, <1>4 DEF VotingInv

LEMMA SpecVotingInv == Spec => [](Inv /\ VotingInv)
<1>1. Init => VotingInv
    BY DEF Init, VotingInv, OneValidation, VotedViewsUnlocked, ChainsBacked
<1>2. Inv /\ VotingInv /\ [Next]_vars => VotingInv'
    <2>1. Quiet /\ VotingInv => VotingInv'
        BY DEF Quiet, VotingInv, OneValidation, VotedViewsUnlocked, ChainsBacked,
               Rejectable, Approvable
    <2> QED
        BY <2>1, NextInv, CastsKeepVotingInv, AppendsKeepVotingInv DEF Effect
<1> QED
    BY <1>1, <1>2, SpecInv, PTL DEF Spec
-----------------------------------------------------------------------------
\* Every variable holds a value of its kind.
THEOREM SemuxBftTypeOK == Spec => []TypeOK
<1>1. Inv => TypeOK
    BY DEF Inv
<1> QED
    BY <1>1, SpecInv, PTL

\* The votes, proposal and proof a node holds are always those of the height and
\* view it is in (enterNewHeight, jumpToView, clearVotes).
THEOREM SemuxBftHoldsCurrent == Spec => []HoldsCurrent
<1>1. Inv => HoldsCurrent
    BY DEF Inv, HeldProposals, HonestProofs, Counted, CountedIn, HoldsCurrent
<1> QED
    BY <1>1, SpecInv, PTL

\* A node votes on the block after its latest one, until it has added that
\* (enterFinalize, enterNewHeight).
THEOREM SemuxBftHeightFollowsChain == Spec => []HeightFollowsChain
<1>1. Inv => HeightFollowsChain
    BY DEF Inv, AtHeight, HeightFollowsChain
<1> QED
    BY <1>1, SpecInv, PTL

\* An approved block is one for the height that is voted on, so applyBlock never
\* meets a wrong block (enterFinalize).
THEOREM SemuxBftNoWrongBlock == Spec => []NoWrongBlock
<1>1. Inv => NoWrongBlock
    <2> SUFFICES ASSUME Inv, NEW n \in Correct,
                        NEW b \in AnyApproved(precommitVotes[n]) \cap validBlocks[n]
                 PROVE  Header[b].number = height[n]
        BY DEF NoWrongBlock
    <2>1. b \in Blocks /\ height[n] \in Heights /\ view[n] \in Views
        BY DEF AnyApproved, Inv, TypeOK
    <2>2. Approvable("PRECOMMIT", height[n], view[n], b)
        BY <2>1, CountedApproval DEF Inv
    <2> QED
        BY <2>1, <2>2, ApprovedFits
<1> QED
    BY <1>1, SpecInv, PTL

\* A node is in a view only if all earlier ones can be proved rejected, whoever
\* told it to move on (enterPropose, onNewView, onProposal).
THEOREM SemuxBftViewsUnlocked == Spec => []ViewsUnlocked
<1>1. Inv /\ VotingInv => ViewsUnlocked
    BY AllEarlierUnlocked, VotingCountsAlike DEF VotingInv, ViewsUnlocked
<1> QED
    BY <1>1, SpecVotingInv, PTL

\* Two chains differ at a height only if a reliable validator rejected in
\* PRE_COMMIT and, back in PROPOSE, approved in the same view (onTimeout).
THEOREM SemuxBftAgreementUnlessRevoted == Spec => []AgreementUnlessRevoted
<1>1. ASSUME Inv, VotingInv, NEW m \in Correct, NEW n \in Correct,
             NEW h \in 1 .. Len(chain[m]), h <= Len(chain[n]),
             chain[m][h].view <= chain[n][h].view,
             chain[m][h].block # chain[n][h].block
      PROVE  Revoted(h, chain[m][h].view)
    <2> DEFINE w == chain[m][h].view
               x == chain[n][h].view
               b == chain[m][h].block
               c == chain[n][h].block
    <2>1. chain[m] \in Seq(FinalBlock) /\ chain[n] \in Seq(FinalBlock)
          /\ h \in 1 .. Len(chain[n])
        BY <1>1 DEF Inv, TypeOK
    <2>2. w \in Nat /\ x \in Nat /\ b \in Blocks /\ c \in Blocks
        <3>1. chain[m][h] \in FinalBlock /\ chain[n][h] \in FinalBlock
            BY <2>1, ElementOfSeq
        <3> QED
            BY <3>1 DEF FinalBlock, Views
    <2>3. Approvable("PRECOMMIT", h, w, b) /\ Approvable("PRECOMMIT", h, x, c)
        BY <1>1, <2>1 DEF VotingInv, ChainsBacked
    <2>4. w # x
        <3> SUFFICES ASSUME w = x PROVE FALSE
            OBVIOUS
        <3>1. ASSUME NEW d \in Blocks, Approvable("PRECOMMIT", h, w, d)
              PROVE  Approvable("VALIDATE", h, w, d)
            <4>1. PICK s \in Reliable : NewApprove("PRECOMMIT", h, w, d, s) \in votes
                BY <3>1, QuorumHasReliable DEF Approvable
            <4> QED
                BY <1>1, <4>1 DEF Inv, PreCommitsBacked, NewApprove
        <3>2. PICK s \in Reliable : /\ NewApprove("VALIDATE", h, w, b, s) \in votes
                                    /\ NewApprove("VALIDATE", h, w, c, s) \in votes
            <4> DEFINE A(d) == {s \in Validators :
                                  s \in Reliable => NewApprove("VALIDATE", h, w, d, s) \in votes}
            <4>1. A(b) \in SUBSET Validators /\ A(c) \in SUBSET Validators
                OBVIOUS
            <4>2. IsQuorum(A(b)) /\ IsQuorum(A(c))
                BY <2>2, <2>3, <3>1 DEF Approvable
            <4> QED
                BY <4>1, <4>2, QuorumsShareReliable
        <3> QED
            BY <1>1, <3>2 DEF VotingInv, OneValidation, NewApprove
    <2>5. w \in 0 .. (x - 1)
        BY <1>1, <2>2, <2>4
    <2>6. PICK r \in Reliable : NewApprove("PRECOMMIT", h, x, c, r) \in votes
        BY <2>3, QuorumHasReliable DEF Approvable
    <2>7. Rejectable(h, w)
        BY <1>1, <2>5, <2>6 DEF VotingInv, VotedViewsUnlocked, NewApprove
    <2>8. PICK s \in Reliable : /\ NewApprove("PRECOMMIT", h, w, b, s) \in votes
                                /\ NewReject("PRECOMMIT", h, w, s) \in votes
        <3> DEFINE A == {s \in Validators :
                           s \in Reliable => NewApprove("PRECOMMIT", h, w, b, s) \in votes}
                   R == {s \in Validators :
                           s \in Reliable => NewReject("PRECOMMIT", h, w, s) \in votes}
        <3>1. A \in SUBSET Validators /\ R \in SUBSET Validators
            OBVIOUS
        <3>2. IsQuorum(A) /\ IsQuorum(R)
            BY <2>3, <2>7 DEF Approvable, Rejectable
        <3> QED
            BY <3>1, <3>2, QuorumsShareReliable
    <2> QED
        BY <2>2, <2>8 DEF Revoted
<1>2. Inv /\ VotingInv => AgreementUnlessRevoted
    BY <1>1 DEF AgreementUnlessRevoted
<1> QED
    BY <1>2, SpecVotingInv, PTL

\* Whatever arrives, a node that keeps its memory never returns to an earlier
\* height or view (onNewView, onProposal, onNewHeight, enterNewHeight).
THEOREM SemuxBftNeverGoesBack == Spec => NeverGoesBack
<1> DEFINE Forward(n) == \/ height'[n] > height[n]
                         \/ height'[n] = height[n] /\ view'[n] >= view[n]
<1>1. ASSUME Inv, NEW n \in Correct, UNCHANGED <<height, view>>
      PROVE  Forward(n)
    BY <1>1 DEF Inv, TypeOK, Views
<1>2. ASSUME Inv, NEW m \in Correct, NEW n \in Correct, EnterNewHeight(m),
             m = n => height[m] < Len(chain[m]) + 1
      PROVE  Forward(n)
    BY <1>2 DEF Inv, TypeOK, Views, Heights, EnterNewHeight, NextHeight
<1>3. ASSUME Inv, NEW m \in Correct, NEW n \in Correct, NEW w \in Nat, NEW pf, NEW pp,
             Propose(m, w, pf, pp), w >= view[m]
      PROVE  Forward(n)
    BY <1>3 DEF Inv, TypeOK, Views, Propose
<1>4. ASSUME Inv, NEW m \in Correct, NEW n \in Correct, EnterPropose(m)
      PROVE  Forward(n)
    <2>1. view[m] \in Nat /\ view[m] + 1 \in Nat /\ view[m] + 1 >= view[m] /\ view[m] >= view[m]
        BY <1>4 DEF Inv, TypeOK, Views
    <2> HIDE DEF Forward
    <2> QED
        BY <1>3, <1>4, <2>1 DEF EnterPropose
<1>5. ASSUME Inv, NEW m \in Correct, NEW n \in Correct, OnTimeout(m)
      PROVE  Forward(n)
    <2>1. CASE EnterValidate(m) \/ EnterPreCommit(m) \/ EnterCommit(m)
        BY <1>1, <1>5, <2>1 DEF EnterValidate, EnterPreCommit, EnterCommit, EnterPhase, position
    <2>2. CASE EnterFinalize(m, commitVotes[m])
        BY <1>1, <1>5, <2>2 DEF EnterFinalize, StartSync, position
    <2>3. CASE state[m] = "FINALIZE" /\ EnterNewHeight(m)
        <3>1. height[m] = Len(chain[m]) /\ height[m] \in Nat
            BY <1>5, <2>3 DEF OnTimeout, Active, Inv, AtHeight, TypeOK, Heights
        <3>2. height[m] < Len(chain[m]) + 1
            BY <3>1
        <3> HIDE DEF Forward
        <3> QED
            BY <1>2, <1>5, <2>3, <3>2
    <2> HIDE DEF Forward
    <2> QED
        BY <1>4, <1>5, <2>1, <2>2, <2>3 DEF OnTimeout
<1>6. ASSUME Inv, NEW m \in Correct, NEW n \in Correct, OnNewHeight(m) \/ SyncBlock(m)
      PROVE  Forward(n)
    BY <1>1, <1>6 DEF OnNewHeight, SyncBlock, StartSync, position
<1>7. ASSUME Inv, NEW m \in Correct, NEW n \in Correct, OnNewView(m)
      PROVE  Forward(n)
    <2>1. PICK pf \in ProofsFor(m) : pf.view > view[m] /\ JumpToView(m, pf.view, pf, NoProposal)
        BY <1>7 DEF OnNewView
    <2>2. view[m] \in Nat /\ pf.view \in Nat
        <3>1. view[m] \in Nat /\ newViews \subseteq Proof
            BY <1>7 DEF Inv, TypeOK, Views
        <3>2. CASE pf \in newViews
            BY <3>1, <3>2 DEF Proof, Views
        <3>3. CASE \E w \in (view[m] + 1) .. MaxView : pf = ForgedProof(height[m], w)
            BY <3>1, <3>3, BoundAssumption DEF ForgedProof, NewProof
        <3> QED
            BY <2>1, <3>1, <3>2, <3>3 DEF ProofsFor
    <2>3. pf.view >= view[m]
        BY <2>1, <2>2
    <2> HIDE DEF Forward
    <2> QED
        BY <1>3, <1>7, <2>1, <2>2, <2>3 DEF JumpToView
<1>8. ASSUME Inv, NEW m \in Correct, NEW n \in Correct, OnProposal(m)
      PROVE  Forward(n)
    <2>1. PICK p \in ProposalsFor(m) :
             /\ Expects(m, p.proof.view)
             /\ \/ UNCHANGED <<height, view>>
                \/ p.proof.view # view[m] /\ JumpToView(m, p.proof.view, p.proof, p)
        BY <1>8 DEF OnProposal
    <2>2. view[m] \in Nat /\ p.proof.view \in Nat
        <3>1. view[m] \in Nat /\ proposals \subseteq Proposal
            BY <1>8 DEF Inv, TypeOK, Views
        <3>2. CASE p \in proposals
            BY <3>1, <3>2 DEF Proposal, Proof, Views
        <3>3. CASE \E pf \in {NewProof(height[m], 0, {})} \cup
                              {ForgedProof(height[m], w) : w \in 1 .. MaxView} : p.proof = pf
            BY <3>1, <3>3, BoundAssumption DEF ForgedProof, NewProof
        <3> QED
            BY <2>1, <3>1, <3>2, <3>3 DEF ProposalsFor
    <2>3. CASE UNCHANGED <<height, view>>
        BY <1>1, <1>8, <2>3
    <2>4. CASE p.proof.view # view[m] /\ JumpToView(m, p.proof.view, p.proof, p)
        <3>1. p.proof.view >= view[m]
            BY <2>1, <2>2, <2>4 DEF Expects
        <3> HIDE DEF Forward
        <3> QED
            BY <1>3, <1>8, <2>2, <2>4, <3>1 DEF JumpToView
    <2> QED
        BY <2>1, <2>3, <2>4
<1>9. ASSUME Inv, NEW m \in Correct, NEW n \in Correct, OnVote(m)
      PROVE  Forward(n)
    BY <1>1, <1>9 DEF OnVote, EnterFinalize, StartSync, position
<1>10. ASSUME Inv, NEW m \in Correct, NEW n \in Correct, SyncDone(m)
      PROVE  Forward(n)
    <2>1. height[m] < target[m] /\ Len(chain[m]) + 1 >= target[m]
        BY <1>10 DEF Inv, AtHeight, SyncDone
    <2>2. height[m] \in Nat /\ target[m] \in Nat /\ Len(chain[m]) \in Nat
        BY <1>10 DEF Inv, TypeOK, Heights
    <2>3. height[m] < Len(chain[m]) + 1
        BY <2>1, <2>2
    <2> HIDE DEF Forward
    <2> QED
        BY <1>2, <1>10, <2>3 DEF SyncDone
<1>11. ASSUME Inv, NEW m \in Restarting, NEW n \in Correct \ Restarting, Crash(m) \/ Start(m)
      PROVE  Forward(n)
    <2>1. m \in Correct /\ m # n
        BY NodesAssumption DEF Correct
    <2> HIDE DEF Forward
    <2>2. CASE Crash(m)
        BY <1>1, <1>11, <2>2 DEF Crash, position
    <2>3. CASE Start(m)
        BY <1>2, <1>11, <2>1, <2>3 DEF Start
    <2> QED
        BY <1>11, <2>2, <2>3
<1>12. Inv /\ [Next]_vars => [\A n \in Correct \ Restarting : Forward(n)]_vars
    <2> SUFFICES ASSUME Inv, Next, NEW n \in Correct \ Restarting PROVE Forward(n)
        OBVIOUS
    <2> HIDE DEF Forward
    <2> QED
        BY <1>5, <1>6, <1>7, <1>8, <1>9, <1>10, <1>11 DEF Next
<1> QED
    BY <1>12, SpecInv, PTL DEF Spec, NeverGoesBack

-----------------------------------------------------------------------------
\* The block that comes before height h on chain c.
Before(c, h) == IF h = 1 THEN Genesis ELSE c[h - 1].block

\* The blocks of a chain follow each other and carry 2/3 signatures, and what a
\* node validated followed its chain at that height.
ChainedBlocks ==
    \A n \in Correct : \A h \in 1 .. Len(chain[n]) :
        /\ Header[chain[n][h].block].number = h
        /\ Header[chain[n][h].block].parent = Before(chain[n], h)
        /\ CertifiedBlock(h, chain[n][h])

CachedBlocks ==
    \A n \in Correct : \A b \in validBlocks[n] :
        /\ Header[b].number <= Len(chain[n]) + 1
        /\ Header[b].parent = Before(chain[n], Header[b].number)

\* What a step does to the chain and the cache of n.
Grows(n) ==
    /\ \/ chain'[n] = chain[n]
       \/ \E fb \in FinalBlock :
             /\ chain'[n] = Append(chain[n], fb)
             /\ Extends(chain[n], fb.block) /\ CertifiedBlock(Len(chain[n]) + 1, fb)
    /\ \A b \in validBlocks'[n] : b \in validBlocks[n] \/ Extends(chain[n], b)

LEMMA LatestIsBefore ==
    ASSUME NEW c \in Seq(FinalBlock)
    PROVE  Latest(c) = Before(c, Len(c) + 1)
BY EmptySeq DEF Latest, Before

\* CertifiedBlock, with the votes V in circulation.
CertifiedBy(V, h, fb) ==
    /\ fb.votes \subseteq {v.signer : v \in {u \in V \cup FaultyVotes(h, fb.view) :
          /\ u.type = "PRECOMMIT" /\ u.value /\ u.blockHash = fb.block
          /\ u.height = h /\ u.view = fb.view /\ u.signer \in Validators}}
    /\ IsQuorum(fb.votes)

LEMMA CertifiedStays ==
    ASSUME NEW h, NEW fb, NEW V, NEW W, V \subseteq W, CertifiedBy(V, h, fb)
    PROVE  CertifiedBy(W, h, fb)
BY DEF CertifiedBy

\* What enterFinalize adds is certified by the votes it was counted with.
LEMMA FinalizeGrows ==
    ASSUME Inv, CachedBlocks, NEW n \in Correct, NEW m \in Correct, Active(n),
           state[n] # "FINALIZE", NEW cvs, EnterFinalize(n, cvs)
    PROVE  Grows(m)
<1>1. CASE StartSync(n, height[n] + 1)
    BY <1>1 DEF StartSync, Grows
<1>2. ASSUME NEW b \in AnyApproved(precommitVotes[n]) \cap validBlocks[n],
             ApplyBlock(n, b), UNCHANGED validBlocks
      PROVE  Grows(m)
    <2> DEFINE fb == [block |-> b, view |-> view[n], votes |-> GetApprovals(precommitVotes[n], b)]
    <2>1. /\ chain \in [Correct -> Seq(FinalBlock)] /\ Len(chain[n]) \in Nat /\ b \in Blocks
          /\ height[n] = Len(chain[n]) + 1 /\ view[n] \in Views /\ height[n] \in Heights
        BY DEF Inv, TypeOK, AtHeight, Active, AnyApproved
    <2>2. CASE Header[b].number # Len(chain[n]) + 1
        BY <1>2, <2>2 DEF ApplyBlock, Grows
    <2>3. CASE Header[b].number = Len(chain[n]) + 1 /\ m # n
        BY <1>2, <2>1, <2>3 DEF ApplyBlock, Grows
    <2>4. CASE Header[b].number = Len(chain[n]) + 1 /\ m = n
        <3>1. chain'[n] = Append(chain[n], fb)
            BY <1>2, <2>1, <2>4 DEF ApplyBlock
        <3>2. Extends(chain[n], b)
            BY <2>1, <2>4, LatestIsBefore DEF CachedBlocks, Extends
        <3>3. GetApprovals(precommitVotes[n], b)
                  \subseteq PreCommitSigners(height[n], view[n], b)
            BY DEF GetApprovals, PreCommitSigners, Inv, Counted, CountedIn, Signed
        <3>4. PreCommitSigners(height[n], view[n], b) \subseteq Validators
            BY DEF PreCommitSigners
        <3>5. IsQuorum(GetApprovals(precommitVotes[n], b))
            BY DEF AnyApproved
        <3>6. fb \in FinalBlock
            BY <2>1, <3>3, <3>4 DEF FinalBlock
        <3>7. CertifiedBlock(Len(chain[n]) + 1, fb)
            BY <2>1, <3>3, <3>5 DEF CertifiedBlock
        <3>8. fb.block = b
            OBVIOUS
        <3> HIDE DEF fb
        <3> QED
            BY <1>2, <2>4, <3>1, <3>2, <3>6, <3>7, <3>8 DEF Grows
    <2> QED
        BY <2>2, <2>3, <2>4
<1> QED
    BY <1>1, <1>2 DEF EnterFinalize

LEMMA EveryStepGrows ==
    ASSUME Inv, CachedBlocks, [Next]_vars, NEW m \in Correct
    PROVE  Grows(m)
<1>1. ASSUME UNCHANGED <<chain, validBlocks>>
      PROVE  Grows(m)
    BY <1>1 DEF Grows
<1>2. ASSUME NEW n \in Correct, OnTimeout(n)
      PROVE  Grows(m)
    <2>1. CASE EnterPropose(n) \/ EnterPreCommit(n) \/ EnterCommit(n)
               \/ (EnterNewHeight(n) /\ UNCHANGED validBlocks)
        BY <1>1, <2>1 DEF EnterPropose, Propose, EnterPreCommit, CastPreCommit, EnterCommit,
                          EnterPhase, EnterNewHeight
    <2>2. CASE EnterValidate(n)
        <3>1. UNCHANGED chain
            BY <2>2 DEF EnterValidate, EnterPhase
        <3>2. CASE UNCHANGED validBlocks
            BY <1>1, <3>1, <3>2
        <3>3. ASSUME ValidProposal(n, proposal[n]),
                     NEW S \in Cached(validBlocks[n] \cup {proposal[n].block}),
                     validBlocks' = [validBlocks EXCEPT ![n] = S]
              PROVE  Grows(m)
            <4>1. S \subseteq validBlocks[n] \cup {proposal[n].block}
                BY <3>3 DEF Cached
            <4>2. \A b \in validBlocks'[m] : b \in validBlocks[m] \/ Extends(chain[m], b)
                BY <3>3, <4>1 DEF ValidProposal, Inv, TypeOK
            <4> QED
                BY <3>1, <4>2 DEF Grows
        <3> QED
            BY <2>2, <3>2, <3>3 DEF EnterValidate
    <2>3. CASE state[n] = "COMMIT" /\ EnterFinalize(n, commitVotes[n])
        BY <1>2, <2>3, FinalizeGrows DEF OnTimeout
    <2> QED
        BY <1>2, <2>1, <2>2, <2>3 DEF OnTimeout
<1>3. ASSUME NEW n \in Correct, OnNewHeight(n) \/ OnNewView(n) \/ OnProposal(n) \/ SyncDone(n)
      PROVE  Grows(m)
    BY <1>1, <1>3 DEF OnNewHeight, StartSync, OnNewView, OnProposal, JumpToView, Propose,
                      SyncDone, EnterNewHeight
<1>4. ASSUME NEW n \in Correct, OnVote(n)
      PROVE  Grows(m)
    <2>1. \/ UNCHANGED <<chain, validBlocks>>
          \/ \E cvs : state[n] # "FINALIZE" /\ EnterFinalize(n, cvs)
        BY <1>4 DEF OnVote
    <2> QED
        BY <1>1, <1>4, <2>1, FinalizeGrows DEF OnVote
<1>5. ASSUME NEW n \in Correct, SyncBlock(n)
      PROVE  Grows(m)
    <2>1. PICK fb \in BlocksFor(Len(chain[n]) + 1) :
             /\ Extends(chain[n], fb.block) /\ CertifiedBlock(Len(chain[n]) + 1, fb)
             /\ chain' = [chain EXCEPT ![n] = Append(@, fb)]
        BY <1>5 DEF SyncBlock
    <2>2. chain \in [Correct -> Seq(FinalBlock)] /\ UNCHANGED validBlocks
        BY <1>5 DEF Inv, TypeOK, SyncBlock
    <2>3. Len(chain[n]) \in Nat /\ chain[n] \in Seq(FinalBlock)
        BY <2>2
    <2>4. chain' \in [Correct -> Seq(FinalBlock)]
        BY <1>5, SyncBlockStep DEF Inv, TypeOK
    <2>5. CASE m # n
        BY <2>1, <2>2, <2>5 DEF Grows
    <2>6. CASE m = n
        <3>1. chain'[n] = Append(chain[n], fb) /\ chain'[n] \in Seq(FinalBlock)
            BY <2>1, <2>2, <2>4
        <3>2. Len(chain'[n]) = Len(chain[n]) + 1 /\ chain'[n][Len(chain[n]) + 1] = fb
            BY <2>3, <3>1
        <3>3. fb \in FinalBlock
            BY <2>3, <3>1, <3>2, ElementOfSeq
        <3> QED
            BY <2>1, <2>2, <2>6, <3>1, <3>3 DEF Grows
    <2> QED
        BY <2>5, <2>6
<1>6. ASSUME NEW n \in Restarting, Crash(n) \/ Start(n)
      PROVE  Grows(m)
    BY <1>6 DEF Crash, Start, EnterNewHeight, Grows, Inv, TypeOK
<1>7. CASE UNCHANGED vars
    BY <1>1, <1>7 DEF vars
<1> QED
    BY <1>2, <1>3, <1>4, <1>5, <1>6, <1>7 DEF Next

LEMMA ChainedStep ==
    ASSUME Inv, ChainedBlocks, CachedBlocks, [Next]_vars
    PROVE  ChainedBlocks' /\ CachedBlocks'
<1>1. votes \subseteq votes' /\ Inv'
    BY NextInv DEF Effect, Casts, Appends, Quiet
<1>2. ASSUME NEW n \in Correct
      PROVE  /\ \A h \in 1 .. Len(chain'[n]) :
                   /\ Header[chain'[n][h].block].number = h
                   /\ Header[chain'[n][h].block].parent = Before(chain'[n], h)
                   /\ CertifiedBy(votes', h, chain'[n][h])
             /\ \A b \in validBlocks'[n] :
                   /\ Header[b].number <= Len(chain'[n]) + 1
                   /\ Header[b].parent = Before(chain'[n], Header[b].number)
    <2>1. Grows(n)
        BY EveryStepGrows
    <2>2. /\ chain[n] \in Seq(FinalBlock) /\ Len(chain[n]) \in Nat
          /\ validBlocks'[n] \subseteq Blocks
        BY <1>1 DEF Inv, TypeOK
    <2>3. \A b \in Blocks : Header[b].number \in Nat /\ Header[b].number # 0
        BY BlocksAssumption DEF Heights
    <2>4. \A b : Extends(chain[n], b) =>
              /\ Header[b].number = Len(chain[n]) + 1
              /\ Header[b].parent = Before(chain[n], Len(chain[n]) + 1)
        BY <2>2, LatestIsBefore DEF Extends
    <2>5. \A b \in validBlocks'[n] :
              /\ Header[b].number <= Len(chain[n]) + 1
              /\ Header[b].parent = Before(chain[n], Header[b].number)
        BY <2>1, <2>2, <2>3, <2>4 DEF Grows, CachedBlocks
    <2>6. \A h \in 1 .. Len(chain[n]) :
              /\ Header[chain[n][h].block].number = h
              /\ Header[chain[n][h].block].parent = Before(chain[n], h)
              /\ CertifiedBy(votes', h, chain[n][h])
        <3>1. \A h \in 1 .. Len(chain[n]) : CertifiedBy(votes, h, chain[n][h])
            BY DEF ChainedBlocks, CertifiedBlock, CertifiedBy, PreCommitSigners
        <3>2. \A h \in 1 .. Len(chain[n]) : CertifiedBy(votes', h, chain[n][h])
            BY <1>1, <3>1, CertifiedStays
        <3> QED
            BY <3>2 DEF ChainedBlocks
    <2>7. CASE chain'[n] = chain[n]
        BY <2>5, <2>6, <2>7
    <2>8. ASSUME NEW fb \in FinalBlock, chain'[n] = Append(chain[n], fb),
                 Extends(chain[n], fb.block), CertifiedBlock(Len(chain[n]) + 1, fb)
          PROVE  /\ \A h \in 1 .. Len(chain'[n]) :
                       /\ Header[chain'[n][h].block].number = h
                       /\ Header[chain'[n][h].block].parent = Before(chain'[n], h)
                       /\ CertifiedBy(votes', h, chain'[n][h])
                 /\ \A b \in validBlocks'[n] :
                       /\ Header[b].number <= Len(chain'[n]) + 1
                       /\ Header[b].parent = Before(chain'[n], Header[b].number)
        <3> DEFINE l == Len(chain[n])
        <3>1. /\ Len(chain'[n]) = l + 1 /\ chain'[n][l + 1] = fb
              /\ \A i \in 1 .. l : chain'[n][i] = chain[n][i]
            BY <2>2, <2>8, AppendProperties
        <3>2. \A h \in 1 .. (l + 1) : Before(chain'[n], h) = Before(chain[n], h)
            <4>1. ASSUME NEW h \in 1 .. (l + 1), h # 1
                  PROVE  h - 1 \in 1 .. l
                BY <2>2, <4>1
            <4> QED
                BY <3>1, <4>1 DEF Before
        <3>3. CertifiedBy(votes', l + 1, fb)
            <4>1. CertifiedBy(votes, l + 1, fb)
                BY <2>8 DEF CertifiedBlock, CertifiedBy, PreCommitSigners
            <4> QED
                BY <1>1, <4>1, CertifiedStays
        <3>4. ASSUME NEW h \in 1 .. Len(chain'[n])
              PROVE  /\ Header[chain'[n][h].block].number = h
                     /\ Header[chain'[n][h].block].parent = Before(chain'[n], h)
                     /\ CertifiedBy(votes', h, chain'[n][h])
            <4>1. CASE h \in 1 .. l
                <5>1. h \in 1 .. (l + 1)
                    BY <2>2, <4>1
                <5> QED
                    BY <2>6, <3>1, <3>2, <4>1, <5>1
            <4>2. CASE h = l + 1
                <5>1. l + 1 \in 1 .. (l + 1)
                    BY <2>2
                <5> HIDE DEF l
                <5> QED
                    BY <2>4, <2>8, <3>1, <3>2, <3>3, <4>2, <5>1 DEF l
            <4>3. h \in 1 .. l \/ h = l + 1
                BY <2>2, <3>1
            <4> QED
                BY <4>1, <4>2, <4>3
        <3>5. ASSUME NEW b \in validBlocks'[n]
              PROVE  /\ Header[b].number <= Len(chain'[n]) + 1
                     /\ Header[b].parent = Before(chain'[n], Header[b].number)
            <4>1. b \in Blocks /\ Header[b].number \in Nat /\ Header[b].number # 0
                BY <2>2, <2>3
            <4>2. Header[b].number <= l + 1
                BY <2>5
            <4>3. Header[b].number \in 1 .. (l + 1)
                BY <2>2, <4>1, <4>2
            <4>4. Header[b].number <= (l + 1) + 1
                BY <2>2, <4>1, <4>2
            <4> QED
                BY <2>5, <3>1, <3>2, <4>3, <4>4
        <3> QED
            BY <3>4, <3>5
    <2> QED
        BY <2>1, <2>7, <2>8 DEF Grows
<1>3. CachedBlocks'
    BY <1>2 DEF CachedBlocks, Before
<1>4. ChainedBlocks'
    BY <1>2 DEF ChainedBlocks, CertifiedBlock, CertifiedBy, PreCommitSigners, Before
<1> QED
    BY <1>3, <1>4

\* Whatever got on a chain can be synced by any other node: it follows its
\* predecessor and carries 2/3 signatures (enterFinalize, validateBlockVotes).
THEOREM SemuxBftBlocksCertified == Spec => []BlocksCertified
<1>1. Init => ChainedBlocks /\ CachedBlocks
    BY DEF Init, ChainedBlocks, CachedBlocks
<1>2. Inv /\ ChainedBlocks /\ CachedBlocks /\ [Next]_vars
          => ChainedBlocks' /\ CachedBlocks'
    BY ChainedStep
<1>3. Inv /\ ChainedBlocks => BlocksCertified
    <2> SUFFICES ASSUME Inv, ChainedBlocks, NEW n \in Correct, NEW h \in 1 .. Len(chain[n])
                 PROVE  Extends(SubSeq(chain[n], 1, h - 1), chain[n][h].block)
        BY DEF BlocksCertified, ChainedBlocks
    <2> DEFINE c == SubSeq(chain[n], 1, h - 1)
    <2>1. chain[n] \in Seq(FinalBlock) /\ Len(chain[n]) \in Nat
        BY DEF Inv, TypeOK
    <2>2. /\ c \in Seq(FinalBlock) /\ Len(c) = h - 1
          /\ \A i \in 1 .. (h - 1) : c[i] = chain[n][i]
        <3>1. 1 \in Int /\ h - 1 \in Int
            BY <2>1
        <3>2. \A i \in 1 .. (h - 1) : chain[n][i] \in FinalBlock
            BY <2>1, ElementOfSeq
        <3>3. c \in Seq(FinalBlock)
            BY <3>1, <3>2, SubSeqProperties
        <3>4. Len(c) = IF 1 <= h - 1 THEN (h - 1) - 1 + 1 ELSE 0
            BY <3>1, <3>2, SubSeqProperties
        <3>5. \A i \in 1 .. (h - 1) - 1 + 1 : c[i] = chain[n][1 + i - 1]
            BY <3>1, <3>2, SubSeqProperties
        <3> HIDE DEF c
        <3> QED
            BY <2>1, <3>3, <3>4, <3>5
    <2> HIDE DEF c
    <2>3. Latest(c) = Before(chain[n], h)
        <3>1. Latest(c) = Before(c, h)
            <4>1. Len(c) + 1 = h
                BY <2>1, <2>2
            <4> QED
                BY <2>2, <4>1, LatestIsBefore
        <3>2. h # 1 => h - 1 \in 1 .. (h - 1)
            BY <2>1
        <3> QED
            BY <2>2, <3>1, <3>2 DEF Before
    <2>4. Extends(c, chain[n][h].block)
        BY <2>1, <2>2, <2>3 DEF ChainedBlocks, Extends
    <2> QED
        BY <2>4 DEF c
<1> QED
    BY <1>1, <1>2, <1>3, SpecInv, PTL DEF Spec
=============================================================================
