------------------------------- MODULE SemuxBft -------------------------------
(***************************************************************************)
(* The Semux BFT consensus engine (consensus/SemuxBft.java): every correct *)
(* node runs the event loop below, one handler per step.                   *)
(*                                                                         *)
(* Votes, proposals and proofs-of-unlock that were ever sent stay in       *)
(* circulation, so a message may arrive late, twice, out of order or       *)
(* never; a message dropped by clearTimerAndEvents is one that is not      *)
(* received.  The timer and its queued TIMEOUT event are one flag: every   *)
(* handler that rearms the timer also discards a TIMEOUT that is queued.   *)
(***************************************************************************)
EXTENDS VoteSet, Sequences

CONSTANTS
    Genesis,         \* the block before height 1
    Header,          \* Header[b]: number, parent and coinbase of block b
    Sound,           \* blocks whose transactions and results validate
    Skewed,          \* nodes whose clock may put a proposal in the future
    Primary(_, _),   \* Config.getPrimaryValidator(validators, height, view)
    NoProposal,      \* null
    Delivers(_, _),  \* Delivers(v, n): vote v may reach n in time
    Hears(_, _),     \* Hears(n, w): proposals and proofs of view w may reach n
    ValidBlocksMax,  \* capacity of the cache of validated blocks
    MaxHeight,       \* bound: heights that are voted on
    MaxView          \* bound: views of a height

ASSUME BlocksAssumption ==
    /\ Genesis \notin Blocks
    /\ \A b \in Blocks :
          Header[b] \in [number: Heights, parent: Blocks \cup {Genesis},
                         coinbase: Nodes]
    /\ Sound \subseteq Blocks

ASSUME BoundAssumption ==
    ValidBlocksMax \in Nat \ {0} /\ MaxHeight \in Nat /\ MaxView \in Nat

States == {"NEW_HEIGHT", "PROPOSE", "VALIDATE", "PRE_COMMIT", "COMMIT", "FINALIZE"}
Statuses == {"STOPPED", "RUNNING", "SYNCING"}

Proof == [height: Heights, view: Views, votes: SUBSET Vote]
NewProof(h, w, V) == [height |-> h, view |-> w, votes |-> V]

Proposal == [proof: Proof, block: Blocks, signer: Nodes]

\* A block of the chain with the view it was approved in and the approvals.
FinalBlock == [block: Blocks, view: Views, votes: SUBSET Validators]

ASSUME NoProposalAssumption == NoProposal \notin Proposal

VARIABLES
    chain,           \* chain[n]: the blocks n has added, oldest first (on disk)
    status, state, height, view, proof, proposal,
    validateVotes, precommitVotes, commitVotes,
    validBlocks,     \* the cache of validated blocks
    timer,           \* a timeout is pending or its event is queued
    target,          \* the height sync.start was called with
    votes, proposals, newViews   \* in circulation, from correct nodes

voteSets == <<validateVotes, precommitVotes, commitVotes>>
position == <<height, view, proof, proposal>>
network == <<votes, proposals, newViews>>
vars == <<chain, status, state, position, voteSets, validBlocks, timer, target,
          network>>

Latest(c) == IF c = <<>> THEN Genesis ELSE c[Len(c)].block

\* Block.validateHeader, with the checks that need no clock.
Extends(c, b) == Header[b].number = Len(c) + 1 /\ Header[b].parent = Latest(c)

Active(n) == status[n] = "RUNNING" /\ height[n] <= MaxHeight

\* Mutant: the votes of the previous height or view are kept.
KeepVotes(n, h, w) == UNCHANGED voteSets

ClearVotes(n, h, w) ==
    /\ validateVotes' = [validateVotes EXCEPT ![n] = EmptyVoteSet("VALIDATE", h, w)]
    /\ precommitVotes' = [precommitVotes EXCEPT ![n] = EmptyVoteSet("PRECOMMIT", h, w)]
    /\ commitVotes' = [commitVotes EXCEPT ![n] = EmptyVoteSet("COMMIT", h, w)]

\* Mutant: the height of the latest block, not the next one.
LatestHeight(n) == Len(chain[n])

NextHeight(n) == Len(chain[n]) + 1

\* Only the elected validators arm the timer; observers wait for messages.
EnterNewHeight(n) ==
    LET h == NextHeight(n) IN
    /\ state' = [state EXCEPT ![n] = "NEW_HEIGHT"]
    /\ height' = [height EXCEPT ![n] = h]
    /\ view' = [view EXCEPT ![n] = 0]
    /\ proof' = [proof EXCEPT ![n] = NewProof(h, 0, {})]
    /\ proposal' = [proposal EXCEPT ![n] = NoProposal]
    /\ ClearVotes(n, h, 0)
    /\ timer' = [timer EXCEPT ![n] = n \in Validators]
    /\ status' = [status EXCEPT ![n] = "RUNNING"]
    /\ UNCHANGED <<chain, target, network>>

StartSync(n, t) ==
    /\ status' = [status EXCEPT ![n] = "SYNCING"]
    /\ target' = [target EXCEPT ![n] = t]
    /\ timer' = [timer EXCEPT ![n] = FALSE]
    /\ ClearVotes(n, height[n], view[n])
    /\ UNCHANGED <<chain, position, validBlocks, network>>

\* The end of enterPropose, in view w with proof pf and proposal pp.  A primary
\* that holds no proposal forges a block on its latest one; the transactions
\* and results come from the pending manager and may not validate.
Propose(n, w, pf, pp) ==
    /\ state' = [state EXCEPT ![n] = "PROPOSE"]
    /\ timer' = [timer EXCEPT ![n] = TRUE]
    /\ view' = [view EXCEPT ![n] = w]
    /\ proof' = [proof EXCEPT ![n] = pf]
    /\ newViews' = newViews \cup {pf}
    /\ \/ /\ Primary(height[n], w) # n
          /\ proposal' = [proposal EXCEPT ![n] = pp]
          /\ UNCHANGED proposals
       \/ /\ Primary(height[n], w) = n
          /\ \E p \in IF pp # NoProposal THEN {pp}
                      ELSE {[proof |-> pf, block |-> b, signer |-> n] :
                              b \in {c \in Blocks : Extends(chain[n], c)
                                                   /\ Header[c].coinbase = n}} :
                /\ proposal' = [proposal EXCEPT ![n] = p]
                /\ proposals' = proposals \cup {p}
    /\ UNCHANGED <<chain, status, height, validBlocks, target, votes>>

JumpToView(n, w, pf, pp) == Propose(n, w, pf, pp) /\ ClearVotes(n, height[n], w)

\* Mutant: the proposal of the rejected view is kept.
EnterProposeKeepingProposal(n) ==
    \/ /\ IsRejected(precommitVotes[n])
       /\ view[n] < MaxView
       /\ Propose(n, view[n] + 1,
                  NewProof(height[n], view[n] + 1, GetRejections(precommitVotes[n])),
                  proposal[n])
       /\ ClearVotes(n, height[n], view[n] + 1)
    \/ /\ ~IsRejected(precommitVotes[n])
       /\ Propose(n, view[n], proof[n], proposal[n])
       /\ UNCHANGED voteSets

EnterPropose(n) ==
    \/ /\ IsRejected(precommitVotes[n])
       /\ view[n] < MaxView
       /\ Propose(n, view[n] + 1,
                  NewProof(height[n], view[n] + 1, GetRejections(precommitVotes[n])),
                  NoProposal)
       /\ ClearVotes(n, height[n], view[n] + 1)
    \/ /\ ~IsRejected(precommitVotes[n])
       /\ Propose(n, view[n], proof[n], proposal[n])
       /\ UNCHANGED voteSets

\* SemuxBft.validateBlock, but for the clock.
ValidProposal(n, p) ==
    /\ Extends(chain[n], p.block)
    /\ Header[p.block].coinbase = p.signer
    /\ p.block \in Sound

\* The cache keeps ValidBlocksMax entries, not necessarily the newest.
Cached(S) ==
    IF Cardinality(S) <= ValidBlocksMax THEN {S}
    ELSE {T \in SUBSET S : Cardinality(T) = ValidBlocksMax}

Broadcast(v) == votes' = votes \cup {v} /\ UNCHANGED <<proposals, newViews>>

\* state, timer and what every voting phase leaves alone.
EnterPhase(n, s) ==
    /\ state' = [state EXCEPT ![n] = s]
    /\ timer' = [timer EXCEPT ![n] = TRUE]
    /\ UNCHANGED <<chain, status, position, target>>

CastValidate(n, v) ==
    /\ validateVotes' = [validateVotes EXCEPT ![n] = AddVote(@, v)]
    /\ Broadcast(v)
    /\ UNCHANGED <<precommitVotes, commitVotes>>

EnterValidate(n) ==
    /\ EnterPhase(n, "VALIDATE")
    /\ \/ /\ proposal[n] # NoProposal
          /\ ValidProposal(n, proposal[n])
          /\ \E S \in Cached(validBlocks[n] \cup {proposal[n].block}) :
                validBlocks' = [validBlocks EXCEPT ![n] = S]
          /\ CastValidate(n, NewApprove("VALIDATE", height[n], view[n],
                                        proposal[n].block, n))
       \/ /\ proposal[n] # NoProposal /\ ValidProposal(n, proposal[n]) => n \in Skewed
          /\ CastValidate(n, NewReject("VALIDATE", height[n], view[n], n))
          /\ UNCHANGED validBlocks

CastPreCommit(n, v) ==
    /\ precommitVotes' = [precommitVotes EXCEPT ![n] = AddVote(@, v)]
    /\ Broadcast(v)
    /\ UNCHANGED <<validateVotes, commitVotes, validBlocks>>

\* Mutant: the node approves the block it validated, whatever the others say.
EnterPreCommitOwn(n) ==
    /\ EnterPhase(n, "PRE_COMMIT")
    /\ \/ \E b \in validBlocks[n] :
             CastPreCommit(n, NewApprove("PRECOMMIT", height[n], view[n], b, n))
       \/ /\ validBlocks[n] = {}
          /\ CastPreCommit(n, NewReject("PRECOMMIT", height[n], view[n], n))

EnterPreCommit(n) ==
    /\ EnterPhase(n, "PRE_COMMIT")
    /\ \/ \E b \in AnyApproved(validateVotes[n]) :
             CastPreCommit(n, NewApprove("PRECOMMIT", height[n], view[n], b, n))
       \/ /\ AnyApproved(validateVotes[n]) = {}
          /\ CastPreCommit(n, NewReject("PRECOMMIT", height[n], view[n], n))

\* The exception of enterCommit is the empty choice of b.
EnterCommit(n) ==
    /\ EnterPhase(n, "COMMIT")
    /\ \E b \in AnyApproved(precommitVotes[n]) :
          LET v == NewApprove("COMMIT", height[n], view[n], b, n) IN
          /\ commitVotes' = [commitVotes EXCEPT ![n] = AddVote(@, v)]
          /\ Broadcast(v)
    /\ UNCHANGED <<validateVotes, precommitVotes, validBlocks>>

\* Mutant: the block is stored with the COMMIT votes.
ApplyBlockWithCommitVotes(n, b) ==
    chain' = IF Header[b].number # Len(chain[n]) + 1 THEN chain
             ELSE [chain EXCEPT ![n] =
                     Append(@, [block |-> b, view |-> view[n],
                                votes |-> GetApprovals(commitVotes[n], b)])]

\* applyBlock throws for a block of another height and leaves the chain alone.
ApplyBlock(n, b) ==
    chain' = IF Header[b].number # Len(chain[n]) + 1 THEN chain
             ELSE [chain EXCEPT ![n] =
                     Append(@, [block |-> b, view |-> view[n],
                                votes |-> GetApprovals(precommitVotes[n], b)])]

\* cvs: the commit votes of n, with the one that brought it here.
EnterFinalize(n, cvs) ==
    LET approved == AnyApproved(precommitVotes[n]) IN
    /\ state' = [state EXCEPT ![n] = "FINALIZE"]
    /\ \/ /\ \E b \in approved \cap validBlocks[n] : ApplyBlock(n, b)
          /\ timer' = [timer EXCEPT ![n] = TRUE]
          /\ commitVotes' = [commitVotes EXCEPT ![n] = cvs]
          /\ UNCHANGED <<status, position, validateVotes, precommitVotes,
                         validBlocks, target, network>>
       \/ /\ approved = {} \/ approved \ validBlocks[n] # {}
          /\ StartSync(n, height[n] + 1)

OnTimeout(n) ==
    /\ Active(n)
    /\ timer[n]
    /\ \/ state[n] = "NEW_HEIGHT" /\ EnterPropose(n)
       \/ state[n] = "PROPOSE" /\ EnterValidate(n)
       \/ state[n] = "VALIDATE" /\ EnterPreCommit(n)
       \/ /\ state[n] = "PRE_COMMIT"
          /\ IF AnyApproved(precommitVotes[n]) # {} THEN EnterCommit(n)
             ELSE EnterPropose(n)
       \/ state[n] = "COMMIT" /\ EnterFinalize(n, commitVotes[n])
       \/ state[n] = "FINALIZE" /\ EnterNewHeight(n) /\ UNCHANGED validBlocks

\* The sync target is the height that 2/3 of the connected validators have not
\* passed, counted from the lowest: t is possible if more than a third of them
\* may have announced t.  Correct nodes announce heights they have reached.
MayTarget(n, t) ==
    \E S \in SUBSET (Validators \ {n}) :
        LET limit == (2 * Cardinality(S)) \div 3 IN
        /\ limit > 0
        /\ Cardinality({m \in S : m \in Faulty \/ height[m] >= t})
               > Cardinality(S) - limit

OnNewHeight(n) ==
    /\ Active(n)
    /\ state[n] # "FINALIZE"
    /\ \E t \in (height[n] + 1) .. (MaxHeight + 1) :
          MayTarget(n, t) /\ StartSync(n, t)
    /\ UNCHANGED state

\* The best proof a faulty node can assemble that view w is unlocked.
ForgedProof(h, w) ==
    NewProof(h, w, {v \in votes \cup FaultyVotes(h, w - 1) :
                      v.type = "PRECOMMIT" /\ ~v.value
                      /\ v.height = h /\ v.view = w - 1})

\* Mutant: the proof-of-unlock is taken on trust.
UnlocksUnchecked(pf) == pf.view > 0

Unlocks(pf) ==
    IsRejected(AddVotes(EmptyVoteSet("PRECOMMIT", pf.height, pf.view - 1), pf.votes))

ProofsFor(n) ==
    newViews \cup
        {ForgedProof(height[n], w) : w \in IF Faulty = {} THEN {}
                                           ELSE (view[n] + 1) .. MaxView}

OnNewView(n) ==
    /\ Active(n)
    /\ \E pf \in ProofsFor(n) :
          /\ pf.height = height[n]
          /\ pf.view > view[n]
          /\ state[n] \notin {"COMMIT", "FINALIZE"}
          /\ Hears(n, pf.view)
          /\ Unlocks(pf)
          /\ JumpToView(n, pf.view, pf, NoProposal)

ProposalsFor(n) ==
    proposals \cup
        {[proof |-> pf, block |-> b, signer |-> m] :
            pf \in {NewProof(height[n], 0, {})} \cup
                     {ForgedProof(height[n], w) : w \in 1 .. MaxView},
            b \in {c \in Blocks : Header[c].number = height[n]},
            m \in Faulty}

\* Mutant: a proposal of an earlier view is taken for one of a later view.
ExpectsAnyView(n, w) ==
    \/ w = view[n] /\ proposal[n] = NoProposal /\ state[n] \in {"NEW_HEIGHT", "PROPOSE"}
    \/ w # view[n] /\ state[n] \notin {"COMMIT", "FINALIZE"}

\* Mutant: a second proposal replaces the first.
ExpectsAgain(n, w) ==
    \/ w = view[n] /\ state[n] \in {"NEW_HEIGHT", "PROPOSE"}
    \/ w > view[n] /\ state[n] \notin {"COMMIT", "FINALIZE"}

\* The states in which n takes a proposal of view w.
Expects(n, w) ==
    \/ w = view[n] /\ proposal[n] = NoProposal /\ state[n] \in {"NEW_HEIGHT", "PROPOSE"}
    \/ w > view[n] /\ state[n] \notin {"COMMIT", "FINALIZE"}

OnProposal(n) ==
    /\ Active(n)
    /\ \E p \in ProposalsFor(n) :
          /\ Hears(n, p.proof.view)
          /\ p.proof.height = height[n]
          /\ Expects(n, p.proof.view)
          /\ p.signer = Primary(p.proof.height, p.proof.view)
          /\ IF p.proof.view = 0 THEN p.proof.votes = {} ELSE Unlocks(p.proof)
          /\ \/ /\ p.proof.view = view[n]
                /\ proposal' = [proposal EXCEPT ![n] = p]
                /\ UNCHANGED <<chain, status, state, height, view, proof, voteSets,
                               validBlocks, timer, target, network>>
             \/ /\ p.proof.view # view[n]
                /\ JumpToView(n, p.proof.view, p.proof, p)

\* Votes that add nothing are answered like the others: a COMMIT vote finalizes
\* whenever 2/3 of the commit votes are there.
OnVote(n) ==
    /\ Active(n)
    /\ \E v \in votes \cup FaultyVotes(height[n], view[n]) :
          /\ v.height = height[n]
          /\ v.view = view[n]
          /\ v.signer \in Validators
          /\ Delivers(v, n)
          /\ \/ /\ v.type = "VALIDATE"
                /\ validateVotes' = [validateVotes EXCEPT ![n] = AddVote(@, v)]
                /\ UNCHANGED <<chain, status, state, position, precommitVotes,
                               commitVotes, validBlocks, timer, target, network>>
             \/ /\ v.type = "PRECOMMIT"
                /\ precommitVotes' = [precommitVotes EXCEPT ![n] = AddVote(@, v)]
                /\ UNCHANGED <<chain, status, state, position, validateVotes,
                               commitVotes, validBlocks, timer, target, network>>
             \/ /\ v.type = "COMMIT"
                /\ LET cvs == AddVote(commitVotes[n], v) IN
                   IF AnyApproved(cvs) # {} /\ state[n] # "FINALIZE"
                   THEN EnterFinalize(n, cvs)
                   ELSE /\ commitVotes' = [commitVotes EXCEPT ![n] = cvs]
                        /\ UNCHANGED <<chain, status, state, position, validateVotes,
                                       precommitVotes, validBlocks, timer, target,
                                       network>>

\* The signatures in circulation on the PRECOMMIT approval of b.
PreCommitSigners(h, w, b) ==
    {v.signer : v \in {u \in votes \cup FaultyVotes(h, w) :
        /\ u.type = "PRECOMMIT" /\ u.value /\ u.blockHash = b
        /\ u.height = h /\ u.view = w /\ u.signer \in Validators}}

\* SemuxSync.validateBlockVotes for the block after h - 1 others.
CertifiedBlock(h, fb) ==
    /\ fb.votes \subseteq PreCommitSigners(h, fb.view, fb.block)
    /\ IsQuorum(fb.votes)

\* What a peer may answer to GET_BLOCK h.
BlocksFor(h) ==
    {chain[m][h] : m \in {k \in Correct : Len(chain[k]) >= h}} \cup
        {[block |-> b, view |-> w, votes |-> PreCommitSigners(h, w, b)] :
            b \in Blocks, w \in IF Faulty = {} THEN {} ELSE 0 .. MaxView}

SyncBlock(n) ==
    /\ status[n] = "SYNCING"
    /\ Len(chain[n]) + 1 < target[n]
    /\ \E fb \in BlocksFor(Len(chain[n]) + 1) :
          /\ Extends(chain[n], fb.block)
          /\ fb.block \in Sound
          /\ CertifiedBlock(Len(chain[n]) + 1, fb)
          /\ chain' = [chain EXCEPT ![n] = Append(@, fb)]
    /\ UNCHANGED <<status, state, position, voteSets, validBlocks, timer, target,
                   network>>

SyncDone(n) ==
    /\ status[n] = "SYNCING"
    /\ Len(chain[n]) + 1 >= target[n]
    /\ EnterNewHeight(n)
    /\ UNCHANGED validBlocks

\* The process ends; the chain is on disk.
Crash(n) ==
    /\ status[n] # "STOPPED"
    /\ status' = [status EXCEPT ![n] = "STOPPED"]
    /\ UNCHANGED <<chain, state, position, voteSets, validBlocks, timer, target,
                   network>>

Start(n) ==
    /\ status[n] = "STOPPED"
    /\ validBlocks' = [validBlocks EXCEPT ![n] = {}]
    /\ EnterNewHeight(n)

\* Every correct node has just been started on the genesis block.
Init ==
    /\ chain = [n \in Correct |-> <<>>]
    /\ status = [n \in Correct |-> "RUNNING"]
    /\ state = [n \in Correct |-> "NEW_HEIGHT"]
    /\ height = [n \in Correct |-> 1]
    /\ view = [n \in Correct |-> 0]
    /\ proof = [n \in Correct |-> NewProof(1, 0, {})]
    /\ proposal = [n \in Correct |-> NoProposal]
    /\ validateVotes = [n \in Correct |-> EmptyVoteSet("VALIDATE", 1, 0)]
    /\ precommitVotes = [n \in Correct |-> EmptyVoteSet("PRECOMMIT", 1, 0)]
    /\ commitVotes = [n \in Correct |-> EmptyVoteSet("COMMIT", 1, 0)]
    /\ validBlocks = [n \in Correct |-> {}]
    /\ timer = [n \in Correct |-> n \in Validators]
    /\ target = [n \in Correct |-> 1]
    /\ votes = {} /\ proposals = {} /\ newViews = {}

Next ==
    \/ \E n \in Correct :
          \/ OnTimeout(n)
          \/ OnNewHeight(n)
          \/ OnNewView(n)
          \/ OnProposal(n)
          \/ OnVote(n)
          \/ SyncBlock(n)
          \/ SyncDone(n)
    \/ \E n \in Restarting : Crash(n) \/ Start(n)

Spec == Init /\ [][Next]_vars
-----------------------------------------------------------------------------
\* Every variable holds a value of its kind.
TypeOK ==
    /\ chain \in [Correct -> Seq(FinalBlock)]
    /\ status \in [Correct -> Statuses]
    /\ state \in [Correct -> States]
    /\ height \in [Correct -> Heights]
    /\ view \in [Correct -> Views]
    /\ proof \in [Correct -> Proof]
    /\ proposal \in [Correct -> Proposal \cup {NoProposal}]
    /\ validateVotes \in [Correct -> VoteSets]
    /\ precommitVotes \in [Correct -> VoteSets]
    /\ commitVotes \in [Correct -> VoteSets]
    /\ validBlocks \in [Correct -> SUBSET Blocks]
    /\ timer \in [Correct -> BOOLEAN]
    /\ target \in [Correct -> Heights]
    /\ votes \subseteq Vote
    /\ proposals \subseteq Proposal
    /\ newViews \subseteq Proof

\* The proposal and the votes a node holds are those of the height and view it
\* is in, whatever was cleared and jumped over (jumpToView, enterNewHeight).
HoldsCurrent ==
    \A n \in Correct :
        /\ proposal[n] # NoProposal =>
              /\ proposal[n].proof.height = height[n]
              /\ proposal[n].proof.view = view[n]
              /\ proposal[n].signer = Primary(height[n], view[n])
        /\ proof[n].height = height[n] /\ proof[n].view = view[n]
        /\ \A vs \in {validateVotes[n], precommitVotes[n], commitVotes[n]} :
              \A v \in vs.votes : v.height = height[n] /\ v.view = view[n]

\* A block that reached some chain can be synced by any other node: it follows
\* its predecessor and carries 2/3 valid signatures (SemuxSync.validateBlock
\* accepts what SemuxBft.enterFinalize and applyBlock stored).
BlocksCertified ==
    \A n \in Correct : \A h \in 1 .. Len(chain[n]) :
        /\ Extends(SubSeq(chain[n], 1, h - 1), chain[n][h].block)
        /\ CertifiedBlock(h, chain[n][h])

\* applyBlock never meets a block of another height ("Applying wrong block"):
\* an approved block that is cached fits on the chain, until it is added.
NoWrongBlock ==
    \A n \in Correct : \A b \in AnyApproved(precommitVotes[n]) \cap validBlocks[n] :
        Header[b].number = height[n]

\* While it votes on a height, a node has not yet added that height; it is one
\* ahead of its chain, and behind it only in FINALIZE or while syncing.
HeightFollowsChain ==
    \A n \in Correct :
        status[n] = "RUNNING" =>
            \/ height[n] = Len(chain[n]) + 1
            \/ state[n] = "FINALIZE" /\ height[n] = Len(chain[n])

\* What reliable validators have voted and what correct nodes have finalized.
ReliableVotes == {v \in votes : v.signer \in Reliable}

Finalized ==
    UNION {{<<h, chain[n][h].view, chain[n][h].block>> : h \in 1 .. Len(chain[n])} :
              n \in Correct}

Voting == INSTANCE BftVoting WITH votes <- ReliableVotes, decided <- Finalized

\* The event loops together keep the voting rules of BftVoting.
FollowsVotingRules == Voting!Spec

\* Whatever messages arrive, a node that does not lose its memory never goes
\* back to an earlier height or view (onNewView, onProposal, enterNewHeight).
NeverGoesBack ==
    [][\A n \in Correct \ Restarting :
          \/ height'[n] > height[n]
          \/ height'[n] = height[n] /\ view'[n] >= view[n]]_vars

\* A node is in a later view only if every earlier view of its height can be
\* proved rejected, whoever told it to move on (onNewView, onProposal).
ViewsUnlocked ==
    \A n \in Correct : \A u \in 0 .. (view[n] - 1) : Voting!Rejectable(height[n], u)

\* A reliable validator rejected in PRE_COMMIT, went back to PROPOSE in the same
\* view and approved a block the second time.
Revoted(h, w) ==
    \E s \in Reliable, b \in Blocks :
        /\ NewReject("PRECOMMIT", h, w, s) \in votes
        /\ NewApprove("PRECOMMIT", h, w, b, s) \in votes

\* Two chains differ at a height only if a reliable validator voted both ways in
\* the earlier of the two views the blocks were approved in.
AgreementUnlessRevoted ==
    \A m, n \in Correct : \A h \in 1 .. Len(chain[m]) :
        /\ h <= Len(chain[n])
        /\ chain[m][h].view <= chain[n][h].view
        /\ chain[m][h].block # chain[n][h].block
        => Revoted(h, chain[m][h].view)

\* Byzantine fault tolerance, read as agreement: no two correct nodes add
\* different blocks at one height.
Agreement ==
    \A m, n \in Correct :
        \A h \in 1 .. Len(chain[m]) :
            h <= Len(chain[n]) => chain[m][h].block = chain[n][h].block
=============================================================================
