--------------------------- MODULE BftVotingProofs ---------------------------
(***************************************************************************)
(* What the voting rules of BftVoting promise for every number of          *)
(* validators, heights and views.                                          *)
(***************************************************************************)
EXTENDS BftVoting, VoteSetProofs

\* A reliable validator approves one proposal of a view (onProposal, and
\* enterValidate after it).
OneValidation ==
    \A s \in Reliable, h \in Heights, w \in Views, b, c \in Blocks :
        /\ NewApprove("VALIDATE", h, w, b, s) \in votes
        /\ NewApprove("VALIDATE", h, w, c, s) \in votes
        => b = c

\* It approves in PRE_COMMIT what 2/3 validated (enterPreCommit).
PreCommitsBacked ==
    \A s \in Reliable, h \in Heights, w \in Views, b \in Blocks :
        NewApprove("PRECOMMIT", h, w, b, s) \in votes
            => Approvable("VALIDATE", h, w, b)

\* A node finalizes what 2/3 approved in PRE_COMMIT (enterFinalize).
DecisionsBacked ==
    \A d \in decided : Approvable("PRECOMMIT", d[1], d[2], d[3])

Inv == TypeOK /\ OneValidation /\ PreCommitsBacked /\ DecisionsBacked /\ UnlockedViews

-----------------------------------------------------------------------------
\* Votes are never taken back, so neither is what they prove.
LEMMA Monotonic ==
    ASSUME votes \subseteq votes', NEW t, NEW h, NEW w, NEW b
    PROVE  /\ Approvable(t, h, w, b) => Approvable(t, h, w, b)'
           /\ Rejectable(h, w) => Rejectable(h, w)'
<1>1. Approvers(t, h, w, b) \subseteq Approvers(t, h, w, b)'
    BY DEF Approvers
<1>2. Approvers(t, h, w, b)' \subseteq Validators
    BY DEF Approvers
<1>3. Rejecters(h, w) \subseteq Rejecters(h, w)'
    BY DEF Rejecters
<1>4. Rejecters(h, w)' \subseteq Validators
    BY DEF Rejecters
<1>5. Approvable(t, h, w, b) => Approvable(t, h, w, b)'
    BY <1>1, <1>2, QuorumMonotonic DEF Approvable
<1>6. Rejectable(h, w) => Rejectable(h, w)'
    BY <1>3, <1>4, QuorumMonotonic DEF Rejectable
<1> QED
    BY <1>5, <1>6

\* What can be proved approved was approved by a reliable validator, and two
\* such facts of one height and view share one.
LEMMA ReliableApproval ==
    ASSUME NEW t, NEW h, NEW w, NEW b, Approvable(t, h, w, b)
    PROVE  \E s \in Reliable : NewApprove(t, h, w, b, s) \in votes
BY QuorumHasReliable DEF Approvable, Approvers

LEMMA ReliableRejection ==
    ASSUME NEW h, NEW w, Rejectable(h, w)
    PROVE  \E s \in Reliable : NewReject("PRECOMMIT", h, w, s) \in votes
BY QuorumHasReliable DEF Rejectable, Rejecters

LEMMA SharedApproval ==
    ASSUME NEW t, NEW h, NEW w, NEW b, NEW c,
           Approvable(t, h, w, b), Approvable(t, h, w, c)
    PROVE  \E s \in Reliable : /\ NewApprove(t, h, w, b, s) \in votes
                               /\ NewApprove(t, h, w, c, s) \in votes
<1>1. PICK s \in Reliable : s \in Approvers(t, h, w, b) /\ s \in Approvers(t, h, w, c)
    <2>1. /\ Approvers(t, h, w, b) \in SUBSET Validators
          /\ Approvers(t, h, w, c) \in SUBSET Validators
        BY DEF Approvers
    <2> QED
        BY <2>1, QuorumsShareReliable DEF Approvable
<1> QED
    BY <1>1 DEF Approvers

LEMMA ApprovedAndRejected ==
    ASSUME NEW h, NEW w, NEW b,
           Approvable("PRECOMMIT", h, w, b), Rejectable(h, w)
    PROVE  \E s \in Reliable : /\ NewApprove("PRECOMMIT", h, w, b, s) \in votes
                               /\ NewReject("PRECOMMIT", h, w, s) \in votes
<1>1. PICK s \in Reliable :
          s \in Approvers("PRECOMMIT", h, w, b) /\ s \in Rejecters(h, w)
    <2>1. /\ Approvers("PRECOMMIT", h, w, b) \in SUBSET Validators
          /\ Rejecters(h, w) \in SUBSET Validators
        BY DEF Approvers, Rejecters
    <2> QED
        BY <2>1, QuorumsShareReliable DEF Approvable, Rejectable
<1> QED
    BY <1>1 DEF Approvers, Rejecters

\* The invariant leaves one approvable block per view.
LEMMA OneApprovable ==
    ASSUME OneValidation, PreCommitsBacked,
           NEW h \in Heights, NEW w \in Views, NEW b \in Blocks, NEW c \in Blocks,
           Approvable("PRECOMMIT", h, w, b), Approvable("PRECOMMIT", h, w, c)
    PROVE  b = c
<1>1. Approvable("VALIDATE", h, w, b) /\ Approvable("VALIDATE", h, w, c)
    BY ReliableApproval DEF PreCommitsBacked
<1> QED
    BY <1>1, SharedApproval DEF OneValidation

\* Whoever reaches a view can unlock all earlier ones: the last rejection was
\* cast by a reliable validator that had itself reached that view.
LEMMA ReachedIsUnlocked ==
    ASSUME UnlockedViews, NEW h \in Heights, NEW w \in Views, Reached(h, w)
    PROVE  Unlocked(h, w)
<1>1. CASE w = 0
    BY <1>1 DEF Unlocked
<1>2. CASE w # 0
    <2>1. Rejectable(h, w - 1)
        BY <1>2 DEF Reached
    <2>2. PICK s \in Reliable : NewReject("PRECOMMIT", h, w - 1, s) \in votes
        BY <2>1, ReliableRejection
    <2>3. Unlocked(h, w - 1)
        BY <2>2 DEF UnlockedViews, NewReject
    <2>4. \A u \in 0 .. (w - 1) : u = w - 1 \/ u \in 0 .. ((w - 1) - 1)
        BY DEF Views
    <2> QED
        BY <2>1, <2>3, <2>4 DEF Unlocked
<1> QED
    BY <1>1, <1>2

-----------------------------------------------------------------------------
\* The initial votes and decisions satisfy the invariant.
LEMMA InitInv == Init => Inv
BY DEF Init, Inv, TypeOK, OneValidation, PreCommitsBacked, DecisionsBacked, UnlockedViews

\* Casting one more vote keeps what was decided backed and unlocked.
LEMMA CastKeeps ==
    ASSUME Inv, NEW v \in Vote, Unlocked(v.height, v.view),
           votes' = votes \cup {v}, UNCHANGED decided
    PROVE  TypeOK' /\ DecisionsBacked' /\ UnlockedViews'
<1>1. votes \subseteq votes'
    OBVIOUS
<1>2. TypeOK'
    BY DEF Inv, TypeOK
<1>3. DecisionsBacked'
    BY <1>1, Monotonic DEF Inv, DecisionsBacked
<1>4. ASSUME NEW h, NEW w, Unlocked(h, w)
      PROVE  Unlocked(h, w)'
    BY <1>1, <1>4, Monotonic DEF Unlocked
<1>5. UnlockedViews'
    BY <1>4 DEF Inv, UnlockedViews
<1> QED
    BY <1>2, <1>3, <1>5

\* A PRECOMMIT approval that was cast before stays backed.
LEMMA CastKeepsBacked ==
    ASSUME Inv, NEW v, votes' = votes \cup {v},
           \A s \in Reliable, h \in Heights, w \in Views, b \in Blocks :
               v = NewApprove("PRECOMMIT", h, w, b, s) => Approvable("VALIDATE", h, w, b)
    PROVE  PreCommitsBacked'
<1>1. votes \subseteq votes'
    OBVIOUS
<1>2. SUFFICES ASSUME NEW s \in Reliable, NEW h \in Heights, NEW w \in Views,
                      NEW b \in Blocks,
                      NewApprove("PRECOMMIT", h, w, b, s) \in votes'
               PROVE  Approvable("VALIDATE", h, w, b)'
    BY DEF PreCommitsBacked
<1>3. Approvable("VALIDATE", h, w, b)
    BY <1>2 DEF Inv, PreCommitsBacked
<1> QED
    BY <1>1, <1>3, Monotonic

\* Two VALIDATE approvals of one view by one reliable validator agree after a
\* vote that is none, or that agrees with the earlier ones.
LEMMA CastKeepsOne ==
    ASSUME Inv, NEW v, votes' = votes \cup {v},
           \A s \in Reliable, h \in Heights, w \in Views, b, c \in Blocks :
               /\ v = NewApprove("VALIDATE", h, w, b, s)
               /\ NewApprove("VALIDATE", h, w, c, s) \in votes
               => b = c
    PROVE  OneValidation'
<1>1. SUFFICES ASSUME NEW s \in Reliable, NEW h \in Heights, NEW w \in Views,
                      NEW b \in Blocks, NEW c \in Blocks,
                      NewApprove("VALIDATE", h, w, b, s) \in votes',
                      NewApprove("VALIDATE", h, w, c, s) \in votes'
               PROVE  b = c
    BY DEF OneValidation
<1>2. CASE NewApprove("VALIDATE", h, w, b, s) = v /\ NewApprove("VALIDATE", h, w, c, s) = v
    BY <1>2, ApproveInjective
<1>3. CASE NewApprove("VALIDATE", h, w, b, s) \in votes
    BY <1>1, <1>3 DEF Inv, OneValidation
<1>4. CASE NewApprove("VALIDATE", h, w, c, s) \in votes
    BY <1>1, <1>4 DEF Inv, OneValidation
<1> QED
    BY <1>1, <1>2, <1>3, <1>4

\* Every step keeps the invariant.
LEMMA NextInv == Inv /\ [Next]_vars => Inv'
<1> SUFFICES ASSUME Inv, [Next]_vars PROVE Inv'
    OBVIOUS
<1>1. ASSUME NEW h \in 1 .. MaxHeight, NEW w \in 0 .. MaxView
      PROVE  h \in Heights /\ w \in Views
    BY BoundAssumption DEF Heights, Views
<1>2. \A s \in Reliable : s \in Nodes
    BY NodesAssumption DEF Reliable
<1>3. ASSUME NEW h \in 1 .. MaxHeight, NEW w \in 0 .. MaxView,
             NEW s \in Reliable, NEW b \in Blocks, ApproveValidate(s, h, w, b)
      PROVE  Inv'
    <2> DEFINE v == NewApprove("VALIDATE", h, w, b, s)
    <2>1. h \in Heights /\ w \in Views
        BY <1>1
    <2>2. v \in Vote
        BY <1>2, <2>1, NewVotesType DEF VoteType
    <2>3. votes' = votes \cup {v} /\ UNCHANGED decided
        BY <1>3 DEF ApproveValidate
    <2>4. Unlocked(v.height, v.view)
        BY <1>3, <2>1, ReachedIsUnlocked DEF ApproveValidate, Inv, NewApprove
    <2>5. TypeOK' /\ DecisionsBacked' /\ UnlockedViews'
        BY <2>2, <2>3, <2>4, CastKeeps
    <2>6. PreCommitsBacked'
        <3>1. \A q \in Reliable, i \in Heights, x \in Views, c \in Blocks :
                  v # NewApprove("PRECOMMIT", i, x, c, q)
            BY DEF NewApprove
        <3> QED
            BY <2>3, <3>1, CastKeepsBacked
    <2>7. OneValidation'
        <3>1. ASSUME NEW q \in Reliable, NEW i \in Heights, NEW x \in Views,
                     NEW c \in Blocks, NEW e \in Blocks,
                     v = NewApprove("VALIDATE", i, x, c, q),
                     NewApprove("VALIDATE", i, x, e, q) \in votes
              PROVE  c = e
            BY <1>3, <3>1, ApproveInjective DEF ApproveValidate
        <3> QED
            BY <2>3, <3>1, CastKeepsOne
    <2> QED
        BY <2>5, <2>6, <2>7 DEF Inv
<1>4. ASSUME NEW h \in 1 .. MaxHeight, NEW w \in 0 .. MaxView,
             NEW s \in Reliable, NEW b \in Blocks, ApprovePreCommit(s, h, w, b)
      PROVE  Inv'
    <2> DEFINE v == NewApprove("PRECOMMIT", h, w, b, s)
    <2>1. h \in Heights /\ w \in Views
        BY <1>1
    <2>2. v \in Vote
        BY <1>2, <2>1, NewVotesType DEF VoteType
    <2>3. votes' = votes \cup {v} /\ UNCHANGED decided
        BY <1>4 DEF ApprovePreCommit
    <2>4. Unlocked(v.height, v.view)
        BY <1>4, <2>1, ReachedIsUnlocked DEF ApprovePreCommit, Inv, NewApprove
    <2>5. TypeOK' /\ DecisionsBacked' /\ UnlockedViews'
        BY <2>2, <2>3, <2>4, CastKeeps
    <2>6. PreCommitsBacked'
        <3>1. ASSUME NEW q \in Reliable, NEW i \in Heights, NEW x \in Views,
                     NEW c \in Blocks, v = NewApprove("PRECOMMIT", i, x, c, q)
              PROVE  Approvable("VALIDATE", i, x, c)
            BY <1>4, <3>1, ApproveInjective DEF ApprovePreCommit
        <3> QED
            BY <2>3, <3>1, CastKeepsBacked
    <2>7. OneValidation'
        <3>1. \A q \in Reliable, i \in Heights, x \in Views, c \in Blocks :
                  v # NewApprove("VALIDATE", i, x, c, q)
            BY DEF NewApprove
        <3> HIDE DEF v
        <3>2. \A q \in Reliable, i \in Heights, x \in Views, c, e \in Blocks :
                  /\ v = NewApprove("VALIDATE", i, x, c, q)
                  /\ NewApprove("VALIDATE", i, x, e, q) \in votes
                  => c = e
            BY ONLY <3>1
        <3> QED
            BY <2>3, <3>2, CastKeepsOne
    <2> QED
        BY <2>5, <2>6, <2>7 DEF Inv
<1>5. ASSUME NEW h \in 1 .. MaxHeight, NEW w \in 0 .. MaxView,
             NEW s \in Reliable, NEW b \in Blocks, ApproveCommit(s, h, w, b)
      PROVE  Inv'
    <2> DEFINE v == NewApprove("COMMIT", h, w, b, s)
    <2>1. h \in Heights /\ w \in Views
        BY <1>1
    <2>2. v \in Vote
        BY <1>2, <2>1, NewVotesType DEF VoteType
    <2>3. votes' = votes \cup {v} /\ UNCHANGED decided
        BY <1>5 DEF ApproveCommit
    <2>4. Unlocked(v.height, v.view)
        BY <1>5, <2>1, ReachedIsUnlocked DEF ApproveCommit, Inv, NewApprove
    <2>5. TypeOK' /\ DecisionsBacked' /\ UnlockedViews'
        BY <2>2, <2>3, <2>4, CastKeeps
    <2>6. \A q, i, x, c : /\ v # NewApprove("PRECOMMIT", i, x, c, q)
                          /\ v # NewApprove("VALIDATE", i, x, c, q)
        BY DEF NewApprove
    <2>7. PreCommitsBacked' /\ OneValidation'
        BY <2>3, <2>6, CastKeepsBacked, CastKeepsOne
    <2> QED
        BY <2>5, <2>7 DEF Inv
<1>6. ASSUME NEW h \in 1 .. MaxHeight, NEW w \in 0 .. MaxView,
             NEW s \in Reliable, NEW t \in {"VALIDATE", "PRECOMMIT"}, Reject(s, t, h, w)
      PROVE  Inv'
    <2> DEFINE v == NewReject(t, h, w, s)
    <2>1. h \in Heights /\ w \in Views
        BY <1>1
    <2>2. v \in Vote
        BY <1>2, <2>1, NewVotesType DEF VoteType
    <2>3. votes' = votes \cup {v} /\ UNCHANGED decided
        BY <1>6 DEF Reject
    <2>4. Unlocked(v.height, v.view)
        BY <1>6, <2>1, ReachedIsUnlocked DEF Reject, Inv, NewReject
    <2>5. TypeOK' /\ DecisionsBacked' /\ UnlockedViews'
        BY <2>2, <2>3, <2>4, CastKeeps
    <2>6. \A u, q, i, x, c : v # NewApprove(u, i, x, c, q)
        BY DEF NewApprove, NewReject
    <2>7. PreCommitsBacked' /\ OneValidation'
        BY <2>3, <2>6, CastKeepsBacked, CastKeepsOne
    <2> QED
        BY <2>5, <2>7 DEF Inv
<1>7. ASSUME NEW h \in 1 .. MaxHeight, NEW w \in 0 .. MaxView,
             NEW b \in Blocks, Decide(h, w, b)
      PROVE  Inv'
    <2>1. h \in Heights /\ w \in Views
        BY <1>1
    <2>2. votes' = votes /\ decided' = decided \cup {<<h, w, b>>}
        BY <1>7 DEF Decide
    <2>3. Approvable("PRECOMMIT", h, w, b)
        BY <1>7 DEF Decide
    <2>4. TypeOK'
        BY <2>1, <2>2 DEF Inv, TypeOK, Decisions
    <2>5. OneValidation' /\ PreCommitsBacked'
        BY <2>2 DEF Inv, OneValidation, PreCommitsBacked, Approvable, Approvers
    <2>6. DecisionsBacked'
        <3>1. \A d \in decided' : Approvable("PRECOMMIT", d[1], d[2], d[3])
            BY <2>2, <2>3 DEF Inv, DecisionsBacked
        <3>2. \A i, x, c : Approvable("PRECOMMIT", i, x, c)
                              => Approvable("PRECOMMIT", i, x, c)'
            BY <2>2, Monotonic
        <3> QED
            BY <3>1, <3>2 DEF DecisionsBacked
    <2>7. Unlocked(h, w)
        <3>1. PICK s \in Reliable : NewApprove("PRECOMMIT", h, w, b, s) \in votes
            BY <2>3, ReliableApproval
        <3> QED
            BY <3>1 DEF Inv, UnlockedViews, NewApprove
    <2>8. UnlockedViews'
        BY <2>2, <2>7 DEF Inv, UnlockedViews, Unlocked, Rejectable, Rejecters
    <2> QED
        BY <2>4, <2>5, <2>6, <2>8 DEF Inv
<1>8. CASE UNCHANGED vars
    BY <1>8 DEF vars, Inv, TypeOK, OneValidation, PreCommitsBacked, DecisionsBacked,
                UnlockedViews, Unlocked, Approvable, Approvers, Rejectable, Rejecters
<1> QED
    BY <1>3, <1>4, <1>5, <1>6, <1>7, <1>8 DEF Next

LEMMA SpecInv == Spec => []Inv
BY InitInv, NextInv, PTL DEF Spec

-----------------------------------------------------------------------------
\* The sets of votes and decisions hold votes and decisions.
THEOREM VotingTypeOK == Spec => []TypeOK
<1>1. Inv => TypeOK
    BY DEF Inv
<1> QED
    BY <1>1, SpecInv, PTL

\* In one view of a height no two blocks gather 2/3 PRECOMMIT approvals, however
\* many validators there are (VoteSet.anyApproved never has a choice).
THEOREM VotingViewAgreement == Spec => []ViewAgreement
<1>1. Inv => ViewAgreement
    <2> SUFFICES ASSUME Inv, NEW h \in 1 .. MaxHeight, NEW w \in 0 .. MaxView,
                        NEW b \in Blocks, NEW c \in Blocks,
                        Approvable("PRECOMMIT", h, w, b), Approvable("PRECOMMIT", h, w, c)
                 PROVE  b = c
        BY DEF ViewAgreement
    <2>1. h \in Heights /\ w \in Views
        BY BoundAssumption DEF Heights, Views
    <2> QED
        BY <2>1, OneApprovable DEF Inv
<1> QED
    BY <1>1, SpecInv, PTL

\* Nobody votes or decides in a view before all earlier ones can be proved
\* rejected (enterPropose, onNewView, onProposal).
THEOREM VotingUnlockedViews == Spec => []UnlockedViews
<1>1. Inv => UnlockedViews
    BY DEF Inv
<1> QED
    BY <1>1, SpecInv, PTL

\* Conflicting decisions of a height need a reliable validator that voted both
\* ways in the earlier view: without the retry of onTimeout there are none.
THEOREM VotingAgreementUnlessRevoted == Spec => []AgreementUnlessRevoted
<1>1. Inv => AgreementUnlessRevoted
    <2> SUFFICES ASSUME Inv, NEW d \in decided, NEW e \in decided,
                        d[1] = e[1], d[2] <= e[2], d[3] # e[3]
                 PROVE  Revoted(d[1], d[2])
        BY DEF AgreementUnlessRevoted
    <2>1. /\ d[1] \in Heights /\ d[2] \in Views /\ d[3] \in Blocks
          /\ e[1] \in Heights /\ e[2] \in Views /\ e[3] \in Blocks
        BY DEF Inv, TypeOK, Decisions
    <2>2. /\ Approvable("PRECOMMIT", d[1], d[2], d[3])
          /\ Approvable("PRECOMMIT", e[1], e[2], e[3])
        BY DEF Inv, DecisionsBacked
    <2>3. d[2] # e[2]
        BY <2>1, <2>2, OneApprovable DEF Inv
    <2>4. Rejectable(d[1], d[2])
        <3>1. d[2] \in 0 .. (e[2] - 1)
            BY <2>1, <2>3 DEF Views
        <3> QED
            BY <3>1 DEF Inv, UnlockedViews, Unlocked
    <2> QED
        BY <2>1, <2>2, <2>4, ApprovedAndRejected DEF Revoted
<1> QED
    BY <1>1, SpecInv, PTL
=============================================================================
