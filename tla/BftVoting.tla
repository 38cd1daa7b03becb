------------------------------ MODULE BftVoting ------------------------------
(***************************************************************************)
(* What the voting rules of the Semux BFT consensus promise, whatever the  *)
(* timing: which votes the reliable validators have cast, and which blocks *)
(* some node has finalized.  Unreliable validators are counted as having   *)
(* cast every vote.  SemuxBft implements this specification.               *)
(***************************************************************************)
EXTENDS VoteSet

CONSTANTS
    MaxHeight,    \* bound: heights that are voted on
    MaxView       \* bound: views of a height

ASSUME BoundAssumption == MaxHeight \in Nat /\ MaxView \in Nat

VARIABLES
    votes,        \* votes cast by reliable validators
    decided       \* <<height, view, block>> finalized by some node

vars == <<votes, decided>>

Decisions == Heights \X Views \X Blocks

\* The validators that may be shown to have cast a vote.
Approvers(t, h, w, b) ==
    {s \in Validators : s \in Reliable => NewApprove(t, h, w, b, s) \in votes}

\* Mutant: rejections of the proposal, not of the view, unlock the next view.
ValidateRejecters(h, w) ==
    {s \in Validators : s \in Reliable => NewReject("VALIDATE", h, w, s) \in votes}

Rejecters(h, w) ==
    {s \in Validators : s \in Reliable => NewReject("PRECOMMIT", h, w, s) \in votes}

Approvable(t, h, w, b) == IsQuorum(Approvers(t, h, w, b))

Rejectable(h, w) == IsQuorum(Rejecters(h, w))

\* Mutant: no proof-of-unlock is asked for.
ReachedLocked(h, w) == h = 1 \/ \E d \in decided : d[1] = h - 1

\* A validator votes at a height once the previous one is decided, and in a
\* view once the previous one can be proved rejected (the proof-of-unlock).
Reached(h, w) ==
    /\ h = 1 \/ \E d \in decided : d[1] = h - 1
    /\ w = 0 \/ Rejectable(h, w - 1)

Init == votes = {} /\ decided = {}

\* Mutant: a second proposal of the same view is approved too.
ApproveValidateAgain(s, h, w, b) ==
    /\ Reached(h, w)
    /\ votes' = votes \cup {NewApprove("VALIDATE", h, w, b, s)}
    /\ UNCHANGED decided

ApproveValidate(s, h, w, b) ==
    /\ Reached(h, w)
    /\ \A c \in Blocks : NewApprove("VALIDATE", h, w, c, s) \in votes => c = b
    /\ votes' = votes \cup {NewApprove("VALIDATE", h, w, b, s)}
    /\ UNCHANGED decided

ApprovePreCommit(s, h, w, b) ==
    /\ Reached(h, w)
    /\ Approvable("VALIDATE", h, w, b)
    /\ votes' = votes \cup {NewApprove("PRECOMMIT", h, w, b, s)}
    /\ UNCHANGED decided

ApproveCommit(s, h, w, b) ==
    /\ Reached(h, w)
    /\ Approvable("PRECOMMIT", h, w, b)
    /\ votes' = votes \cup {NewApprove("COMMIT", h, w, b, s)}
    /\ UNCHANGED decided

Reject(s, t, h, w) ==
    /\ Reached(h, w)
    /\ votes' = votes \cup {NewReject(t, h, w, s)}
    /\ UNCHANGED decided

Decide(h, w, b) ==
    /\ Approvable("PRECOMMIT", h, w, b)
    /\ decided' = decided \cup {<<h, w, b>>}
    /\ UNCHANGED votes

Next ==
    \E h \in 1 .. MaxHeight, w \in 0 .. MaxView :
        \/ \E s \in Reliable, b \in Blocks :
              \/ ApproveValidate(s, h, w, b)
              \/ ApprovePreCommit(s, h, w, b)
              \/ ApproveCommit(s, h, w, b)
        \/ \E s \in Reliable, t \in {"VALIDATE", "PRECOMMIT"} : Reject(s, t, h, w)
        \/ \E b \in Blocks : Decide(h, w, b)

Spec == Init /\ [][Next]_vars
-----------------------------------------------------------------------------
\* The sets of votes and decisions hold votes and decisions.
TypeOK ==
    /\ votes \subseteq Vote
    /\ decided \subseteq Decisions

\* No two blocks can both gather 2/3 PRECOMMIT approvals in one view of a
\* height, so anyApproved never has a choice (VoteSet.anyApproved).
ViewAgreement ==
    \A h \in 1 .. MaxHeight, w \in 0 .. MaxView, b, c \in Blocks :
        Approvable("PRECOMMIT", h, w, b) /\ Approvable("PRECOMMIT", h, w, c)
            => b = c

\* A view is only voted or decided in when every earlier view of that height
\* gathered a proof-of-unlock (onNewView, onProposal, enterPropose).
Unlocked(h, w) == \A u \in 0 .. (w - 1) : Rejectable(h, u)

UnlockedViews ==
    /\ \A v \in votes : Unlocked(v.height, v.view)
    /\ \A d \in decided : Unlocked(d[1], d[2])

\* A reliable validator went back from PRE_COMMIT to PROPOSE in the same view
\* (onTimeout) and voted the other way the second time.
Revoted(h, w) ==
    \E s \in Reliable, b \in Blocks :
        /\ NewReject("PRECOMMIT", h, w, s) \in votes
        /\ NewApprove("PRECOMMIT", h, w, b, s) \in votes

\* Two nodes finalize different blocks of a height only if, in the earlier of
\* the two views, a reliable validator voted both ways.
AgreementUnlessRevoted ==
    \A d, e \in decided :
        d[1] = e[1] /\ d[2] <= e[2] /\ d[3] # e[3] => Revoted(d[1], d[2])
=============================================================================
