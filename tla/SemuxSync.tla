---- MODULE SemuxSync ----
(***************************************************************************)
(* Block synchronization: SemuxSync of one node and the peers it downloads *)
(* from.  The download thread, the processing thread and the network       *)
(* threads share three queues under a lock; a step here is one critical    *)
(* section.  A download may expire at any moment.                          *)
(***************************************************************************)
EXTENDS Integers, FiniteSets

CONSTANTS Peers,          \* the peers a node may be connected to
          Honest,         \* those that answer requests, and with valid blocks
          Steady,         \* those of them whose connection never breaks
          Returning,      \* peers that may connect again
          PeerHeight,     \* latest block number each peer announced
          MaxHeight,      \* bound: largest target minus one
          Residue,        \* heights whose header a crash left on disk, without the block
          MAX_UNFINISHED_JOBS, MAX_QUEUED_BLOCKS, MAX_PENDING_BLOCKS,
          NoBlock         \* not a block

Heights == 1..MaxHeight

ASSUME SyncAssumption ==
    /\ IsFiniteSet(Peers) /\ Steady \subseteq Honest /\ Honest \subseteq Peers
    /\ Returning \subseteq Peers
    /\ PeerHeight \in [Peers -> Nat]
    /\ MaxHeight \in Nat
    /\ Residue \subseteq Heights
    /\ MAX_UNFINISHED_JOBS \in Nat /\ MAX_PENDING_BLOCKS \in Nat
    /\ MAX_QUEUED_BLOCKS \in Nat /\ MAX_QUEUED_BLOCKS >= 2

\* What a BLOCK message brings: a number, whether the block will validate on
\* the chain below it, and the peer it came from.
Entries == [number : Heights, valid : BOOLEAN, from : Peers]

ASSUME NoBlockAssumption == NoBlock \notin Entries

VARIABLES isRunning, target, latestQueuedTask,
          toDownload, toComplete,   \* sets of heights
          toProcess,                \* set of entries, one per height
          latest,                   \* the chain's latest block number
          processing,               \* the entry process() has taken, or NoBlock
          applied,                  \* whether that entry was found valid and applied
          connected,
          asked                     \* request in each peer's message queue, or 0

queues == <<latestQueuedTask, toDownload, toComplete, toProcess>>
process == <<latest, processing, applied>>
vars == <<isRunning, target, queues, process, connected, asked>>

Numbers(entries) == {e.number : e \in entries}
HasBlock(h) == h <= latest \/ h \in Residue

Init ==
    /\ isRunning = FALSE
    /\ target = 0
    /\ latestQueuedTask = 0
    /\ toDownload = {} /\ toComplete = {} /\ toProcess = {}
    /\ latest = 0
    /\ processing = NoBlock /\ applied = FALSE
    /\ connected = Peers
    /\ asked = [p \in Peers |-> 0]

----------------------------------------------------------------------------
\* growToDownloadQueue: nothing while the queue D is half full, else the heights
\* after queue position q until the queue is full or the target is reached.
Missing(q, h) == {x \in (q + 1)..h : ~HasBlock(x)}

\* Mutant: the target itself is queued.
GrowsPastTarget(D, q, t) ==
    IF Cardinality(D) >= MAX_QUEUED_BLOCKS \div 2 THEN 0
    ELSE Cardinality({h \in (q + 1)..t :
                        Cardinality(D \union Missing(q, h - 1)) < MAX_QUEUED_BLOCKS})

GrowsBy(D, q, t) ==
    IF Cardinality(D) >= MAX_QUEUED_BLOCKS \div 2 THEN 0
    ELSE Cardinality({h \in (q + 1)..(t - 1) :
                        Cardinality(D \union Missing(q, h - 1)) < MAX_QUEUED_BLOCKS})

Grow(D, q, t) ==
    /\ latestQueuedTask' = q + GrowsBy(D, q, t)
    /\ toDownload' = D \union Missing(q, q + GrowsBy(D, q, t))

\* A height leaves the download queue, which is then refilled.
RemoveTask(h) ==
    IF h \in toDownload
    THEN Grow(toDownload \ {h}, latestQueuedTask, target)
    ELSE UNCHANGED <<toDownload, latestQueuedTask>>

----------------------------------------------------------------------------
\* The engine blocks in start() until isRunning is false again.
Start(t) ==
    /\ ~isRunning
    /\ isRunning' = TRUE
    /\ target' = t
    /\ toComplete' = {} /\ toProcess' = {}
    /\ Grow({}, latest, t)
    /\ UNCHANGED <<process, connected, asked>>

\* stop(), called by the kernel; the processing task is not waited for.
Stop ==
    /\ isRunning
    /\ isRunning' = FALSE
    /\ UNCHANGED <<target, queues, process, connected, asked>>

\* onMessage, for a BLOCK of height h.  A set ordered by height keeps the entry it has.
OnBlock(p, h, valid) ==
    /\ p \in connected
    /\ asked' = [asked EXCEPT ![p] = 0]
    /\ IF isRunning
       THEN /\ RemoveTask(h)
            /\ toComplete' = toComplete \ {h}
            /\ toProcess' = IF h \in Numbers(toProcess) THEN toProcess
                            ELSE toProcess \union {[number |-> h, valid |-> valid, from |-> p]}
       ELSE UNCHANGED queues
    /\ UNCHANGED <<isRunning, target, process, connected>>

Answer(p) ==
    /\ p \in Honest /\ asked[p] # 0
    /\ OnBlock(p, asked[p], TRUE)

\* A faulty peer sends what it likes, asked or not.
FaultyBlock(p, h, valid) ==
    /\ p \notin Honest
    /\ OnBlock(p, h, valid)

----------------------------------------------------------------------------
\* download(): the heights in E have expired; then, unless a limit says no, the
\* first height to download is requested from an idle peer that has it.
Expire(E) ==
    /\ isRunning
    /\ E \subseteq toComplete

\* Mutants: one request too many; blocks to process hold back any other request.
TooManyUnfinishedLate(C) == Cardinality(C) > MAX_UNFINISHED_JOBS + 1
TooManyPendingAnyway(h) == Cardinality(toProcess) > MAX_PENDING_BLOCKS

TooManyUnfinished(C) == Cardinality(C) > MAX_UNFINISHED_JOBS
TooManyPending(h) ==
    /\ Cardinality(toProcess) > MAX_PENDING_BLOCKS
    /\ \E e \in toProcess : e.number < h

First(S) == CHOOSE h \in S : \A x \in S : h <= x

MayRequest(E, p) ==
    LET D == toDownload \union E IN
    /\ ~TooManyUnfinished(toComplete \ E)
    /\ D # {}
    /\ ~TooManyPending(First(D))
    /\ p \in connected /\ asked[p] = 0
    /\ PeerHeight[p] >= First(D)

Download(E, p) ==
    LET D == toDownload \union E IN
    /\ Expire(E)
    /\ MayRequest(E, p)
    /\ asked' = [asked EXCEPT ![p] = First(D)]
    /\ Grow(D \ {First(D)}, latestQueuedTask, target)
    /\ toComplete' = (toComplete \ E) \union {First(D)}
    /\ UNCHANGED <<isRunning, target, toProcess, process, connected>>

\* Mutant: what has expired is queued again but stays in download.
DownloadQuitsKeeping(E) ==
    /\ Expire(E)
    /\ E # {}
    /\ \A p \in Peers : ~MayRequest(E, p)
    /\ toDownload' = toDownload \union E
    /\ UNCHANGED <<isRunning, target, latestQueuedTask, toComplete, toProcess, process,
                   connected, asked>>

DownloadQuits(E) ==
    /\ Expire(E)
    /\ E # {}
    /\ \A p \in Peers : ~MayRequest(E, p)
    /\ toDownload' = toDownload \union E
    /\ toComplete' = toComplete \ E
    /\ UNCHANGED <<isRunning, target, latestQueuedTask, toProcess, process, connected, asked>>

----------------------------------------------------------------------------
\* process(): stop at the target; drop the entries the chain has; take the next one.
TargetReached ==
    /\ isRunning /\ processing = NoBlock
    /\ latest + 1 >= target
    /\ isRunning' = FALSE
    /\ UNCHANGED <<target, queues, process, connected, asked>>

\* Mutant: the first block is taken, whatever its height.
TakeFirst ==
    /\ isRunning /\ processing = NoBlock
    /\ latest + 1 < target
    /\ \E e \in toProcess :
        /\ \A x \in toProcess : e.number <= x.number
        /\ processing' = e
        /\ toProcess' = toProcess \ {e}
    /\ UNCHANGED <<isRunning, target, latestQueuedTask, toDownload, toComplete,
                   latest, applied, connected, asked>>

Take ==
    /\ isRunning /\ processing = NoBlock
    /\ latest + 1 < target
    /\ LET due == {e \in toProcess : e.number = latest + 1} IN
       /\ toProcess' = {e \in toProcess : e.number > latest + 1}
       /\ processing' \in IF due = {} THEN {NoBlock} ELSE due
    /\ UNCHANGED <<isRunning, target, latestQueuedTask, toDownload, toComplete,
                   latest, applied, connected, asked>>

\* validateApplyBlock: a block applies on the chain it was made for.
Apply ==
    /\ processing # NoBlock /\ ~applied
    /\ processing.valid /\ processing.number = latest + 1
    /\ latest' = processing.number
    /\ applied' = TRUE
    /\ UNCHANGED <<isRunning, target, queues, processing, connected, asked>>

ForgetApplied ==
    /\ applied
    /\ RemoveTask(processing.number)
    /\ toComplete' = toComplete \ {processing.number}
    /\ processing' = NoBlock /\ applied' = FALSE
    /\ UNCHANGED <<isRunning, target, toProcess, latest, connected, asked>>

\* Mutant: the block is given up.
RejectWithoutRetry ==
    /\ processing # NoBlock /\ ~applied
    /\ ~(processing.valid /\ processing.number = latest + 1)
    /\ toComplete' = toComplete \ {processing.number}
    /\ processing' = NoBlock
    /\ connected' = connected \ {processing.from}
    /\ asked' = [asked EXCEPT ![processing.from] = 0]
    /\ UNCHANGED <<isRunning, target, toDownload, latestQueuedTask, toProcess, latest, applied>>

\* The block is downloaded again and its peer disconnected.
RejectInvalid ==
    /\ processing # NoBlock /\ ~applied
    /\ ~(processing.valid /\ processing.number = latest + 1)
    /\ toDownload' = toDownload \union {processing.number}
    /\ toComplete' = toComplete \ {processing.number}
    /\ processing' = NoBlock
    /\ connected' = connected \ {processing.from}
    /\ asked' = [asked EXCEPT ![processing.from] = 0]
    /\ UNCHANGED <<isRunning, target, latestQueuedTask, toProcess, latest, applied>>

----------------------------------------------------------------------------
\* Channels come and go; a new channel has an empty message queue.
Disconnect(p) ==
    /\ p \in connected /\ p \notin Steady
    /\ connected' = connected \ {p}
    /\ asked' = [asked EXCEPT ![p] = 0]
    /\ UNCHANGED <<isRunning, target, queues, process>>

Connect(p) ==
    /\ p \in Returning \ connected
    /\ connected' = connected \union {p}
    /\ UNCHANGED <<isRunning, target, queues, process, asked>>

Process == TargetReached \/ Take \/ Apply \/ ForgetApplied \/ RejectInvalid

Next ==
    \/ \E t \in 1..(MaxHeight + 1) : Start(t)
    \/ Stop
    \/ \E p \in Peers : Answer(p) \/ Disconnect(p) \/ Connect(p)
    \/ \E p \in Peers, h \in Heights, valid \in BOOLEAN : FaultyBlock(p, h, valid)
    \/ \E E \in SUBSET toComplete : DownloadQuits(E) \/ \E p \in Peers : Download(E, p)
    \/ Process

Spec == Init /\ [][Next]_vars

\* The tasks run every 5 ms; a download that is not answered expires after ten
\* seconds; a steady peer answers; the peer to ask is drawn at random among the
\* idle ones, so that a peer idle again and again is drawn again and again.
Fairness ==
    /\ WF_vars(Process)
    /\ \A h \in Heights : WF_vars(h \in toComplete /\ \E E \in SUBSET toComplete :
                            h \in E /\ (DownloadQuits(E) \/ \E p \in Peers : Download(E, p)))
    /\ \A p \in Steady :
        /\ WF_vars(Answer(p))
        /\ SF_vars(\E E \in SUBSET toComplete : Download(E, p))

FairSpec == Spec /\ Fairness

----------------------------------------------------------------------------
\* No height at or above the target is a task, but for a next block that was rejected and
\* is queued again after a stop and a start with a smaller target.
BelowTarget ==
    \A h \in toDownload \union toComplete : h < target \/ h <= latest + 1

TypeOK ==
    /\ isRunning \in BOOLEAN /\ applied \in BOOLEAN
    /\ target \in 0..(MaxHeight + 1) /\ latestQueuedTask \in 0..MaxHeight
    /\ latest \in 0..MaxHeight
    /\ toDownload \subseteq Heights /\ toComplete \subseteq Heights
    /\ toProcess \subseteq Entries
    /\ processing \in Entries \union {NoBlock}
    /\ connected \subseteq Peers
    /\ asked \in [Peers -> 0..MaxHeight]
    /\ BelowTarget

\* Every height between the chain and the queue position is in one of the queues or
\* being processed, in every interleaving of answers, expiries, invalid blocks and
\* restarts of the sync: no block is forgotten, none waits for a task nobody holds.
NothingLost ==
    \A h \in (latest + 1)..latestQueuedTask :
        \/ HasBlock(h)
        \/ h \in toDownload \union toComplete \union Numbers(toProcess)
        \/ processing # NoBlock /\ processing.number = h

\* A height is not both to be requested and requested, and two entries to process
\* never have one height: otherwise a block would be downloaded twice without having
\* expired, or the ordered set would hold what its comparator calls equal.
OnePlace ==
    /\ toDownload \intersect toComplete = {}
    /\ \A e, f \in toProcess : e.number = f.number => e = f

\* The limits hold whatever expires and is queued again: at most one request more
\* than MAX_UNFINISHED_JOBS, and a download queue that exceeds its limit only by
\* the requests that were open, and the block that was being processed.
QueuesBounded ==
    /\ Cardinality(toComplete) <= MAX_UNFINISHED_JOBS + 1
    /\ Cardinality(toDownload) <= MAX_QUEUED_BLOCKS + MAX_UNFINISHED_JOBS + 2

\* A peer that sends valid blocks is never disconnected for a bad block, however
\* late its answers are and whoever else answers the same request.
HonestNeverBlamed ==
    [][RejectInvalid => processing.from \notin Honest]_vars

\* While one honest peer that has the blocks stays connected, a sync ends: neither
\* silence nor invalid blocks of the other peers, nor the limits, stop it.
SyncEnds == isRunning ~> ~isRunning

\* "Syncing manager downloads blocks from the network and imports them into
\* blockchain" (SemuxSync.java:68): a sync that is not stopped imports the blocks
\* below its target, also after a crash between the writes of the previous block.
ImportsBlocks ==
    \A t \in 1..(MaxHeight + 1) :
        isRunning /\ target = t ~> ~isRunning \/ latest + 1 >= t
====
