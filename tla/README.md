# Semux in TLA+

Specifications of the Semux full node (the Java program under
`src/main/java/org/semux`), checked with TLC and proved with TLAPS.  File names
below are relative to that directory; line numbers are those of `PROJECT.json`.

## The system

A Semux node keeps a blockchain, exchanges messages with its peers, and, if it
is an elected validator, takes part in a Byzantine fault tolerant (BFT) vote on
the next block.

| Component | State it keeps | Operations | Talks to |
| --- | --- | --- | --- |
| BFT engine (`consensus/SemuxBft`) | status, phase, height, view, proof-of-unlock, proposal, three vote sets, cache of validated blocks, timer, event queue | `start`, `stop`, `enterNewHeight` ... `enterFinalize`, `onTimeout`, `onNewHeight`, `onNewView`, `onProposal`, `onVote`, `onMessage`, `jumpToView`, `sync`, `validateBlock`, `applyBlock` | chain store, sync manager, channels, pending manager |
| Votes (`consensus/Vote`, `VoteSet`) | approvals by block hash and signer, rejections by signer | `addVote`, `addVotes`, `anyApproved`, `isRejected` | engine, proofs-of-unlock, block votes |
| Block sync (`consensus/SemuxSync`) | blocks to download, in download, to process; begin, current, target | `start`, `stop`, `download`, `process`, `onMessage` | engine (which it blocks), chain store, channels |
| Chain store (`core/BlockchainImpl`) | blocks, index, latest block, validators, statistics, activated forks | `addBlock`, `updateValidators`, `activateForks`, `forkActivated`, migration | account and delegate state, listeners |
| Account and delegate state (`core/state`) | balances, nonces, votes; overlays of uncommitted updates | `adjustAvailable`, `vote`, `unvote`, `track`, `commit`, `rollback` | transaction executor |
| Transaction executor (`core/TransactionExecutor`) | none | `execute` | overlays |
| Pending transactions (`core/PendingManager`) | queue, pool, delayed and processed caches, overlay states | `addTransaction`, `getPendingTransactions`, `onBlockAdded`, `reset` | chain store, channels |
| Channels and handshake (`net/ChannelManager`, `SemuxP2pHandler`) | channels, active channels by peer id | HELLO/WORLD, `onChannelActive`, `onChannelInactive` | engine, sync |
| Message queue (`net/msg/MessageQueue`) | request, response and priority queues | `sendMessage`, `onMessageReceived`, `nudgeQueue` | channel |
| Message framing (`net/SemuxMessageHandler`) | unfinished packets | `encode`, `decode` | channel |
| Discovery (`net/NodeManager`, `ConnectionLimitHandler`) | dial queue, last connect times, connections per address | `doConnect`, `doFetch`, handler callbacks | channels |
| Kernel, event bus, configuration, wallet, API, GUI | boot state, subscriptions, settings, keys | `start`, `stop`, `publish` | everything |

What is hard here:

- **Interleaving of nodes.**  Every phase of the vote ends by a timeout, so nodes
  drift: a vote, a proposal or a NEW_VIEW proof meets its receiver in any phase,
  height and view, twice, late or never.
- **Leaving a view.**  2/3 PRECOMMIT rejections unlock the next view, whoever shows
  them.  A node that times out in PRE_COMMIT with neither 2/3 approvals nor 2/3
  rejections goes back to PROPOSE *in the same view* and votes again.
- **Losing memory.**  Votes are not persisted; a validator that restarts enters
  its height at view 0 and may vote a second time.  A node that has not cached the
  approved block cannot finalize it and syncs instead, dropping its votes.
- **Faulty validators.**  They may propose two blocks, vote for both and show
  different proofs to different nodes.
- **Threads.**  Event loop, timer, broadcaster, two sync tasks, network threads and
  the kernel share flags and queues.
- **Crashes between writes** of the chain store; **limits** of caches and queues;
  **timeouts racing answers** in the sync and in the message queue.

`PROJECT.json` lists each of these at its line under `hazards`, with the properties
that cover it or the reason why none does.

## Modules

```
VoteSet            votes, vote sets, quorums; the fault assumption
  BftVoting        abstract: the voting rules, whatever the timing
    MCBftVoting      TLC instance
  SemuxBft         detailed: the event loop of every node; implements BftVoting
    MCSemuxBft       TLC instances (four configurations)
  VoteSetProofs    quorum intersection and lemmas on vote sets
    BftVotingProofs  the theorems about BftVoting
    SemuxBftProofs   the theorems about SemuxBft, and that it implements BftVoting
SemuxSync          one node's download of blocks from its peers
  MCSemuxSync        TLC instances (two configurations)
  SemuxSyncProofs    its theorems
ForkActivation     one node's count of the blocks that signal a fork
  MCForkActivation   TLC instance
  ForkActivationProofs  its theorems
Ledger             accounts, delegates and votes, and what a transaction does to them
  PendingManager   one node's pool of transactions, and blocks that are applied
    MCPendingManager  TLC instance
    PendingManagerProofs  names, votes, coins, nonces and the pool
ChainCommit        how a block gets onto one node's disk, put by put
  NodeLifecycle    the threads that do it, the kernel that stops them, and crashes
    MCNodeLifecycle   TLC instances (two configurations)
    NodeLifecycleProofs    which thread does what when, the order of the puts, no
                           transaction twice, no added block incomplete, what is exact
MessageFraming     how a message becomes frames and frames a message
  Channels         connections, handshakes, the registry of peers, message queues
    MCChannels        TLC instance
    ChannelsProofs    the registry, crossed dials, and requests under way
```

### VoteSet

`Vote`, `NewApprove`, `NewReject`, `AddVote`, `AnyApproved`, `IsRejected` and
`TwoThirds` are the classes `Vote` and `VoteSet`.  A signature is its signer: a vote
is in circulation only if its signer made it, or if the signer is faulty.  The code
keeps approvals and rejections in two maps keyed by signer, so one signer may have
one approval per block hash and a rejection in the same set; the model keeps the set
of votes, which is the same thing.  `FaultAssumption` says that less than a third of
the validators are faulty or may lose their memory; the others are `Reliable`.

### BftVoting

Two variables: the votes that reliable validators cast, and the blocks that some node
finalized.  Unreliable validators count as having cast every vote.  An action is a
vote: VALIDATE approvals once per view (`ApproveValidate`), PRECOMMIT approvals of
what 2/3 validated, rejections at any time, decisions on what 2/3 approved
(`Decide`); a vote at a height and a view needs a decision on the previous height and
2/3 rejections of the previous view (`Reached`).  Whatever holds here holds of every
timing of the real engine, because `SemuxBft` implements it.

### SemuxBft

One action per handler of the event loop, for each correct node:

| Action | Code |
| --- | --- |
| `OnTimeout` with `EnterPropose`, `EnterValidate`, `EnterPreCommit`, `EnterCommit`, `EnterFinalize`, `EnterNewHeight` | `onTimeout` and the `enter...` methods it calls |
| `OnNewHeight`, `OnNewView`, `OnProposal`, `OnVote` | the handlers of the same names, with `jumpToView` and `enterFinalize` inside |
| `SyncBlock`, `SyncDone` | what `SemuxSync` does to the chain while `sync()` blocks the loop |
| `Crash`, `Start` | the process ends; `start()` on the chain on disk |

The network is three growing sets: `votes`, `proposals`, `newViews`.  A node may take
any message of them at any time, any number of times, or never, which covers loss,
delay, duplication, reordering and the events dropped by `clearTimerAndEvents`.
Faulty nodes are not actors: their votes, proposals and proofs are always available,
with the signatures they own and the correct votes they have seen (`FaultyVotes`,
`ForgedProof`, `ProposalsFor`).  The timer and the TIMEOUT event it queues are one
flag: `resetTimeout` rearms the timer and then removes a queued TIMEOUT, so the node
never sees one that belongs to an earlier phase.  Time has no length: any pending
timeout may fire at any moment.

Blocks are model values with a header (number, parent, coinbase); `Sound` are those
whose transactions and results validate, `Skewed` the nodes whose clock may find a
proposal in the future, `Cached` the contents of the bounded cache of validated
blocks.  `Primary` is a parameter: the models use a fixed table in place of the hash.
The set of validators does not change during a run.

### SemuxSync

One node that catches up, and its peers.  `toDownload`, `toComplete`, `toProcess` and
`latestQueuedTask` are the fields of those names; a step is one critical section of
the lock they share, so `process()` is several steps (`Take`, `Apply`,
`ForgetApplied` or `RejectInvalid`, with what `process()` holds in between in
`processing`) and answers, expiries and `stop()` fall between them.

| Action | Code |
| --- | --- |
| `Start`, `Stop` | `start`, `stop`; the processing task is not waited for, so a block taken before `Stop` may be applied after the next `Start` |
| `Download`, `DownloadQuits` | `download()`: what has expired is queued again (any set of open requests may have expired), then one request or a limit that says no |
| `TargetReached`, `Take`, `Apply`, `ForgetApplied`, `RejectInvalid` | `process()`, with `validateApplyBlock` |
| `Answer`, `FaultyBlock` | `onMessage` for a block an honest peer was asked for, or for any block a faulty peer sends |
| `Connect`, `Disconnect` | channels come and go |

A block is its height, whether it will validate on the chain below, and the channel it
came from; why a block is invalid does not matter here.  `asked` is the request at the
head of a peer's message queue; a peer is idle without one.  `Residue` are heights
whose header an interrupted `addBlock` left on disk (`HasBlock`, the question
`growToDownloadQueue` asks, is about headers).

### ForkActivation

One fork that validators activate by signalling it in block headers, on one node.
`signals` says which blocks of the chain signal; `activatedAt` is the chain's record of
the activation, `stored` the same on disk; `memory` is `forkActivationMemoryCache`; and
`engineHeight` and `engineActivated` are what the BFT engine holds since its last
`enterNewHeight`.

| Action | Code |
| --- | --- |
| `AskForkActivated`, with the answer `ForkActivated` | `forkActivated(height)`, asked about any height up to the next one: it answers from the record, the checkpoint or the count, and memoizes the count |
| `Evict` | the cache holds two entries and may drop any of them |
| `AddBlock` | `addBlock`, with `activateForks` before the block is written |
| `EnterNewHeight` | the fork part of the engine's `enterNewHeight` |
| `Crash`, `CrashInAddBlock` | the process ends, between two blocks or after the activation is recorded and before the block is; `openDb` |

Forks do not influence each other, so one is enough.  The switch that disables a fork
in the configuration is left out: a disabled fork is never asked about.

### Ledger and PendingManager

`Ledger` has no variables.  What the account and the delegate database hold is one
function from keys (an account, a delegate by address, a delegate by name, a vote) to
values, and `Succeeds` and `Execute` are the checks and the effects of
`TransactionExecutor` for each type of transaction, one operator per method they call.
`Overlay` is a state with uncommitted updates, `track()`.  A transaction that does not
succeed changes nothing: it either fails before its first update or, when `register`,
`vote` or `unvote` says no, those changed nothing either.  What an exception inside
`unvote` leaves half done is in an overlay that is dropped (`PendingManager.java:317-324`),
and a block in which a transaction fails is rejected as a whole
(`TransactionResult.java:134`).

`PendingManager` has one node's pool and the thread that applies blocks to its chain:

| Action | Code |
| --- | --- |
| `BeginBlock`, `ExecuteInBlock`, `RewardBlock`, `AddBlock` | `applyBlock` of the engine or the sync, for any block of transactions that succeed one after the other |
| `AddTransaction` | a transaction arrives from a peer |
| `AddTransactionSync` | it arrives from the API or the GUI |
| `Run` | one poll of the worker's loop |
| `Iterate` | one round of the loop of `processTransaction`, for whichever of the three callers: pool it and go on with a delayed one, fail, throw, or delay it |
| `OnBlockAdded`, `Revalidate` | `onBlockAdded`: reset, then one transaction of the old pool after the other |
| `Stop` | `stop()` |

The methods are `synchronized`; `Locked` says that one of them is in its loop.
`applyBlock` takes no such lock while it commits, so a round of the loop that falls into
the commit reads some keys of the block and some of the chain before, and may miss one
that `commit()` is just moving (`AccountStateImpl.java:68-69`): `Seen`.  One round reads
one such view; reads of one round that see different moments are all among the views,
as every combination of old, new and missing-one keys is.  Before `AddBlock` nothing of
the block is visible, since its overlay is private.  `Drifting` are transactions whose
timestamp may be out of bounds at any moment (time itself is not modelled), and a full
cache drops any entry.  `BlockReward` is the same for every block, as it is below height
25,000,000.  Relaying to peers and the size limit of `getPendingTransactions` do not
change this state.

### ChainCommit and NodeLifecycle

`ChainCommit` is about the disk.  A value that blocks change (a balance, an account's
list of transactions, a statistic) is the sequence of the heights that changed it, so
that a block that is missing or counted twice can be seen; a record that a block has for
itself is a member of `disk.parts`.  `Puts(h)` are the puts of `addBlock` in order, the
latest block number last; `Flush` is one key of the account or delegate state, whose
`commit()` has no batch either.

| Action | Code |
| --- | --- |
| `OpenDb` | `openDb` and `initializeDb`: read the latest block, or build the genesis state on whatever is there and write it |
| `Overlay`, `Merge` | execution in a tracked state, and `commit()` into the chain's own state in memory |
| `BeginWriting`, `Flush`, `PutNext`, `EndWriting` | the states' `commit()` to disk, then `addBlock`, one put a step |
| `Die` | the process ends; only `disk` survives |

`NodeLifecycle` has the three threads that use it.  `cons` and `task` say where the
consensus thread and the sync's processing task are.

| Action | Code |
| --- | --- |
| `Boot`, `GenesisAdded` | `Kernel.start` up to the start of the consensus thread |
| `StopSync`, `ReadStatus`, `SetStopped`, `OfferStop`, `Join`, `CloseDb` | `Kernel.stop`, with `SemuxBft.stop` inside: each flag it reads or writes is a step |
| `Exit` | the process ends, after the stop or in the middle of anything |
| `Start`, `EnterNewHeight`, `ClearEvents`, `LoopCondition`, `TakeStop`, `OtherEvent`, `OnTimeout`, `OnNewHeight` | the event loop of `SemuxBft`, reduced to what touches the status, the STOP event and the chain |
| `EnterFinalize`, then `CommitOverlay`, `TakeLock`, `Write`, `ReleaseLock` | `applyBlock` of the engine |
| `CheckRunning`, `Pause`, `StartSync`, `CancelTask`, `CheckStopped`, `Restore` | `sync()`, with `SemuxSync.start` inside |
| `TargetReached`, `Process`, then the same four | the processing task of the sync |
| `WriteFails` | a put on a closed database throws, which ends the periodic task |

What the peers send is left to chance: any event may come at any moment, and the next
block of the sync has always arrived and is valid.  `torn` and `overlapped` are history:
the heights during whose writing the process died, and those that two threads applied at
the same time.

### MessageFraming and Channels

`MessageFraming` is `SemuxMessageHandler` on the sizes of a packet and of its frames.

`Channels` has several nodes and the connections between them, each with a channel at
both ends (`Ends`).  `channels` and `active` are the two maps of `ChannelManager`, by
remote address and by peer; `requests` and `responses` of a channel are the queues of
its `MessageQueue`.

| Action | Code |
| --- | --- |
| `Dial`, `Accept`, `Break` | `doConnect` and `initChannel` on the dialler's side, `channelActive` on the other's; the network |
| `ReceiveHello`, `Activate`, `Greet` | the HELLO branch of `channelRead0`: the look at `isActivePeer`, `onChannelActive`, and the WORLD it sends, in three steps |
| `ReceiveWorld`, `ReceiveRequest`, `ReceiveAnswer`, `ReceiveDisconnect` | the other branches, with `onMessageReceived` first |
| `ReceiveThrows` | `onMessageReceived` peeks twice and the timer removes the head in between |
| `Nudge` | one tick of the queue's timer |
| `ChooseIdle`, `AskForBlock` | `download()` of the sync: it picks an idle channel, then queues its request |
| `Ping` | the periodic requests, PING and GET_NODES |
| `PeerClosed`, `CloseLater`, a `DISCONNECT` | the ways a channel ends, all through `closeFuture` |

`sendMessage` is one step (its check of the size and the insertion are two in the code).
A node dials a peer again only after its earlier dial is over: the wait,
`RECONNECT_WAIT`, equals the idle timeout of a channel.  Left out: the limit on outbound
connections, the rules about addresses, handshake messages that a correct peer does not
send, and the order of prioritized responses, which no property tells apart.

## Runs

TLC, up to a few hundred thousand states each.  `Delivers` and `Hears` say which votes and
which proposals can arrive *in time*; a message that cannot is one that is late.
They shape the networks of the larger instances so that the phases of interest are
reached within the bounds; the two-node run has all deliveries.

| Run | Instance | Shows |
| --- | --- | --- |
| `voting` | 4 validators, 1 faulty, 2 blocks, 2 views, at most 10 votes | one block per view; views unlocked in turn; conflicting decisions only after a validator voted both ways |
| `pair` | 2 validators, 2 views, a second height to enter, all deliveries, cache of one block, a skewed clock | nothing stale is counted, no wrong block is applied, height follows the chain, nobody goes back |
| `observer` | 2 validators and an observer that restarts, 2 heights | every stored block can be synced, the voting rules are kept; types |
| `faulty` | 3 correct validators, a faulty leader with two blocks and forged proofs, 2 views | the voting rules are kept, a view is left only with 2/3 rejections |
| `agreement` | 3 correct validators on a slow network | **violated**: two chains differ at height 1 |
| `sync` | 3 heights, 2 honest peers (one steady, one behind), a faulty one, queues of 2 | no height is lost or in two queues, limits hold, no honest peer is blamed, the sync ends |
| `sync_after_crash` | 2 heights, the header of one left by a crash | **violated**: the sync never reaches its target |
| `fork` | window of 3 blocks, 2 signals, deadline 5, chain of 6 | the memoized count is the count, up to the deadline the answer depends on the chain alone, an activation by the deadline lasts, the engine signals until activation |
| `pending` | 5 transactions of 2 accounts, 2 blocks of up to 2, queue, delayed and processed caches of one | the pool is executable on the chain, nothing is executed twice, coins, votes and names add up |
| `node` | a genesis and 2 blocks (one with a transaction), 2 accounts, an update of the validators, one crash at any moment | what the latest number covers is complete, nothing counts twice but where a crash or two threads met a block, and there at most once more for the crash, an orderly stop tears nothing, a stopped engine leaves its loop |
| `stop` | a genesis and one block, no crash | **violated**: `Kernel.stop` waits for ever for the consensus thread |
| `network` | 2 nodes, crossed dials and a second dial of one, one connection that breaks, a block request, a ping, queues of 2, frames of 2, blocks of 3 and 4 | who is registered is connected, crossed dials are never all refused, a request is under way exactly once |

In `pending` two accounts compete for a name, one votes for the other and takes a vote
back, and a transfer becomes possible only by a block's reward, so that the order of
arrival, of blocks and of delayed transactions decides which of them succeed.  Two
blocks are needed: one to invalidate the pool, another to invalidate what was
revalidated.

In `node` one block only rewards and one has a transaction, because the nonce of a
transaction stops what an empty block does twice; the last height updates the
validators.  One crash is enough to meet every step, and to start on what it left.
In `network` a second dial is needed to be refused as a duplicate of the first, queues
of two are full with a ping and a request, and of the two block sizes one is a multiple
of the frame limit and one is not.

Ten votes are the fewest with which `voting` reaches two conflicting decisions; the
bound is large enough for the interesting case and no larger.  Two views are enough
for every kind of step between views (retry, timeout, proof, proposal); a second
height is entered in `pair` and voted on in `observer`.  Deadlock checking is off:
heights and views are bounded, and a node at the bound stops.

### The findings

The run `agreement` shows that nodes may finalize different blocks.
`docs/Semux-BFT-Consensus.md:24` says of PROPOSE: "If there are rejected votes, clear
them, and increment view."  The code does so only with 2/3 rejections
(`SemuxBft.java:317`); with fewer it goes back to PROPOSE in the same view, keeps
what it has counted, and votes again (`SemuxBft.java:588-594`).
Three correct validators n1, n2, n3, of which
two are a quorum.  In view 0, n2 first rejects in PRE_COMMIT (it has seen too few
VALIDATE votes), goes back to PROPOSE in view 0, now gets the votes and approves b1.
n1 counts its own approval and that of n2 and finalizes b1.  n3 never saw the proposal
and rejected; together with the *earlier* rejection of n2 it has 2/3 rejections, moves
to view 1, and shows the proof to n2, which is not in COMMIT and follows.  n2 and n3
finalize b2 in view 1.  No node is faulty; messages are only late.
`AgreementUnlessRevoted` (checked and, for the voting rules, proved) says that this
is the only way: two chains differ only if a reliable validator voted both ways in
the earlier view.

The run `sync_after_crash` is about `addBlock`, which writes the header of a block
first (`BlockchainImpl.java:358`) and the latest block number last (`:422`).  A node
that crashed in between has the header of a block that is not on its chain.
`growToDownloadQueue` skips every height whose header is stored
(`SemuxSync.java:301`), so that block is never requested, and the sync waits for it for
ever instead of importing "blocks from the network" (`SemuxSync.java:68`).

The run `stop` is about "make sure consensus thread is fully stopped"
(`Kernel.java:338`), a join without a limit.  `SemuxBft.stop` does nothing when the status
is STOPPED, which it also is when the thread was created but has not yet run `start()`;
and `sync()` overwrites a STOPPED that falls between its check and its assignment
(`SemuxBft.java:171-172`, and `:159-161` at its beginning), after which `enterNewHeight`
discards the STOP event (`:290`).  In each case the engine runs on and the kernel waits.
`StopHeard`, which holds, says what is sound about it: an engine that sees STOPPED in its
loop leaves it, with or without the event.

### Observations

What follows was met while modelling.  The models contain each of these steps, and the
properties are stated around them; none is the subject of a run of its own.

- *Two appliers.*  `SemuxSync.start` returns when the kernel stops the sync, but its task
  may still be applying a block (`SemuxSync.java:170-171`) while the engine, not yet
  stopped, finalizes the same one.  An empty block's reward then counts twice, and the
  older overlay may undo a later block.  `AloneUnlessStopping` says that this happens
  around a kernel's stop only; `ExactUnlessTorn` excludes those heights (`overlapped`).
- *Crashes inside a block.*  After a crash between the flush of the states and the latest
  block number, an empty block is executed again on top of itself, and one with
  transactions is not executable any more.  A crash while the genesis is written adds the
  premine twice (`BlockchainImpl.java:174-195`).  `ExactUnlessTorn` excludes those heights
  (`torn`); `AddedIsComplete` and `SenderOnce` hold for them, too, and `TornOncePerCrash`
  bounds the damage: a height counts at most once more per crash, at any moment, and not
  because of restarts, or of crashes of which none tore it.
- *Closing.*  `Kernel.stop` takes the state's write lock to "make sure no thread is
  reading/writing the state" (`Kernel.java:356`).  The sync's task may come after it; its
  write then throws.  Nothing is torn (`ClosedExact`).
- *Crossed dials.*  A node that answers HELLO on one connection and gets WORLD on the
  other has two active channels to one peer; the end of either unregisters the peer
  (`ChannelManager.java:127-135`).  One side may keep a connection registered that the
  other has not, and refuses every new dial as a duplicate while it lives.  Hence
  `doubled` in `RegistryExact`.
- *Requests nobody answers.*  A GET_BLOCK may overtake the WORLD of its own channel and is
  then ignored; a packet whose size is a multiple of the frame limit ends in an empty
  frame and never arrives (`SemuxMessageHandler.java:81`).  Such a request stays at the
  head of its queue for ever: the channel is never idle again and closes only when
  the queue is full.  Hence `unanswered` in `RequestUnderWay`.
- *Two looks at the head.*  `onMessageReceived` peeks twice (`MessageQueue.java:152-153`);
  an exception closes the channel when the timer removes the head in between.
- *The own peer.*  On HELLO, `onHandshakeDone` is handed this node's own `Peer`
  (`SemuxP2pHandler.java:187`, `:193`), so the consensus takes its own height for the
  peer's.
- *Limits.*  An inbound channel counts itself and all outbound channels against
  `netMaxInboundConnections` (`SemuxP2pHandler.java:119`), and the property
  `net.maxOutboundConnections` sets `netMaxInboundConnections`
  (`AbstractConfig.java:509-510`).
- *Fork deadline.*  `activationDeadline` is "The last block at which this block can be
  activated" (`ValidatorActivatedFork.java:49`).  Only `addBlock` and the engine compare
  with it; `forkActivated` does not (`BlockchainImpl.java:721-768`), so a window that
  fills up later makes the fork active for those who ask, and inactive again when it
  empties.  `AnswersByChain` says nothing of such a window; what the code answers about
  it depends on the chain alone, too (`ForkAnswersLate`), so that nodes do not disagree.
  In `fork` the heights 6 and 7 are past the deadline.
- *Delayed transactions.*  "The delayed transaction is expected to be processed once
  PendingManager has received all of its preceding transactions from the same address"
  (`PendingManager.java:352-354`).  It is looked at only after the pool accepted its
  predecessor (`:349`); if that one comes with a block, nobody looks.

## Fairness

The voting modules state safety and action properties only.  `SemuxSync` has `FairSpec`:

- `WF` of `Process` and, for every open request, of a `download()` that sees it
  expired: both tasks are scheduled every 5 ms, and a request expires after 10 s;
- `WF` of the answer of a *steady* peer: one that is honest and stays connected.  This
  is an assumption about the network, not the code, which breaks it for a block whose
  packet has just a multiple of the frame limit (*Requests nobody answers* above);
- `SF` of a request to a steady peer: `download()` draws at random among the idle
  channels (`SemuxSync.java:269`), so a peer that is idle again and again is drawn.

`NodeLifecycle` has its own `FairSpec`: `WF` of the steps of the kernel's stop, of the
consensus thread between two events, of every write and of the sync's tasks, which are
threads that the system schedules.  That an event, a block or a stop comes, or that the
process crashes, is not assumed.  `Channels` states safety only.

`sync` also assumes that a faulty peer that was cut off does not connect again.

## Proofs

`tlapm` checks every proof.  The theorems hold for every value of the constants that
meets the assumptions of the modules: those about the votes for every set of nodes,
validators and blocks, every height and view bound, under `NodesAssumption` and
`FaultAssumption` (less than a third of the validators faulty or without memory); those
about the node for every number of blocks, keys and crashes, under `CommitAssumption`
(blocks touch keys, the genesis has no sender) and `NodeAssumption`; those about the pool
for every set of transactions, accounts and names, every limit of the pool and every
number of blocks, under `PendingAssumption` (what `Transaction.validate` and the genesis
guarantee: no negative amount, a delegate per address and name) and `LedgerAssumption`
(finitely many accounts, so that there is a sum of coins); those about connections for any
nodes, connections, queues and limits, under `ChannelsAssumption` (a connection has two
different ends).

1. `QuorumsShareReliable` (VoteSetProofs): two sets of ceil(2n/3) validators share a
   reliable one.  From the two bounds on `TwoThirds` and the cardinality of unions.
2. BftVoting's invariant `Inv` adds to the types: a reliable validator approves one
   block per view in VALIDATE (`OneValidation`); a PRECOMMIT approval is backed by 2/3
   VALIDATE approvals (`PreCommitsBacked`); a decision by 2/3 PRECOMMIT approvals
   (`DecisionsBacked`); and every vote and decision is in an unlocked view
   (`UnlockedViews`).  None of the checked properties is inductive without them: two
   blocks with 2/3 PRECOMMIT approvals are only excluded because each is backed by
   VALIDATE approvals.  Views are unlocked *all the way down* because the rejections
   of the last view were cast by someone who had reached it (`ReachedIsUnlocked`).
3. From `Inv`: `VotingViewAgreement`, `VotingUnlockedViews`,
   `VotingAgreementUnlessRevoted`.  In the last one, a decision
   in an earlier view and the unlocking of that view are two quorums, and the
   validator they share voted both ways.

4. SemuxBft's invariant `Inv` (SemuxBftProofs) is about one node and the votes in
   circulation.  The parts that carry the argument: a vote set counts only signed votes
   of the node's height and view (`Counted`), so a quorum it counts could be shown to
   anybody (`CountedApproval`, `CountedRejection`); a proof-of-unlock, forged or not,
   holds signed votes (`HonestProofs`), so accepting it proves the view rejected
   (`UnlockProves`); a reliable validator has not voted ahead of itself, and what it
   validated in its view is the proposal it still holds (`VotesBehind`), so it never
   approves two; a block with 2/3 PRECOMMIT approvals was validated by somebody on that
   height (`PreCommitsBacked`, `ValidatedFits`); and the height of a running node is
   that of its chain (`AtHeight`).  There is one lemma per handler (`OnTimeoutStep` ...
   `StartStep`); each also says what the step does to the votes and chains (`Effect`):
   it casts a vote that is allowed, appends a block that is approved, or neither.
5. From `Inv` and `Effect`: `SemuxBftFollowsVotingRules`, the refinement of BftVoting
   (`CastsAllowed`, `AppendsAllowed`), and the remaining theorems.  The prover cannot
   use the theorems of an instantiated module, so `SemuxBftAgreementUnlessRevoted`
   and `SemuxBftViewsUnlocked` are proved from the same three facts again (`VotingInv`).
   `SemuxBftBlocksCertified` adds that a cached block followed the chain at its height
   (`CachedBlocks`).

6. SemuxSync's invariant `Inv` (SemuxSyncProofs) adds to the properties: an
   entry being processed is the next height, or is on the chain already (`Busy`), and
   honest peers' entries are valid (`HonestValid`), which together give
   `HonestNeverBlamed`; tasks stay below the target because what is added is and what is
   rejected was the next block (`BelowKept`); and the download queue is bounded jointly with the requests that may expire into it and the block
   that may be rejected into it (`TasksBounded`), since its own bound is not inductive.

7. ForkActivation's invariant `Inv` (ForkActivationProofs): every memoized entry is the
   count over its window (`Entries`), which survives the slide by one block because the
   block that leaves the window is the one the previous entry remembers (`CountSlides`,
   `Exact`); the record, if there is one, is the *first* height up to the deadline whose
   window had enough signals, and there is one as soon as such a height is on the
   chain, except during the block that a crash interrupted (`Recorded`); and what the
   engine holds agrees with it (`EngineKnows`).  `Answers` derives from these that the
   answer is a function of the chain (`Answer`), which up to the deadline is `Reached`
   (`AnswerReached`).

8. NodeLifecycle's invariant `Threading` (NodeLifecycleProofs) says what the threads are up
   to: the consensus thread waits for as long as the sync runs, unless the kernel has
   stopped the sync (`Alone`); a thread has a job exactly while it applies a block
   (`Jobs`); the lock belongs to whoever writes, and what is written is the writer's job
   (`Locks`); the latest number in memory is that on disk, and the block after it is the
   one that is put (`Numbers`, `Writers`); a count that comes next finds its entry
   (`Values`).  `Alone` and `Jobs` together are `AloneUnlessStopping`.  `PutsOrder` is what
   the proofs know about the order of the puts; `StepThreading` also sorts every step
   into what it is for a block (`BlockStep`), so that the layers above it have a case for
   each kind of step and not for each action.
9. NodeLifecycleProofs has three more layers on top, the third under 10.  `Unspent`: no account has a block's
   transaction twice, on disk, in the updates or in any overlay; an overlay is a copy
   that may be stale, so all three are needed.  `Durable`: every value that may still be
   flushed carries what the latest number covers (`Carried`), since a flush of a value
   that was read too early would take a block away again; a block is in its thread's
   overlay, then in the updates, then on disk (`Overlaid`, `Committed`, `Flushed`); and
   what was put stays (`PutsDone`, `Recorded`).  Heights that two threads apply are
   excepted because there these fail (`Marked`).  `NodeChainGrows` complements
   it: the latest number on disk never goes back and never skips one.
10. `Sound`, the third layer, says what the values on disk count at every moment, also while
   a block is on its way there, which `ExactUnlessTorn` does not speak of.  A key that is
   flushed counts that block, one that is not does not yet (`StateExact`); a list or a
   statistic counts it as often as the writer has come past its put (`Reached`,
   `ListExact`, `ForgedExact`, `TurnsExact`); the updates count what is on disk and the
   blocks ahead of it, and an overlay its own block (`UpdatesExact`, `OverlaysExact`),
   since either is what the disk will hold next.  The block that is applied is the next one
   (`NextInLine`): the same number executed by two threads would count twice, and then
   both are spoiled.  With closed databases nothing is on its way (`Underway`), also when
   the sync's task holds a block that its write will fail on; hence `ClosedExact`.  The
   heights are counted with the library's facts on finite sets (`TimesAppend`); an entry
   of a list is not read before its count is written (`EntryUnread`, `EntryCounts`).
11. Channels' invariant `Registry` (ChannelsProofs): an entry leads to an active channel
   (`Entered`), and an active channel is the entry, until its node has two (`Entries`);
   whoever is active or in the middle of a HELLO is connected (`Connected`).  Every action
   leaves registry and activity alone, ends a channel, or activates one (`Quiet`, `Ended`,
   `Activated`).  `Inv` adds what is under way.  HELLO is sent once, and before it arrives
   the acceptor has registered nobody and sent no WORLD (`Shake`, `Silent`); so a channel
   that is rejected was never active, and the one it duplicates, which is, was not
   rejected: `NeverAllRefused`.  Requests stand in line, only the head is sent or answered,
   and no two are alike (`InLine`); while a connection stands, what is out is in exactly one
   of four places, and otherwise all of them are empty (`Lone`, `Stands`), which the count
   of `RequestUnderWay` adds up (`LoneCounts`).  An action changes one channel and the two
   wires it reads and writes: one lemma per action says how (`Stepped`: `Proper`,
   `Careful`, `Spares`), and `SteppedKeeps` that such a step keeps `Inv` at both ends.
12. PendingManagerProofs starts from what a transaction that succeeds does to any ledger
   (`ExecuteEffect`: it keeps the types, increases one nonce by one, touches the keys in
   `Written`, and leaves names and delegates matched), one lemma per method that it calls.
   `Chained` keeps names matched and accounts past what was executed in the chain's state
   *and* in the state of the block that is executed, since the latter becomes the former.
   `Fresh` says that between two blocks the pool's transactions of an account lie from the
   chain's nonce up to the pending one, increasing; it is what a half-committed view
   breaks and what `OnBlockAdded` restores by starting anew.  `ExecutedOnce` follows: what
   was executed is below the chain's nonce, what is pooled is not.  `PoolExecutable`: as
   long as no block is half committed, the pool, folded over the chain's state, is the
   pending state, round after round of `Iterate`.  Sums over accounts and votes change by
   what one account or vote changes; coins are conserved also in the middle of a block,
   where its fees are out of the accounts and its reward is not in yet (`Coined`), and in
   the middle of a commit, where they are the next height's (`Minted`).

Every safety property of the voting, sync and fork runs is proved, except those that are
violated.  Of the properties that hold, only `SyncEnds`, `StopHeard` and `TornOncePerCrash` are
model-checked and not proved: the first two are liveness under fairness, which the prover
does not reach; the third needs an invariant that counts the attempts at a block next to
the layers of 9 and 10, and is checked for one crash.  Folds and sums need no
induction rule: the library's takes an operator, but a property of finite sets or of
lengths is as well proved from a least counterexample (`LeastSet`).  The bound on the download queue in
`QueuesBounded` says something only for more heights than `sync` has, and is covered by
the theorem.  Only proved: that the engine keeps the voting rules when a validator without
memory restarts among three others (in `voting` the unreliable v4, which counts as having
cast every vote, stands for such a validator as well as for a faulty one), forks with a checkpoint, and more than one crash of a node.

## Plan

In this order; each module gets its runs, its mutants and, where noted, theorems.

1. *Done.* `VoteSet`, `BftVoting`, `SemuxBft` and the theorems about `BftVoting`.
2. *Done.* `SemuxBftProofs`: the invariants of the engine and the refinement.
3. *Done.* `ChainCommit`: the writes of `applyBlock` and `addBlock` one by one, with a
   crash between any two, and what a restarted node finds.
4. *Done.* `SemuxSync`, `SemuxSyncProofs`: the three queues, expiry, duplicate and invalid answers, limits.
   Safety: the next block is never lost from the queues.  Liveness: with a correct
   peer the sync ends.
5. *Done.* `NodeLifecycle`, `NodeLifecycleProofs`: `start`, `stop`,
   event loop and sync as threads; the kernel's stop.
6. *Done.* `ForkActivation`: signalling, memoized count against its definition, deadline.
   Left: round-robin primaries (pure algorithms against reference definitions).
7. *Done.* `MessageFraming`, `Channels`, `ChannelsProofs` (handshake, registry, message queue).  Left: the
   counts of `ConnectionLimitHandler` and the dial queue of `NodeManager`.
8. *Done.* `Ledger`, `PendingManager`, `PendingManagerProofs`.  Left: `StateOverlay`, the chained maps of track,
   commit and rollback as a refinement of one map.
9. `PubSub`.

Theorems worth proving next: `TornOncePerCrash` for any number of crashes; the refinement
of a plain map by `StateOverlay`; that what `NodeLifecycle` leaves on disk implements a
chain that a block is added to in one step.

## Not modelled

Cryptography (signatures and hashes are assumed sound), message encoding, database
I/O (a write is atomic and durable), the wallet file, the IP filter, the API, the
command line and the GUI: sequential or pure I/O, with no protocol state of their own.
The JavaScript under `resources/org/semux/api` is a vendored, minified Swagger UI, which
is third-party code.

Of the modelled parts: the broadcaster's relaying and the timer's own thread, which the
arbitrary delivery of `SemuxBft` covers; the liveness of the vote, which rests on real
time; the migration of an old database and which validators `updateValidators` chooses;
the order in which `Kernel.start` brings up the API, the network and the pool; the counts of connections per address and
the queue of known nodes; the event bus.
