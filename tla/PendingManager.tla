--------------------------- MODULE PendingManager ---------------------------
(***************************************************************************)
(* The pool of transactions of one node, and the blocks that the consensus *)
(* or sync thread applies to the chain it is based on.  The methods of     *)
(* PendingManager hold its lock; applying a block does not, except in      *)
(* onBlockAdded, so the pool sees the block arrive key by key.             *)
(***************************************************************************)
EXTENDS Ledger, SequencesExt

CONSTANTS Transactions,
          Premine, GenesisDelegates,   \* amounts by account, addresses by name
          BlockReward, Coinbases,
          Drifting,                    \* transactions whose time may be too far from the node's
          NoTx, NoKey,
          QUEUE_MAX_SIZE, TRANSACTIONS_MAX_SIZE, DELAYED_MAX_SIZE, PROCESSED_MAX_SIZE,
          MaxHeight, MaxBlockSize      \* bounds: blocks, transactions in a block

\* Transaction.validate has bounded the amounts and the nonce.  Of the genesis file's
\* delegates these are the ones that register accepts: a name and an address once.
ASSUME PendingAssumption ==
    /\ None \notin Accounts /\ None \notin [name : Names, votes : Int]
    /\ Transactions \subseteq
         [type : {"TRANSFER", "DELEGATE", "VOTE", "UNVOTE"}, from : Accounts, to : Accounts,
          value : Nat, nonce : Nat, fee : Nat, name : Names \union {None},
          dataFits : BOOLEAN]
    /\ Premine \in [Accounts -> Nat]
    /\ DOMAIN GenesisDelegates \subseteq Names
    /\ \A n \in DOMAIN GenesisDelegates : GenesisDelegates[n] \in Accounts
    /\ \A m, n \in DOMAIN GenesisDelegates :
          GenesisDelegates[m] = GenesisDelegates[n] => m = n
    /\ BlockReward \in Nat /\ Coinbases \subseteq Accounts
    /\ QUEUE_MAX_SIZE \in Nat /\ MaxHeight \in Nat

VARIABLES
    ledger,        \* account and delegate state of the chain
    latest,        \* number of the latest block
    executed,      \* transactions of the chain
    block,         \* the block being applied
    queue, pool, delayed, processed,   \* queue, list of transactions and caches
    pending,       \* updates of pendingAS and pendingDS
    current,       \* transaction of the loop of processTransaction
    worker,        \* "idle", "busy", "dead" after an exception, or "stopped"
    toRevalidate   \* transactions of the old pool in onBlockAdded

chain == <<ledger, latest, executed>>
manager == <<queue, pool, delayed, processed, pending, current, worker, toRevalidate>>
vars == <<chain, block, manager>>

GenesisLedger ==
    [k \in Keys |->
        CASE k[1] = "account" -> [available |-> Premine[k[2]], locked |-> 0, nonce |-> 0]
          [] k[1] = "name" -> IF k[2] \in DOMAIN GenesisDelegates
                              THEN GenesisDelegates[k[2]] ELSE None
          [] k[1] = "delegate" ->
                IF \E n \in DOMAIN GenesisDelegates : GenesisDelegates[n] = k[2]
                THEN [name |-> CHOOSE n \in DOMAIN GenesisDelegates :
                                    GenesisDelegates[n] = k[2],
                      votes |-> 0]
                ELSE None
          [] k[1] = "vote" -> 0]

Empty == [k \in {} |-> 0]
NoBlock == [phase |-> "none"]

Init ==
    /\ ledger = GenesisLedger /\ latest = 0 /\ executed = {}
    /\ block = NoBlock
    /\ queue = <<>> /\ pool = <<>> /\ delayed = {} /\ processed = {}
    /\ pending = Empty /\ current = NoTx /\ worker = "idle" /\ toRevalidate = <<>>

Phase(p) == block # NoBlock /\ block.phase = p

\* While a block is committed a reader sees any of its keys written or not, and may
\* find one missing that commit() removes from the updates between two reads.  Only
\* the keys that the transaction reads matter.
Seen(tx) ==
    IF ~Phase("committing") THEN {ledger}
    ELSE LET changed == {k \in Written(tx) : block.ledger[k] # ledger[k]} IN
         {[k \in Keys |-> IF k = torn THEN DefaultValue(k)
                          ELSE IF k \in new THEN block.ledger[k] ELSE ledger[k]] :
            new \in SUBSET changed, torn \in changed \union {NoKey}}

----------------------------------------------------------------------------
\* applyBlock, on the thread of the consensus or the sync: transactions of a valid
\* block succeed one after the other on an overlay that nobody else sees.
BeginBlock(coinbase) ==
    /\ block = NoBlock /\ latest < MaxHeight
    /\ block' = [phase |-> "executing", coinbase |-> coinbase, ledger |-> ledger,
                 txs |-> {}, fees |-> 0]
    /\ UNCHANGED <<chain, manager>>

ExecuteInBlock(tx) ==
    /\ Phase("executing")
    /\ tx \notin executed \union block.txs /\ Cardinality(block.txs) < MaxBlockSize
    /\ Succeeds(tx, block.ledger)
    /\ block' = [block EXCEPT !.ledger = Execute(tx, @), !.txs = @ \union {tx},
                              !.fees = @ + tx.fee]
    /\ UNCHANGED <<chain, manager>>

RewardBlock ==
    /\ Phase("executing")
    /\ block' = [block EXCEPT !.phase = "committing",
                    !.ledger = AdjustAvailable(@, block.coinbase, BlockReward + block.fees)]
    /\ UNCHANGED <<chain, manager>>

\* Both states are flushed and the transactions indexed.
AddBlock ==
    /\ Phase("committing")
    /\ ledger' = block.ledger /\ latest' = latest + 1
    /\ executed' = executed \union block.txs
    /\ block' = [block EXCEPT !.phase = "notifying"]
    /\ UNCHANGED <<manager>>

----------------------------------------------------------------------------
Locked == current # NoTx \/ Phase("revalidating")

\* processTransaction, up to its loop: the hash and the timestamp are looked at.
ProcessTransaction(tx) ==
    \/ tx \notin executed /\ current' = tx
    \/ tx \in executed \union Drifting /\ current' = NoTx

\* What a bounded cache holds after a put: it drops an entry of its choice.
Put(cache, tx, max) ==
    LET full == cache \union {tx}
    IN IF Cardinality(full) <= max THEN {full} ELSE {full \ {t} : t \in full}

Ends == current' = NoTx /\ worker' = IF worker = "busy" THEN "idle" ELSE worker

\* One round of the loop.  An exception ends the worker, or the revalidation.
Iterate ==
    /\ current # NoTx
    /\ \E base \in Seen(current) :
        LET view == Overlay(pending, base)
            nonce == Account(view, current.from).nonce
            next == {d \in delayed : d.from = current.from /\ d.nonce = nonce + 1}
        IN
        \/ /\ current.nonce = nonce /\ Succeeds(current, view)
           /\ LET after == Execute(current, view)
              IN pending' = [k \in DOMAIN pending \union Written(current) |-> after[k]]
           /\ pool' = Append(pool, current)
           /\ IF next = {} THEN Ends ELSE current' \in next /\ UNCHANGED worker
           /\ UNCHANGED <<delayed, toRevalidate>>
        \/ /\ current.nonce = nonce /\ ~Succeeds(current, view) /\ ~Throws(current, view)
           /\ Ends /\ UNCHANGED <<pending, pool, delayed, toRevalidate>>
        \/ /\ Throws(current, view)
           /\ current' = NoTx /\ toRevalidate' = <<>>
           /\ worker' = IF worker = "busy" THEN "dead" ELSE worker
           /\ UNCHANGED <<pending, pool, delayed>>
        \/ /\ current.nonce < nonce
           /\ Ends /\ UNCHANGED <<pending, pool, delayed, toRevalidate>>
        \/ /\ current.nonce > nonce
           /\ LET others == {d \in delayed : d.from # current.from \/ d.nonce # current.nonce}
              IN delayed' \in Put(others, current, DELAYED_MAX_SIZE)
           /\ Ends /\ UNCHANGED <<pending, pool, toRevalidate>>
    /\ UNCHANGED <<chain, block, queue, processed>>

\* Mutant: the limit is looked at too late.
AddTransactionLate(tx) ==
    /\ ~Locked /\ Len(queue) <= QUEUE_MAX_SIZE
    /\ queue' = Append(queue, tx)
    /\ UNCHANGED <<chain, block, pool, delayed, processed, pending, current,
                   worker, toRevalidate>>

AddTransaction(tx) ==
    /\ ~Locked /\ Len(queue) < QUEUE_MAX_SIZE
    /\ queue' = Append(queue, tx)
    /\ UNCHANGED <<chain, block, pool, delayed, processed, pending, current,
                   worker, toRevalidate>>

AddTransactionSync(tx) ==
    /\ ~Locked
    /\ ProcessTransaction(tx)
    /\ UNCHANGED <<chain, block, queue, pool, delayed, processed, pending,
                   worker, toRevalidate>>

\* One poll of run().
Run ==
    /\ ~Locked /\ worker = "idle"
    /\ Len(pool) < TRANSACTIONS_MAX_SIZE /\ queue # <<>>
    /\ queue' = Tail(queue)
    /\ IF Head(queue) \in processed THEN UNCHANGED <<processed, current, worker>>
       ELSE /\ processed' \in Put(processed, Head(queue), PROCESSED_MAX_SIZE)
            /\ ProcessTransaction(Head(queue))
            /\ worker' = IF current' = NoTx THEN "idle" ELSE "busy"
    /\ UNCHANGED <<chain, block, pool, delayed, pending, toRevalidate>>

\* Mutant: the pending state is not based on the new chain state.
OnBlockAddedKeepsState ==
    /\ Phase("notifying") /\ current = NoTx
    /\ toRevalidate' = pool /\ pool' = <<>>
    /\ block' = [block EXCEPT !.phase = "revalidating"]
    /\ UNCHANGED <<chain, queue, delayed, processed, pending, current, worker>>

OnBlockAdded ==
    /\ Phase("notifying") /\ current = NoTx
    /\ IF worker = "stopped"
       THEN block' = NoBlock /\ UNCHANGED <<pool, pending, toRevalidate>>
       ELSE /\ toRevalidate' = pool
            /\ pool' = <<>> /\ pending' = Empty
            /\ block' = [block EXCEPT !.phase = "revalidating"]
    /\ UNCHANGED <<chain, queue, delayed, processed, current, worker>>

Revalidate ==
    /\ Phase("revalidating") /\ current = NoTx
    /\ IF toRevalidate = <<>>
       THEN /\ block' = NoBlock
            /\ UNCHANGED <<current, toRevalidate>>
       ELSE /\ ProcessTransaction(Head(toRevalidate))
            /\ toRevalidate' = Tail(toRevalidate)
            /\ UNCHANGED block
    /\ UNCHANGED <<chain, queue, pool, delayed, processed, pending, worker>>

Stop ==
    /\ ~Locked /\ worker # "stopped"
    /\ worker' = "stopped"
    /\ UNCHANGED <<chain, block, queue, pool, delayed, processed, pending, current,
                   toRevalidate>>

Next ==
    \/ \E c \in Coinbases : BeginBlock(c)
    \/ \E tx \in Transactions :
        \/ ExecuteInBlock(tx)
        \/ AddTransaction(tx) \/ AddTransactionSync(tx)
    \/ RewardBlock \/ AddBlock \/ OnBlockAdded \/ Revalidate
    \/ Run \/ Iterate \/ Stop

Spec == Init /\ [][Next]_vars

----------------------------------------------------------------------------
TypeOK ==
    /\ latest \in 0..MaxHeight /\ executed \subseteq Transactions
    /\ queue \in BoundedSeq(Transactions, QUEUE_MAX_SIZE)
    /\ pool \in Seq(Transactions) /\ toRevalidate \in Seq(Transactions)
    /\ delayed \subseteq Transactions /\ processed \subseteq Transactions
    /\ worker \in {"idle", "busy", "dead", "stopped"}
    /\ current \in Transactions \union {NoTx}
    /\ DOMAIN pending \subseteq Keys
    /\ DOMAIN ledger = Keys
    /\ \A a \in Accounts : Account(ledger, a) \in [available : Nat, locked : Nat, nonce : Nat]

\* From onBlockAdded of one block to the commit of the next.
Settled ==
    /\ worker # "stopped"
    /\ block = NoBlock \/ block.phase \in {"executing", "revalidating"}

\* Transactions executed one after the other, and whether each of them succeeded.
TryExecute(r, tx) ==
    [ok |-> r.ok /\ Succeeds(tx, r.ledger),
     ledger |-> IF Succeeds(tx, r.ledger) THEN Execute(tx, r.ledger) ELSE r.ledger]

ExecuteAll(l, txs) == FoldLeft(TryExecute, [ok |-> TRUE, ledger |-> l], txs)

\* What a proposer takes from the pool can be executed, in the pool's order, on the
\* state of the chain, and leads to the state the pool says is pending: proposeBlock
\* puts the pool into a block without executing it again (SemuxBft.java:765-772),
\* whatever blocks and delayed transactions came in between, and whatever expired.
PoolExecutable ==
    Settled => ExecuteAll(ledger, pool) = [ok |-> TRUE, ledger |-> Overlay(pending, ledger)]

\* No transaction is executed twice, by two blocks or by a block and the pool.
ExecutedOnce ==
    Settled => /\ \A i \in DOMAIN pool : pool[i] \notin executed
               /\ \A i, j \in DOMAIN pool : pool[i] = pool[j] => i = j
               /\ \A t \in executed : t.nonce < Account(ledger, t.from).nonce

\* What the accounts hold, and what transactions burned to register delegates.
Held(l) ==
    SumFunctionOnSet([a \in Accounts |-> Account(l, a).available + Account(l, a).locked],
                     Accounts)
Burned(txs) ==
    SumFunctionOnSet([t \in txs |-> IF t.type = "DELEGATE" THEN t.value ELSE 0], txs)

\* Transfers, votes, unvotes and fees, of transactions that share accounts with each
\* other and with the coinbase, create and lose no coins: what the accounts hold is
\* the premine and the block rewards but for what was burned to become a delegate.
CoinsConserved ==
    Held(ledger) + Burned(executed) = SumFunctionOnSet(Premine, Accounts) + latest * BlockReward

\* The votes of an account, and for a delegate.
VotesBy(l, a) == SumFunctionOnSet([d \in Accounts |-> l[VoteKey(d, a)]], Accounts)
VotesFor(l, d) == SumFunctionOnSet([a \in Accounts |-> l[VoteKey(d, a)]], Accounts)

\* The three records of a vote agree: the coins an account has locked are its votes,
\* and the votes of a delegate are those for it.
VotesMatch ==
    /\ \A a \in Accounts : Account(ledger, a).locked = VotesBy(ledger, a)
    /\ \A d \in Accounts :
        VotesFor(ledger, d) = IF ledger[DelegateKey(d)] = None THEN 0
                              ELSE ledger[DelegateKey(d)].votes

\* A name belongs to the delegate that has it, and to no other.
NamesMatch ==
    \A n \in Names, a \in Accounts :
        ledger[NameKey(n)] = a <=>
            ledger[DelegateKey(a)] # None /\ ledger[DelegateKey(a)].name = n
=============================================================================
