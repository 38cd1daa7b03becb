------------------------------- MODULE Ledger -------------------------------
(***************************************************************************)
(* What AccountState and DelegateState hold, as one function from keys to  *)
(* values, and what TransactionExecutor does to it.  An overlay (track())  *)
(* is a function on the keys it has written; commit() merges it.           *)
(***************************************************************************)
EXTENDS Integers, Sequences, FiniteSets

CONSTANTS Accounts,              \* addresses, EmptyAddress among them
          Names,                 \* valid delegate names
          EmptyAddress, None,
          MinTransactionFee, MinDelegateBurn

ASSUME LedgerAssumption ==
    /\ IsFiniteSet(Accounts) /\ EmptyAddress \in Accounts
    /\ MinTransactionFee \in Nat /\ MinDelegateBurn \in Nat

AccountKey(a) == <<"account", a>>
DelegateKey(a) == <<"delegate", a>>
NameKey(name) == <<"name", name>>
VoteKey(d, voter) == <<"vote", d, voter>>

Keys ==
    {AccountKey(a) : a \in Accounts} \union {DelegateKey(a) : a \in Accounts}
    \union {NameKey(n) : n \in Names}
    \union {VoteKey(d, v) : d \in Accounts, v \in Accounts}

\* What a key that nobody wrote reads as.
DefaultValue(k) ==
    CASE k[1] = "account" -> [available |-> 0, locked |-> 0, nonce |-> 0]
      [] k[1] \in {"delegate", "name"} -> None
      [] k[1] = "vote" -> 0

Overlay(updates, below) ==
    [k \in Keys |-> IF k \in DOMAIN updates THEN updates[k] ELSE below[k]]

Account(l, a) == l[AccountKey(a)]

----------------------------------------------------------------------------
AdjustAvailable(l, a, delta) == [l EXCEPT ![AccountKey(a)].available = @ + delta]
AdjustLocked(l, a, delta) == [l EXCEPT ![AccountKey(a)].locked = @ + delta]

\* Mutant: the nonce stays.
KeepNonce(l, a) == l

IncreaseNonce(l, a) == [l EXCEPT ![AccountKey(a)].nonce = @ + 1]

\* Mutant: a name may be taken twice.
CanRegisterAddress(l, a, name) == l[DelegateKey(a)] = None

CanRegister(l, a, name) == l[DelegateKey(a)] = None /\ l[NameKey(name)] = None

Register(l, a, name) ==
    [l EXCEPT ![DelegateKey(a)] = [name |-> name, votes |-> 0], ![NameKey(name)] = a]

\* vote with a positive amount, unvote with a negative one.
AdjustVotes(l, voter, d, delta) ==
    [l EXCEPT ![VoteKey(d, voter)] = @ + delta, ![DelegateKey(d)].votes = @ + delta]

----------------------------------------------------------------------------
\* A transaction is a record of type, from, to, value, nonce, fee, the delegate name
\* in its data (None if it is not valid), and whether the data fits.
Affords(tx, l) == tx.value + tx.fee <= Account(l, tx.from).available

Transfer(tx, l) ==
    AdjustAvailable(AdjustAvailable(l, tx.from, -(tx.value + tx.fee)), tx.to, tx.value)

Delegate(tx, l) ==
    AdjustAvailable(Register(l, tx.from, tx.name), tx.from, -(tx.value + tx.fee))

Vote(tx, l) ==
    AdjustLocked(AdjustAvailable(AdjustVotes(l, tx.from, tx.to, tx.value),
                                 tx.from, -(tx.value + tx.fee)),
                 tx.from, tx.value)

\* Mutants: the unvoted coins stay locked; the fee is not charged.
UnvoteLocked(tx, l) ==
    AdjustAvailable(AdjustVotes(l, tx.from, tx.to, -tx.value), tx.from, tx.value - tx.fee)
UnvoteFree(tx, l) ==
    AdjustLocked(AdjustAvailable(AdjustVotes(l, tx.from, tx.to, -tx.value),
                                 tx.from, tx.value),
                 tx.from, -tx.value)

Unvote(tx, l) ==
    AdjustLocked(AdjustAvailable(AdjustVotes(l, tx.from, tx.to, -tx.value),
                                 tx.from, tx.value - tx.fee),
                 tx.from, -tx.value)

\* The checks of execute, whose order matters to the reported error only.
Succeeds(tx, l) ==
    /\ tx.nonce = Account(l, tx.from).nonce
    /\ tx.fee >= MinTransactionFee
    /\ tx.dataFits
    /\ \/ tx.type = "TRANSFER" /\ Affords(tx, l)
       \/ /\ tx.type = "DELEGATE"
          /\ tx.name # None /\ tx.value >= MinDelegateBurn
          /\ Affords(tx, l)
          /\ tx.to = EmptyAddress /\ CanRegister(l, tx.from, tx.name)
       \/ tx.type = "VOTE" /\ Affords(tx, l) /\ l[DelegateKey(tx.to)] # None
       \/ /\ tx.type = "UNVOTE"
          /\ tx.fee <= Account(l, tx.from).available
          /\ tx.value <= Account(l, tx.from).locked
          /\ tx.value <= l[VoteKey(tx.to, tx.from)] /\ l[DelegateKey(tx.to)] # None

\* unvote dereferences a delegate that is not there.
Throws(tx, l) ==
    /\ tx.type = "UNVOTE" /\ l[DelegateKey(tx.to)] = None
    /\ tx.nonce = Account(l, tx.from).nonce
    /\ tx.fee >= MinTransactionFee /\ tx.dataFits
    /\ tx.fee <= Account(l, tx.from).available
    /\ tx.value <= Account(l, tx.from).locked /\ tx.value <= l[VoteKey(tx.to, tx.from)]

\* Of a transaction that succeeds.
Execute(tx, l) ==
    IncreaseNonce(
        CASE tx.type = "TRANSFER" -> Transfer(tx, l)
          [] tx.type = "DELEGATE" -> Delegate(tx, l)
          [] tx.type = "VOTE" -> Vote(tx, l)
          [] tx.type = "UNVOTE" -> Unvote(tx, l),
        tx.from)

\* The keys it reads and writes.
Written(tx) ==
    {AccountKey(tx.from)} \union
    CASE tx.type = "TRANSFER" -> {AccountKey(tx.to)}
      [] tx.type = "DELEGATE" -> {DelegateKey(tx.from), NameKey(tx.name)}
      [] tx.type \in {"VOTE", "UNVOTE"} -> {DelegateKey(tx.to), VoteKey(tx.to, tx.from)}
=============================================================================
