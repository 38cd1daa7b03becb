---- MODULE ChainCommit ----
(***************************************************************************)
(* How a block gets onto one node's disk.  Its execution leaves updates in *)
(* the memory of the account and delegate states; these are flushed key by *)
(* key, and addBlock then makes one put after the other, the latest block  *)
(* number last.  No write is atomic with another.                          *)
(*                                                                         *)
(* A value that a block changes from what it was (a balance, a list, a     *)
(* counter) is the sequence of the heights that changed it, so that what   *)
(* is missing or done twice can be seen.                                   *)
(***************************************************************************)
EXTENDS Integers, Sequences, FiniteSets

CONSTANTS MaxHeight,                \* bound: the last block
          Keys,                     \* accounts, delegates and votes
          Touches(_),               \* the keys that the execution of a block changes
          Sender(_), NoSender,      \* the account whose transaction a block has, if any
          Coinbase,                 \* the account that blocks reward
          ValidatorUpdateInterval,
          Nobody                    \* not a thread

Heights == 0..MaxHeight
None == -1

ASSUME CommitAssumption ==
    /\ MaxHeight \in Nat
    /\ ValidatorUpdateInterval \in Nat \ {0}
    /\ Coinbase \in Keys /\ NoSender \notin Keys /\ Sender(0) = NoSender
    /\ \A h \in Heights : Touches(h) \subseteq Keys /\ Sender(h) \in Keys \cup {NoSender}

VARIABLES disk,          \* what survives a crash
          updates,       \* the chain's uncommitted updates, by key
          latestBlock,   \* the number of the latest block in memory
          writer,        \* the progress of the thread that writes a block
          torn           \* history: the heights during whose writing the process died

commit == <<disk, updates, latestBlock, writer, torn>>

-----------------------------------------------------------------------------
(* The puts of addBlock, in order. *)

BlockParts == <<"header", "transactions", "results", "votes", "hash">>

\* addTransactionToAccount reads how many transactions an account has, writes
\* the next one, and then how many there are.
TxPuts(h) == IF Sender(h) = NoSender THEN <<>>
             ELSE <<"txIndex", "senderEntry", "senderCount">>

\* The coinbase transaction and the statistics; the genesis has neither.
RewardPuts(h) == IF h = 0 THEN <<>>
                 ELSE <<"coinbaseIndex", "coinbaseHash", "coinbaseEntry", "coinbaseCount",
                        "forged", "turn">>

ValidatorPuts(h) == IF h % ValidatorUpdateInterval = 0 THEN <<"validators">> ELSE <<>>

\* Mutant: the latest block number goes first.
PutsLatestFirst(h) == <<"latest">> \o BlockParts \o TxPuts(h) \o RewardPuts(h) \o ValidatorPuts(h)

Puts(h) == BlockParts \o TxPuts(h) \o RewardPuts(h) \o ValidatorPuts(h) \o <<"latest">>

NextEntry(d, k, h) == [d EXCEPT !.listed[k] = Append(SubSeq(@, 1, d.count[k]), h)]

Put(d, p, h) ==
    CASE p = "senderEntry"   -> NextEntry(d, Sender(h), h)
      [] p = "senderCount"   -> [d EXCEPT !.count[Sender(h)] = @ + 1]
      [] p = "coinbaseEntry" -> NextEntry(d, Coinbase, h)
      [] p = "coinbaseCount" -> [d EXCEPT !.count[Coinbase] = @ + 1]
      [] p = "forged"        -> [d EXCEPT !.forged = Append(@, h)]
      [] p = "turn"          -> [d EXCEPT !.turns = Append(@, h)]
      [] p = "validators"    -> [d EXCEPT !.validators = h]
      [] p = "latest"        -> [d EXCEPT !.latest = h]
      [] OTHER               -> [d EXCEPT !.parts = @ \cup {<<p, h>>}]

EmptyDisk == [state |-> [k \in Keys |-> <<>>], parts |-> {},
              listed |-> [k \in Keys |-> <<>>], count |-> [k \in Keys |-> 0],
              forged |-> <<>>, turns |-> <<>>, validators |-> None, latest |-> None]

HasBlock(h) == <<"header", h>> \in disk.parts
HasTransaction(h) == <<"txIndex", h>> \in disk.parts

-----------------------------------------------------------------------------
(* Executing, flushing, adding. *)

Includes(value, h) == \E i \in DOMAIN value : value[i] = h

\* The value of a key for a thread that reads the chain's state.
Read(k) == IF k \in DOMAIN updates THEN updates[k] ELSE disk.state[k]

\* Mutant: nonces are not compared.
ExecutableAlways(h) == TRUE

\* A transaction succeeds only with its sender's next nonce, which it uses up; without
\* transactions the results agree on any state.
Executable(h) == \A k \in Keys : k = Sender(h) => ~Includes(Read(k), h)

\* What the execution of a block leaves in the overlay of its thread.
Overlay(h) == [k \in Touches(h) |-> Append(Read(k), h)]

NoUpdates == [k \in {} |-> <<>>]
NoWriter == [height |-> None, keys |-> {}, next |-> 0]
Writing == writer # NoWriter

Init ==
    /\ disk = EmptyDisk
    /\ updates = NoUpdates
    /\ latestBlock = None
    /\ writer = NoWriter
    /\ torn = {}

\* The overlay is committed to the chain's own state, in memory.
Merge(overlay) ==
    /\ updates' = [k \in DOMAIN overlay \cup DOMAIN updates |->
                      IF k \in DOMAIN overlay THEN overlay[k] ELSE updates[k]]
    /\ UNCHANGED <<disk, latestBlock, writer, torn>>

BeginWriting(h) ==
    /\ writer' = [height |-> h, keys |-> DOMAIN updates, next |-> 1]
    /\ UNCHANGED <<disk, updates, latestBlock, torn>>

\* One key of the states goes to disk; the updates are forgotten after the last.
Flush ==
    \E k \in writer.keys :
        /\ disk' = [disk EXCEPT !.state[k] = updates[k]]
        /\ writer' = [writer EXCEPT !.keys = @ \ {k}]
        /\ updates' = IF writer.keys = {k} THEN NoUpdates ELSE updates
        /\ UNCHANGED <<latestBlock, torn>>

\* addBlock throws unless the block is the genesis or the next one.
Addable(h) == h = 0 \/ h = latestBlock + 1

PutNext ==
    /\ writer.keys = {}
    /\ writer.next > 1 \/ Addable(writer.height)
    /\ writer.next <= Len(Puts(writer.height))
    /\ LET p == Puts(writer.height)[writer.next] IN
       /\ disk' = Put(disk, p, writer.height)
       /\ latestBlock' = IF p = "latest" THEN writer.height ELSE latestBlock
    /\ writer' = [writer EXCEPT !.next = @ + 1]
    /\ UNCHANGED <<updates, torn>>

Written == /\ writer.keys = {}
           /\ \/ writer.next > Len(Puts(writer.height))
              \/ writer.next = 1 /\ ~Addable(writer.height)

EndWriting ==
    /\ Written
    /\ writer' = NoWriter
    /\ UNCHANGED <<disk, updates, latestBlock, torn>>

\* The process is gone and with it what was in memory.
Die ==
    /\ updates' = NoUpdates /\ latestBlock' = None /\ writer' = NoWriter
    /\ torn' = IF Writing THEN torn \cup {writer.height} ELSE torn
    /\ UNCHANGED disk

\* Mutant: a chain of the genesis alone is taken for none.
OpenDbRebuilding ==
    IF disk.latest > 0
    THEN /\ latestBlock' = disk.latest
         /\ UNCHANGED <<disk, updates, writer, torn>>
    ELSE /\ updates' = Overlay(0)
         /\ writer' = [height |-> 0, keys |-> Touches(0), next |-> 1]
         /\ UNCHANGED <<disk, latestBlock, torn>>

\* openDb: the latest block is read; without one the genesis state is
\* built (on whatever is there) and written.
OpenDb ==
    IF disk.latest # None
    THEN /\ latestBlock' = disk.latest
         /\ UNCHANGED <<disk, updates, writer, torn>>
    ELSE /\ updates' = Overlay(0)
         /\ writer' = [height |-> 0, keys |-> Touches(0), next |-> 1]
         /\ UNCHANGED <<disk, latestBlock, torn>>

-----------------------------------------------------------------------------
(* What a reader of the disk may rely on. *)

LastUpdate(h) == h - (h % ValidatorUpdateInterval)

\* Everything that adding block h writes is there.
Complete(h) ==
    /\ \A k \in Touches(h) : Includes(disk.state[k], h)
    /\ \A i \in DOMAIN BlockParts : <<BlockParts[i], h>> \in disk.parts
    /\ Sender(h) # NoSender =>
        HasTransaction(h) /\ Includes(SubSeq(disk.listed[Sender(h)], 1, disk.count[Sender(h)]), h)
    /\ h > 0 => /\ {<<"coinbaseIndex", h>>, <<"coinbaseHash", h>>} \subseteq disk.parts
                /\ Includes(SubSeq(disk.listed[Coinbase], 1, disk.count[Coinbase]), h)
                /\ Includes(disk.forged, h) /\ Includes(disk.turns, h)
    /\ \A g \in 0..h : g % ValidatorUpdateInterval = 0 => disk.validators >= g

\* How often a value counts a height.
Times(value, h) == Cardinality({i \in DOMAIN value : value[i] = h})

\* A value counts every height up to the latest block as often as times says, in their
\* order, and no later one, the spoiled heights excepted.
Counts(value, times, spoiled) ==
    /\ \A h \in Heights \ spoiled :
        Times(value, h) = IF h <= disk.latest THEN times[h] ELSE 0
    /\ \A i, j \in DOMAIN value :
        i < j /\ {value[i], value[j]} \cap spoiled = {} => value[i] <= value[j]

\* How often a height belongs in the value of a key, in an account's list, which has both
\* transactions of a block, and in the statistics.
One(b) == IF b THEN 1 ELSE 0
StateTimes(k) == [h \in Heights |-> One(k \in Touches(h))]
ListTimes(k) == [h \in Heights |-> One(Sender(h) = k) + One(Coinbase = k /\ h > 0)]
RewardTimes == [h \in Heights |-> One(h > 0)]
Listed(k) == SubSeq(disk.listed[k], 1, disk.count[k])

\* Every block up to the latest one counts exactly once in every value, and no other
\* block does, those of the spoiled heights excepted.
Exact(spoiled) ==
    /\ \A k \in Keys : /\ Counts(disk.state[k], StateTimes(k), spoiled)
                       /\ Counts(Listed(k), ListTimes(k), spoiled)
    /\ Counts(disk.forged, RewardTimes, spoiled)
    /\ Counts(disk.turns, RewardTimes, spoiled)
    /\ \A e \in disk.parts : e[2] <= disk.latest \/ e[2] \in spoiled
    /\ disk.latest # None =>
        disk.validators = LastUpdate(disk.latest) \/ disk.validators \in spoiled
====
