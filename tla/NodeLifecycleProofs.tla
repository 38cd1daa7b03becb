---- MODULE NodeLifecycleProofs ----
(* The threads of NodeLifecycle apply blocks alone, a transaction is never executed *)
(* twice, what the latest block number covers is complete, and between two blocks   *)
(* it is exact.                                                                     *)
EXTENDS NodeLifecycle, FiniteSetTheorems, SequenceTheorems, TLAPS

----------------------------------------------------------------------------
\* The puts of addBlock.
Names == {"header", "transactions", "results", "votes", "hash", "txIndex", "senderEntry",
          "senderCount", "coinbaseIndex", "coinbaseHash", "coinbaseEntry", "coinbaseCount",
          "forged", "turn", "validators", "latest"}

\* The invariant, first what the threads are up to.
Applying == {"executed", "committed", "writing"}

Places ==
    /\ kernel \in {"down", "opening", "running", "stopping", "stopConsensus", "offerStop",
                   "joining", "closing", "stopped"}
    /\ cons \in {"none", "new", "enter", "clear", "loop", "take", "sync", "pause", "startSync",
                 "waiting", "resume", "restore", "done"} \cup Applying
    /\ task \in {"idle"} \cup Applying
    /\ status \in {"STOPPED", "RUNNING", "SYNCING"}
    /\ isRunning \in BOOLEAN
    /\ height \in 0..MaxHeight + 1 /\ target \in 0..MaxHeight + 1

\* The consensus thread waits as long as the kernel does not stop the sync; it is over
\* when the databases are closed.
Alone ==
    /\ kernel \in {"down", "opening"} => cons = "none" /\ task = "idle" /\ ~isRunning
    /\ kernel = "running" /\ isRunning => cons = "waiting"
    /\ kernel = "running" /\ task # "idle" => isRunning
    /\ kernel \in {"closing", "stopped"} => cons = "done"

\* A thread has a block while it applies one.
Jobs ==
    /\ job = [t \in Threads |-> job[t]]
    /\ \A t \in Threads : job[t].height \in Heights \cup {None}
    /\ \A t \in Threads : IF place(t) \in Applying THEN job[t].height \in Heights \ {0}
                          ELSE job[t] = NoJob

\* The state's lock is held by whoever writes a block.
Locks ==
    /\ lock \in Threads \cup {"kernel", Nobody}
    /\ \A t \in Threads : lock = t <=> place(t) = "writing"
    /\ lock = "kernel" <=> kernel = "opening"
    /\ lock = Nobody <=> writer = NoWriter
    /\ lock \in Threads => writer.height = job[lock].height
    /\ lock = "kernel" => writer.height = 0

\* The latest block in memory and on disk.
Numbers ==
    /\ latestBlock \in Heights \cup {None} /\ disk.latest \in Heights \cup {None}
    /\ latestBlock = IF kernel = "down" THEN None ELSE disk.latest
    /\ kernel \notin {"down", "opening"} => latestBlock \in Heights
    /\ kernel = "down" => updates = NoUpdates

\* addBlock writes the next block, after the states are flushed.
Writers ==
    /\ writer \in [height : Heights \cup {None}, keys : SUBSET Keys, next : Nat]
    /\ Writing =>
        /\ writer.height \in Heights /\ writer.keys \subseteq DOMAIN updates
        /\ writer.next \in 1..Len(Puts(writer.height)) + 1
        /\ writer.next > 1 => writer.keys = {}
        /\ writer.next = 1 /\ writer.height = 0 => latestBlock = None
        /\ writer.next > 1 /\ writer.next <= Len(Puts(writer.height)) =>
            writer.height = latestBlock + 1
        /\ writer.next > Len(Puts(writer.height)) => writer.height = latestBlock

IsUpdates(u) == DOMAIN u \subseteq Keys /\ u = [k \in DOMAIN u |-> u[k]]
                /\ \A k \in DOMAIN u : u[k] \in Seq(Heights)

IsDisk(d) ==
    /\ d \in [state : [Keys -> Seq(Heights)], parts : SUBSET (Names \X Heights),
              listed : [Keys -> Seq(Heights)], count : [Keys -> Nat],
              forged : Seq(Heights), turns : Seq(Heights),
              validators : Heights \cup {None}, latest : Heights \cup {None}]
    /\ \A k \in Keys : d.count[k] <= Len(d.listed[k])

\* Between a list's new entry and its new length the entry is the block's.
Pending(d, k, h) == d.count[k] < Len(d.listed[k]) /\ d.listed[k][d.count[k] + 1] = h

NextPut == Puts(writer.height)[writer.next]
Values ==
    /\ IsDisk(disk) /\ IsUpdates(updates)
    /\ \A t \in Threads : IsUpdates(job[t].overlay)
    /\ overlapped \subseteq Heights /\ torn \subseteq Heights
    /\ Writing /\ writer.next <= Len(Puts(writer.height)) =>
        /\ NextPut = "senderCount" => Pending(disk, Sender(writer.height), writer.height)
        /\ NextPut = "coinbaseCount" => Pending(disk, Coinbase, writer.height)

Threading == Places /\ Alone /\ Jobs /\ Locks /\ Numbers /\ Writers /\ Values
----------------------------------------------------------------------------
LEMMA TxPutsAt ==
    ASSUME NEW h
    PROVE  /\ TxPuts(h) \in Seq(Names)
           /\ Len(TxPuts(h)) = IF Sender(h) = NoSender THEN 0 ELSE 3
           /\ Sender(h) # NoSender => /\ TxPuts(h)[1] = "txIndex"
                                      /\ TxPuts(h)[2] = "senderEntry"
                                      /\ TxPuts(h)[3] = "senderCount"
<1>1. CASE Sender(h) = NoSender
    BY <1>1 DEF TxPuts
<1>2. CASE Sender(h) # NoSender
    BY <1>2 DEF TxPuts, Names
<1> QED BY <1>1, <1>2

LEMMA RewardPutsAt ==
    ASSUME NEW h
    PROVE  /\ RewardPuts(h) \in Seq(Names)
           /\ Len(RewardPuts(h)) = IF h = 0 THEN 0 ELSE 6
           /\ h # 0 => /\ RewardPuts(h)[1] = "coinbaseIndex"
                       /\ RewardPuts(h)[2] = "coinbaseHash"
                       /\ RewardPuts(h)[3] = "coinbaseEntry"
                       /\ RewardPuts(h)[4] = "coinbaseCount"
                       /\ RewardPuts(h)[5] = "forged"
                       /\ RewardPuts(h)[6] = "turn"
<1>1. CASE h = 0
    BY <1>1 DEF RewardPuts
<1>2. CASE h # 0
    BY <1>2 DEF RewardPuts, Names
<1> QED BY <1>1, <1>2

LEMMA ValidatorPutsAt ==
    ASSUME NEW h
    PROVE  /\ ValidatorPuts(h) \in Seq(Names)
           /\ Len(ValidatorPuts(h)) = IF h % ValidatorUpdateInterval = 0 THEN 1 ELSE 0
           /\ h % ValidatorUpdateInterval = 0 => ValidatorPuts(h)[1] = "validators"
<1>1. CASE h % ValidatorUpdateInterval = 0
    BY <1>1 DEF ValidatorPuts, Names
<1>2. CASE h % ValidatorUpdateInterval # 0
    BY <1>2 DEF ValidatorPuts
<1> QED BY <1>1, <1>2

LEMMA BlockPartsAt ==
    /\ BlockParts \in Seq(Names) /\ Len(BlockParts) = 5 /\ DOMAIN BlockParts = 1..5
    /\ BlockParts[1] = "header" /\ BlockParts[2] = "transactions" /\ BlockParts[3] = "results"
    /\ BlockParts[4] = "votes" /\ BlockParts[5] = "hash"
<1>1. BlockParts \in Seq(Names)
    BY DEF BlockParts, Names
<1>2. Len(BlockParts) = 5 /\ DOMAIN BlockParts = 1..5
    BY DEF BlockParts
<1>3. /\ BlockParts[1] = "header" /\ BlockParts[2] = "transactions" /\ BlockParts[3] = "results"
      /\ BlockParts[4] = "votes" /\ BlockParts[5] = "hash"
    BY DEF BlockParts
<1> QED BY <1>1, <1>2, <1>3

LEMMA ConcatAt ==
    ASSUME NEW S, NEW s \in Seq(S), NEW t \in Seq(S)
    PROVE  /\ s \o t \in Seq(S) /\ Len(s \o t) = Len(s) + Len(t)
           /\ \A i \in 1..Len(s) : (s \o t)[i] = s[i]
           /\ \A i \in 1..Len(t) : (s \o t)[Len(s) + i] = t[i]
<1>1. s \o t \in Seq(S) /\ Len(s \o t) = Len(s) + Len(t)
    OBVIOUS
<1>2. ASSUME NEW i \in 1..Len(s) PROVE (s \o t)[i] = s[i]
    OBVIOUS
<1>3. ASSUME NEW i \in 1..Len(t) PROVE (s \o t)[Len(s) + i] = t[i]
    OBVIOUS
<1> QED BY <1>1, <1>2, <1>3

\* Where each part of the sequence is.
LEMMA PutsAt ==
    ASSUME NEW h
    PROVE  LET t == Len(TxPuts(h))
               r == Len(RewardPuts(h))
               v == Len(ValidatorPuts(h)) IN
           /\ Puts(h) \in Seq(Names) /\ Len(Puts(h)) = 5 + t + r + v + 1
           /\ \A i \in 1..5 : Puts(h)[i] = BlockParts[i]
           /\ \A i \in 1..t : Puts(h)[5 + i] = TxPuts(h)[i]
           /\ \A i \in 1..r : Puts(h)[5 + t + i] = RewardPuts(h)[i]
           /\ \A i \in 1..v : Puts(h)[5 + t + r + i] = ValidatorPuts(h)[i]
           /\ Puts(h)[5 + t + r + v + 1] = "latest"
<1>1. PICK b \in Seq(Names) : b = BlockParts
    BY BlockPartsAt
<1>2. PICK t \in Seq(Names) : t = TxPuts(h)
    BY TxPutsAt
<1>3. PICK r \in Seq(Names) : r = RewardPuts(h)
    BY RewardPutsAt
<1>4. PICK v \in Seq(Names) : v = ValidatorPuts(h)
    BY ValidatorPutsAt
<1>5. PICK l \in Seq(Names) : l = <<"latest">>
    <2>1. <<"latest">> \in Seq(Names)
        BY DEF Names
    <2> QED BY <2>1
<1>6. Len(b) = 5 /\ Len(l) = 1 /\ l[1] = "latest"
    BY <1>1, <1>5, BlockPartsAt
<1>7. PICK q1 : q1 = b \o t
    OBVIOUS
<1>8. PICK q2 : q2 = q1 \o r
    OBVIOUS
<1>9. PICK q3 : q3 = q2 \o v
    OBVIOUS
<1>10. Puts(h) = q3 \o l
    BY <1>1, <1>2, <1>3, <1>4, <1>5, <1>7, <1>8, <1>9 DEF Puts
<1>11. /\ q1 \in Seq(Names) /\ Len(q1) = Len(b) + Len(t)
       /\ \A i \in 1..Len(b) : q1[i] = b[i]
       /\ \A i \in 1..Len(t) : q1[Len(b) + i] = t[i]
    BY <1>7, ConcatAt
<1>12. q1 \in Seq(Names)
    BY <1>11
<1>13. /\ q2 \in Seq(Names) /\ Len(q2) = Len(q1) + Len(r)
       /\ \A i \in 1..Len(q1) : q2[i] = q1[i]
       /\ \A i \in 1..Len(r) : q2[Len(q1) + i] = r[i]
    BY <1>8, <1>12, ConcatAt
<1>14. q2 \in Seq(Names)
    BY <1>13
<1>15. /\ q3 \in Seq(Names) /\ Len(q3) = Len(q2) + Len(v)
       /\ \A i \in 1..Len(q2) : q3[i] = q2[i]
       /\ \A i \in 1..Len(v) : q3[Len(q2) + i] = v[i]
    BY <1>9, <1>14, ConcatAt
<1>16. q3 \in Seq(Names)
    BY <1>15
<1>17. /\ Puts(h) \in Seq(Names) /\ Len(Puts(h)) = Len(q3) + Len(l)
       /\ \A i \in 1..Len(q3) : Puts(h)[i] = q3[i]
       /\ \A i \in 1..Len(l) : Puts(h)[Len(q3) + i] = l[i]
    BY <1>10, <1>16, ConcatAt
<1>18. Len(t) \in Nat /\ Len(r) \in Nat /\ Len(v) \in Nat /\ 1 \in 1..Len(l)
    BY <1>6
<1>19. Len(q1) = 5 + Len(t) /\ Len(q2) = 5 + Len(t) + Len(r)
       /\ Len(q3) = 5 + Len(t) + Len(r) + Len(v)
    BY <1>6, <1>11, <1>13, <1>15, <1>18
<1>20. ASSUME NEW i \in 1..5 PROVE Puts(h)[i] = b[i]
    <2>1. q1[i] = b[i]
        BY <1>6, <1>11
    <2>2. i \in 1..Len(q1) /\ i \in 1..Len(q2) /\ i \in 1..Len(q3)
        BY <1>18, <1>19
    <2>3. q2[i] = q1[i]
        BY <1>13, <2>2
    <2>4. q3[i] = q2[i]
        BY <1>15, <2>2
    <2> QED BY <2>1, <2>2, <2>3, <2>4, <1>17
<1>21. ASSUME NEW i \in 1..Len(t) PROVE Puts(h)[5 + i] = t[i]
    <2>1. q1[5 + i] = t[i]
        BY <1>6, <1>11
    <2>2. 5 + i \in 1..Len(q1) /\ 5 + i \in 1..Len(q2) /\ 5 + i \in 1..Len(q3)
        BY <1>18, <1>19
    <2> QED BY <2>1, <2>2, <1>13, <1>15, <1>17
<1>22. ASSUME NEW i \in 1..Len(r) PROVE Puts(h)[5 + Len(t) + i] = r[i]
    <2>1. q2[5 + Len(t) + i] = r[i]
        BY <1>13, <1>19
    <2>2. 5 + Len(t) + i \in 1..Len(q2) /\ 5 + Len(t) + i \in 1..Len(q3)
        BY <1>18, <1>19
    <2> QED BY <2>1, <2>2, <1>15, <1>17
<1>23. ASSUME NEW i \in 1..Len(v) PROVE Puts(h)[5 + Len(t) + Len(r) + i] = v[i]
    <2>1. q3[5 + Len(t) + Len(r) + i] = v[i]
        BY <1>15, <1>19
    <2>2. 5 + Len(t) + Len(r) + i \in 1..Len(q3)
        BY <1>18, <1>19
    <2> QED BY <2>1, <2>2, <1>17
<1>24. Len(Puts(h)) = 5 + Len(t) + Len(r) + Len(v) + 1
    BY <1>6, <1>17, <1>19
<1>25. Puts(h)[5 + Len(t) + Len(r) + Len(v) + 1] = "latest"
    BY <1>6, <1>17, <1>18, <1>19
<1> QED BY <1>1, <1>2, <1>3, <1>4, <1>17, <1>20, <1>21, <1>22, <1>23, <1>24, <1>25

\* What a block must have written before its number is the latest.
Required(h) ==
    {"header", "transactions", "results", "votes", "hash"}
    \cup (IF Sender(h) = NoSender THEN {} ELSE {"txIndex", "senderCount"})
    \cup (IF h = 0 THEN {} ELSE {"coinbaseIndex", "coinbaseHash", "coinbaseCount", "forged", "turn"})
    \cup (IF h % ValidatorUpdateInterval = 0 THEN {"validators"} ELSE {})

\* The order of the puts: each count follows its entry, and the latest number is last.
LEMMA PutsOrder ==
    ASSUME NEW h
    PROVE  /\ Len(Puts(h)) \in Nat /\ Len(Puts(h)) >= 6 /\ Puts(h)[1] = "header"
           /\ \A i \in 1..Len(Puts(h)) :
                /\ Puts(h)[i] \in Names
                /\ Puts(h)[i] = "latest" <=> i = Len(Puts(h))
                /\ Puts(h)[i] = "senderCount" => i > 1 /\ Puts(h)[i - 1] = "senderEntry"
                /\ Puts(h)[i] = "coinbaseCount" => i > 1 /\ Puts(h)[i - 1] = "coinbaseEntry"
                /\ Puts(h)[i] \in {"senderEntry", "senderCount"} => Sender(h) # NoSender
           /\ \A p \in Required(h) : \E i \in 1..Len(Puts(h)) - 1 : Puts(h)[i] = p
<1>1. PICK t \in {0, 3} : t = Len(TxPuts(h)) /\ t = IF Sender(h) = NoSender THEN 0 ELSE 3
    BY TxPutsAt
<1>2. PICK r \in {0, 6} : r = Len(RewardPuts(h)) /\ r = IF h = 0 THEN 0 ELSE 6
    BY RewardPutsAt
<1>3. PICK v \in {0, 1} : /\ v = Len(ValidatorPuts(h))
                          /\ v = IF h % ValidatorUpdateInterval = 0 THEN 1 ELSE 0
    BY ValidatorPutsAt
<1>4. PICK q : q = Puts(h)
    OBVIOUS
<1>4a. /\ \A i \in 1..Len(TxPuts(h)) : q[5 + i] = TxPuts(h)[i]
       /\ \A i \in 1..Len(RewardPuts(h)) : q[5 + Len(TxPuts(h)) + i] = RewardPuts(h)[i]
       /\ \A i \in 1..Len(ValidatorPuts(h)) :
            q[5 + Len(TxPuts(h)) + Len(RewardPuts(h)) + i] = ValidatorPuts(h)[i]
    BY ONLY <1>4, PutsAt, Zenon
<1>5. Len(q) = 5 + t + r + v + 1 /\ q[5 + t + r + v + 1] = "latest" /\ q \in Seq(Names)
    BY <1>1, <1>2, <1>3, <1>4, PutsAt
<1>6. /\ q[1] = "header" /\ q[2] = "transactions" /\ q[3] = "results"
      /\ q[4] = "votes" /\ q[5] = "hash"
    BY <1>4, PutsAt, BlockPartsAt
<1>7. t = 3 => q[6] = "txIndex" /\ q[7] = "senderEntry" /\ q[8] = "senderCount"
    <2> SUFFICES ASSUME t = 3 PROVE q[6] = "txIndex" /\ q[7] = "senderEntry" /\ q[8] = "senderCount"
        OBVIOUS
    <2>1. \A i \in 1..3 : q[5 + i] = TxPuts(h)[i]
        BY <1>1, <1>4a
    <2>2. q[5 + 1] = TxPuts(h)[1] /\ q[5 + 2] = TxPuts(h)[2] /\ q[5 + 3] = TxPuts(h)[3]
        BY <2>1
    <2> QED BY <2>2, <1>1, TxPutsAt
<1>8. r = 6 => /\ q[6 + t] = "coinbaseIndex" /\ q[7 + t] = "coinbaseHash"
               /\ q[8 + t] = "coinbaseEntry" /\ q[9 + t] = "coinbaseCount"
               /\ q[10 + t] = "forged" /\ q[11 + t] = "turn"
    <2> SUFFICES ASSUME r = 6
                 PROVE  /\ q[6 + t] = "coinbaseIndex" /\ q[7 + t] = "coinbaseHash"
                        /\ q[8 + t] = "coinbaseEntry" /\ q[9 + t] = "coinbaseCount"
                        /\ q[10 + t] = "forged" /\ q[11 + t] = "turn"
        OBVIOUS
    <2>1. \A i \in 1..6 : q[5 + t + i] = RewardPuts(h)[i]
        BY <1>1, <1>2, <1>4a
    <2>2. /\ q[6 + t] = RewardPuts(h)[1] /\ q[7 + t] = RewardPuts(h)[2]
          /\ q[8 + t] = RewardPuts(h)[3] /\ q[9 + t] = RewardPuts(h)[4]
          /\ q[10 + t] = RewardPuts(h)[5] /\ q[11 + t] = RewardPuts(h)[6]
        BY <2>1
    <2> QED BY <2>2, <1>2, RewardPutsAt
<1>9. v = 1 => q[6 + t + r] = "validators"
    <2> SUFFICES ASSUME v = 1 PROVE q[6 + t + r] = "validators"
        OBVIOUS
    <2>1. \A i \in 1..1 : q[5 + t + r + i] = ValidatorPuts(h)[i]
        BY <1>1, <1>2, <1>3, <1>4a
    <2>2. q[6 + t + r] = ValidatorPuts(h)[1]
        BY <2>1
    <2> QED BY <2>2, <1>3, ValidatorPutsAt
<1>10. ASSUME NEW i \in 1..Len(q)
       PROVE  /\ q[i] \in Names
              /\ q[i] = "latest" <=> i = Len(q)
              /\ q[i] = "senderCount" => i > 1 /\ q[i - 1] = "senderEntry"
              /\ q[i] = "coinbaseCount" => i > 1 /\ q[i - 1] = "coinbaseEntry"
              /\ q[i] \in {"senderEntry", "senderCount"} => t = 3
    <2>1. \/ i \in 1..5
          \/ t = 3 /\ i \in 6..8
          \/ r = 6 /\ i \in (6 + t)..(11 + t)
          \/ v = 1 /\ i = 6 + t + r
          \/ i = Len(q)
        BY <1>5
    <2>2. q[i] \in Names
        BY <1>5
    <2>3. CASE i \in 1..5
        BY <2>2, <2>3, <1>5, <1>6
    <2>4. CASE t = 3 /\ i \in 6..8
        BY <2>2, <2>4, <1>5, <1>7
    <2>5. CASE r = 6 /\ i \in (6 + t)..(11 + t)
        BY <2>2, <2>5, <1>5, <1>8
    <2>6. CASE v = 1 /\ i = 6 + t + r
        BY <2>2, <2>6, <1>5, <1>9
    <2>7. CASE i = Len(q)
        BY <2>2, <2>7, <1>5
    <2> QED BY <2>1, <2>3, <2>4, <2>5, <2>6, <2>7
<1>11. ASSUME NEW p \in Required(h) PROVE \E i \in 1..Len(q) - 1 : q[i] = p
    <2>1. CASE p \in {"header", "transactions", "results", "votes", "hash"}
        BY <2>1, <1>5, <1>6
    <2>2. CASE t = 3 /\ p \in {"txIndex", "senderCount"}
        BY <2>2, <1>5, <1>7
    <2>3. CASE r = 6 /\ p \in {"coinbaseIndex", "coinbaseHash", "coinbaseCount", "forged", "turn"}
        <3>1. 6 + t \in 1..Len(q) - 1 /\ 7 + t \in 1..Len(q) - 1 /\ 9 + t \in 1..Len(q) - 1
              /\ 10 + t \in 1..Len(q) - 1 /\ 11 + t \in 1..Len(q) - 1
            BY <2>3, <1>5
        <3> QED BY <2>3, <3>1, <1>8
    <2>4. CASE v = 1 /\ p = "validators"
        <3>1. 6 + t + r \in 1..Len(q) - 1
            BY <2>4, <1>5
        <3> QED BY <2>4, <3>1, <1>9
    <2> QED BY <2>1, <2>2, <2>3, <2>4, <1>1, <1>2, <1>3 DEF Required
<1>12. Len(q) \in Nat /\ Len(q) >= 6
    BY <1>5
<1> QED BY <1>1, <1>4, <1>6, <1>10, <1>11, <1>12

----------------------------------------------------------------------------
\* What a put leaves behind.
Counted(d, k, h) == \E i \in 1..d.count[k] : d.listed[k][i] = h

Effect(d, p, h) ==
    CASE p = "senderCount"   -> Counted(d, Sender(h), h)
      [] p = "coinbaseCount" -> Counted(d, Coinbase, h)
      [] p = "forged"        -> Includes(d.forged, h)
      [] p = "turn"          -> Includes(d.turns, h)
      [] p = "validators"    -> d.validators = h
      [] p \in {"senderEntry", "coinbaseEntry", "latest"} -> TRUE
      [] OTHER               -> <<p, h>> \in d.parts

LEMMA AppendIncludes ==
    ASSUME NEW s \in Seq(Heights), NEW h \in Heights
    PROVE  /\ Append(s, h) \in Seq(Heights)
           /\ Includes(Append(s, h), h)
           /\ \A g : Includes(s, g) => Includes(Append(s, h), g)
<1>1. Append(s, h) \in Seq(Heights) /\ Len(Append(s, h)) = Len(s) + 1
    OBVIOUS
<1>2. \A i \in 1..Len(s) : Append(s, h)[i] = s[i]
    OBVIOUS
<1>3. Append(s, h)[Len(s) + 1] = h /\ Len(s) \in Nat
    OBVIOUS
<1>4. DOMAIN s = 1..Len(s) /\ DOMAIN Append(s, h) = 1..(Len(s) + 1)
    BY <1>1
<1>5. Len(s) + 1 \in DOMAIN Append(s, h) /\ \A i \in DOMAIN s : i \in DOMAIN Append(s, h)
    BY <1>3, <1>4
<1> QED BY <1>1, <1>2, <1>3, <1>4, <1>5 DEF Includes

\* A new entry follows those that count.
LEMMA NextEntryKeeps ==
    ASSUME NEW d, IsDisk(d), NEW k \in Keys, NEW h \in Heights
    PROVE  LET e == NextEntry(d, k, h) IN
           /\ IsDisk(e) /\ Pending(e, k, h)
           /\ e.state = d.state /\ e.parts = d.parts /\ e.forged = d.forged /\ e.turns = d.turns
           /\ e.validators = d.validators /\ e.latest = d.latest
           /\ \A j \in Keys : \A g : Counted(d, j, g) => Counted(e, j, g)
<1> DEFINE n == d.count[k]
           s == d.listed[k]
           t == SubSeq(s, 1, n)
           u == Append(t, h)
           e == NextEntry(d, k, h)
<1>1. n \in Nat /\ s \in Seq(Heights) /\ n <= Len(s)
    BY DEF IsDisk
<1>2. /\ t \in Seq(Heights) /\ Len(t) = n /\ \A i \in 1..n : t[i] = s[i]
    <2>1. \A i \in 1..n : s[i] \in Heights
        BY <1>1
    <2>2. /\ t \in Seq(Heights) /\ Len(t) = (IF 1 <= n THEN n - 1 + 1 ELSE 0)
          /\ \A i \in 1..(n - 1 + 1) : t[i] = s[1 + i - 1]
        BY <1>1, <2>1, SubSeqProperties
    <2> HIDE DEF t, s, n
    <2> QED BY <1>1, <2>2
<1> HIDE DEF t
<1>3. /\ u \in Seq(Heights) /\ Len(u) = n + 1 /\ u[n + 1] = h
      /\ \A i \in 1..n : u[i] = s[i]
    <2>1. u \in Seq(Heights) /\ Len(u) = n + 1 /\ u[n + 1] = h
        BY <1>1, <1>2
    <2>2. \A i \in 1..n : u[i] = t[i]
        BY <1>1, <1>2
    <2> QED BY <1>2, <2>1, <2>2
<1> HIDE DEF u
<1>4. e = [d EXCEPT !.listed[k] = u]
    BY DEF NextEntry, t, u
<1> HIDE DEF e
<1>5. e = [d EXCEPT !.listed = [@ EXCEPT ![k] = u]]
    BY <1>4
<1>6. /\ e.state = d.state /\ e.parts = d.parts /\ e.forged = d.forged /\ e.turns = d.turns
      /\ e.validators = d.validators /\ e.latest = d.latest /\ e.count = d.count
      /\ e.listed = [d.listed EXCEPT ![k] = u]
    BY <1>5 DEF IsDisk
<1>7. IsDisk(e)
    <2>1. [d.listed EXCEPT ![k] = u] \in [Keys -> Seq(Heights)]
        BY <1>3 DEF IsDisk
    <2>2. e \in [state : [Keys -> Seq(Heights)], parts : SUBSET (Names \X Heights),
                   listed : [Keys -> Seq(Heights)], count : [Keys -> Nat],
                   forged : Seq(Heights), turns : Seq(Heights),
                   validators : Heights \cup {None}, latest : Heights \cup {None}]
        BY <1>5, <2>1 DEF IsDisk
    <2>3. ASSUME NEW j \in Keys PROVE e.count[j] <= Len(e.listed[j])
        <3>1. CASE j = k
            BY <3>1, <1>1, <1>3, <1>6 DEF IsDisk
        <3>2. CASE j # k
            BY <3>2, <1>6 DEF IsDisk
        <3> QED BY <3>1, <3>2
    <2> QED BY <2>2, <2>3 DEF IsDisk
<1>8. Pending(e, k, h)
    BY <1>1, <1>3, <1>6 DEF Pending, IsDisk
<1>9. ASSUME NEW j \in Keys, NEW g, Counted(d, j, g) PROVE Counted(e, j, g)
    BY <1>1, <1>3, <1>6, <1>9 DEF Counted, IsDisk
<1> QED BY <1>6, <1>7, <1>8, <1>9 DEF e

\* The entry that was written counts from now on.
LEMMA CountKeeps ==
    ASSUME NEW d, IsDisk(d), NEW k \in Keys, NEW h \in Heights, Pending(d, k, h),
           NEW e, e = [d EXCEPT !.count[k] = @ + 1]
    PROVE  /\ IsDisk(e) /\ Counted(e, k, h)
           /\ e.state = d.state /\ e.parts = d.parts /\ e.forged = d.forged /\ e.turns = d.turns
           /\ e.validators = d.validators /\ e.latest = d.latest
           /\ \A j \in Keys : \A g : Counted(d, j, g) => Counted(e, j, g)
<1>1. e = [d EXCEPT !.count = [d.count EXCEPT ![k] = d.count[k] + 1]]
    OBVIOUS
<1>2. /\ e.state = d.state /\ e.parts = d.parts /\ e.forged = d.forged /\ e.turns = d.turns
      /\ e.validators = d.validators /\ e.latest = d.latest /\ e.listed = d.listed
      /\ e.count = [d.count EXCEPT ![k] = d.count[k] + 1]
    BY <1>1 DEF IsDisk
<1>3. /\ d.count \in [Keys -> Nat] /\ d.listed \in [Keys -> Seq(Heights)]
      /\ d.count[k] < Len(d.listed[k]) /\ d.listed[k][d.count[k] + 1] = h
    BY DEF IsDisk, Pending
<1>4. IsDisk(e)
    <2>1. [d.count EXCEPT ![k] = d.count[k] + 1] \in [Keys -> Nat]
        BY <1>3
    <2>2. e \in [state : [Keys -> Seq(Heights)], parts : SUBSET (Names \X Heights),
                   listed : [Keys -> Seq(Heights)], count : [Keys -> Nat],
                   forged : Seq(Heights), turns : Seq(Heights),
                   validators : Heights \cup {None}, latest : Heights \cup {None}]
        BY <1>1, <2>1 DEF IsDisk
    <2>3. ASSUME NEW j \in Keys PROVE e.count[j] <= Len(e.listed[j])
        <3>1. CASE j = k
            BY <3>1, <1>2, <1>3
        <3>2. CASE j # k
            BY <3>2, <1>2, <1>3 DEF IsDisk
        <3> QED BY <3>1, <3>2
    <2> QED BY <2>2, <2>3 DEF IsDisk
<1>5. Counted(e, k, h)
    BY <1>2, <1>3 DEF Counted
<1>6. ASSUME NEW j \in Keys, NEW g, Counted(d, j, g) PROVE Counted(e, j, g)
    <2>1. PICK i \in 1..d.count[j] : d.listed[j][i] = g
        BY <1>6 DEF Counted
    <2>2. d.count[j] \in Nat /\ e.count[j] \in Nat /\ d.count[j] <= e.count[j]
        <3>1. CASE j = k
            BY <3>1, <1>2, <1>3
        <3>2. CASE j # k
            BY <3>2, <1>2, <1>3
        <3> QED BY <3>1, <3>2
    <2>3. i \in 1..e.count[j]
        BY <2>2
    <2> QED BY <2>1, <2>3, <1>2 DEF Counted
<1> QED BY <1>2, <1>4, <1>5, <1>6

\* What a put of a block does to the disk, and what it leaves alone.
Kept(d, e, p, h) ==
    /\ IsDisk(e) /\ e.state = d.state /\ d.parts \subseteq e.parts
    /\ e.latest = IF p = "latest" THEN h ELSE d.latest
    /\ e.validators = IF p = "validators" THEN h ELSE d.validators
    /\ \A k \in Keys : \A g : Counted(d, k, g) => Counted(e, k, g)
    /\ \A g : Includes(d.forged, g) => Includes(e.forged, g)
    /\ \A g : Includes(d.turns, g) => Includes(e.turns, g)

LEMMA PutKeeps ==
    ASSUME NEW d, IsDisk(d), NEW h \in Heights, NEW p \in Names, NEW e, e = Put(d, p, h),
           p \in {"senderEntry", "senderCount"} => Sender(h) # NoSender,
           p = "senderCount" => Pending(d, Sender(h), h),
           p = "coinbaseCount" => Pending(d, Coinbase, h)
    PROVE  /\ Kept(d, e, p, h) /\ Effect(e, p, h)
           /\ p = "senderEntry" => Pending(e, Sender(h), h)
           /\ p = "coinbaseEntry" => Pending(e, Coinbase, h)
<1>1. CASE p = "senderEntry"
    <2>1. Sender(h) \in Keys
        BY <1>1, CommitAssumption
    <2>2. e = NextEntry(d, Sender(h), h)
        BY <1>1 DEF Put
    <2> QED BY <1>1, <2>1, <2>2, NextEntryKeeps DEF Kept, Effect
<1>2. CASE p = "coinbaseEntry"
    <2>1. Coinbase \in Keys
        BY CommitAssumption
    <2>2. e = NextEntry(d, Coinbase, h)
        BY <1>2 DEF Put
    <2> QED BY <1>2, <2>1, <2>2, NextEntryKeeps DEF Kept, Effect
<1>3. CASE p = "senderCount"
    <2>1. Sender(h) \in Keys
        BY <1>3, CommitAssumption
    <2>2. e = [d EXCEPT !.count[Sender(h)] = @ + 1]
        BY <1>3 DEF Put
    <2> QED BY <1>3, <2>1, <2>2, CountKeeps DEF Kept, Effect
<1>4. CASE p = "coinbaseCount"
    <2>1. Coinbase \in Keys
        BY CommitAssumption
    <2>2. e = [d EXCEPT !.count[Coinbase] = @ + 1]
        BY <1>4 DEF Put
    <2> QED BY <1>4, <2>1, <2>2, CountKeeps DEF Kept, Effect
<1>5. CASE p = "forged"
    <2>1. d.forged \in Seq(Heights) /\ e = [d EXCEPT !.forged = Append(d.forged, h)]
        BY <1>5 DEF Put, IsDisk
    <2>2. /\ e.state = d.state /\ e.parts = d.parts /\ e.listed = d.listed /\ e.count = d.count
          /\ e.forged = Append(d.forged, h) /\ e.turns = d.turns
          /\ e.validators = d.validators /\ e.latest = d.latest
        BY <2>1 DEF IsDisk
    <2>3. IsDisk(e)
        <3>1. Append(d.forged, h) \in Seq(Heights)
            BY <2>1
        <3> QED BY <2>1, <3>1 DEF IsDisk
    <2> QED BY <1>5, <2>1, <2>2, <2>3, AppendIncludes DEF Kept, Effect, Counted
<1>6. CASE p = "turn"
    <2>1. d.turns \in Seq(Heights) /\ e = [d EXCEPT !.turns = Append(d.turns, h)]
        BY <1>6 DEF Put, IsDisk
    <2>2. /\ e.state = d.state /\ e.parts = d.parts /\ e.listed = d.listed /\ e.count = d.count
          /\ e.turns = Append(d.turns, h) /\ e.forged = d.forged
          /\ e.validators = d.validators /\ e.latest = d.latest
        BY <2>1 DEF IsDisk
    <2>3. IsDisk(e)
        <3>1. Append(d.turns, h) \in Seq(Heights)
            BY <2>1
        <3> QED BY <2>1, <3>1 DEF IsDisk
    <2> QED BY <1>6, <2>1, <2>2, <2>3, AppendIncludes DEF Kept, Effect, Counted
<1>7. CASE p = "validators"
    <2>1. e = [d EXCEPT !.validators = h]
        BY <1>7 DEF Put
    <2>2. IsDisk(e)
        BY <2>1 DEF IsDisk
    <2> QED BY <1>7, <2>1, <2>2 DEF Kept, Effect, Counted, IsDisk
<1>8. CASE p = "latest"
    <2>1. e = [d EXCEPT !.latest = h]
        BY <1>8 DEF Put
    <2>2. IsDisk(e)
        BY <2>1 DEF IsDisk
    <2> QED BY <1>8, <2>1, <2>2 DEF Kept, Effect, Counted, IsDisk
<1>9. CASE p \notin {"senderEntry", "coinbaseEntry", "senderCount", "coinbaseCount", "forged",
                     "turn", "validators", "latest"}
    <2>1. e = [d EXCEPT !.parts = d.parts \cup {<<p, h>>}]
        BY <1>9 DEF Put
    <2>2. d.parts \cup {<<p, h>>} \in SUBSET (Names \X Heights)
        BY DEF IsDisk
    <2>3. IsDisk(e)
        BY <2>1, <2>2 DEF IsDisk
    <2>4. /\ e.state = d.state /\ e.parts = d.parts \cup {<<p, h>>} /\ e.listed = d.listed
          /\ e.count = d.count /\ e.forged = d.forged /\ e.turns = d.turns
          /\ e.validators = d.validators /\ e.latest = d.latest
        BY <2>1 DEF IsDisk
    <2> QED BY <1>9, <2>3, <2>4 DEF Kept, Effect, Counted
<1> QED BY <1>1, <1>2, <1>3, <1>4, <1>5, <1>6, <1>7, <1>8, <1>9

----------------------------------------------------------------------------
\* Steps that do not concern any block.
Quiet ==
    /\ UNCHANGED <<commit, job, overlapped, lock>>
    /\ kernel \in {"down", "opening"} \/ kernel' \in {"down", "opening"} => kernel' = kernel
    /\ \A t \in Threads : place(t)' = place(t) \/ {place(t), place(t)'} \cap Applying = {}

LEMMA KernelQuiet ==
    ASSUME Threading, StopSync \/ Stop
    PROVE  Quiet /\ Places' /\ Alone'
<1> USE DEF Threading, Places, Alone, Applying, KernelGoes, Quiet, place, Threads
<1>1. CASE StopSync
    BY <1>1 DEF StopSync
<1>2. CASE ReadStatus
    BY <1>2 DEF ReadStatus
<1>3. CASE SetStopped
    BY <1>3 DEF SetStopped
<1>4. CASE OfferStop
    BY <1>4 DEF OfferStop
<1>5. CASE Join
    BY <1>5 DEF Join
<1>6. CASE CloseDb
    BY <1>6 DEF CloseDb
<1> QED BY <1>1, <1>2, <1>3, <1>4, <1>5, <1>6 DEF Stop

LEMMA ConsensusQuiet ==
    ASSUME Threading, Consensus \/ OtherEvent \/ OnTimeout \/ OnNewHeight
    PROVE  Quiet /\ Places' /\ Alone'
<1> USE DEF Threading, Places, Alone, Applying, ConsGoes, SyncUnchanged, Quiet, place, Threads
<1>1. CASE Start
    BY <1>1 DEF Start
<1>2. CASE EnterNewHeight
    <2>1. latestBlock + 1 \in 0..MaxHeight + 1
        BY CommitAssumption DEF Numbers, Heights, None
    <2> QED BY <1>2, <2>1 DEF EnterNewHeight
<1>3. CASE ClearEvents
    BY <1>3 DEF ClearEvents
<1>4. CASE LoopCondition
    BY <1>4 DEF LoopCondition
<1>5. CASE TakeStop
    BY <1>5 DEF TakeStop
<1>6. CASE CheckRunning
    BY <1>6 DEF CheckRunning
<1>7. CASE Pause
    BY <1>7 DEF Pause
<1>8. CASE StartSync
    <2>1. target' \in 0..MaxHeight + 1
        BY <1>8, CommitAssumption DEF StartSync
    <2> QED BY <1>8, <2>1 DEF StartSync
<1>9. CASE CancelTask
    BY <1>9 DEF CancelTask
<1>10. CASE CheckStopped
    BY <1>10 DEF CheckStopped
<1>11. CASE Restore
    BY <1>11 DEF Restore
<1>12. CASE OtherEvent
    BY <1>12 DEF OtherEvent
<1>13. CASE OnTimeout
    BY <1>13 DEF OnTimeout
<1>14. CASE OnNewHeight
    BY <1>14 DEF OnNewHeight
<1> QED BY <1>1, <1>2, <1>3, <1>4, <1>5, <1>6, <1>7, <1>8, <1>9, <1>10, <1>11, <1>12, <1>13,
           <1>14 DEF Consensus

LEMMA TargetQuiet ==
    ASSUME Threading, TargetReached
    PROVE  Quiet /\ Places' /\ Alone'
BY DEF Threading, Places, Alone, Applying, Quiet, place, Threads, TargetReached, TaskRuns, engine

LEMMA StutterQuiet ==
    ASSUME Threading, UNCHANGED vars
    PROVE  Quiet /\ Places' /\ Alone'
BY DEF Threading, Places, Alone, Applying, Quiet, place, Threads, vars, engine, sync

\* The block stays what it is.
LEMMA QuietThreading ==
    ASSUME Threading, Quiet, Places', Alone'
    PROVE  Threading'
<1>1. /\ disk' = disk /\ updates' = updates /\ latestBlock' = latestBlock /\ writer' = writer
      /\ torn' = torn /\ job' = job /\ overlapped' = overlapped /\ lock' = lock
    BY DEF Quiet, commit
<1>2. Jobs'
    BY <1>1 DEF Jobs, Quiet, Threading, Threads
<1>3. Locks'
    BY <1>1 DEF Locks, Quiet, Threading, Threads, Applying
<1>4. Numbers'
    BY <1>1 DEF Numbers, Quiet, Threading
<1>5. Writers'
    BY <1>1 DEF Writers, Writing, Threading
<1>6. Values'
    BY <1>1 DEF Values, Writing, NextPut, Threading
<1> QED BY <1>2, <1>3, <1>4, <1>5, <1>6 DEF Threading

\* The steps of applying a block, one lemma each.
LEMMA NoWriterHeight == NoWriter.height = None /\ NoWriter.keys = {} /\ NoWriter.next = 0
BY DEF NoWriter

LEMMA HeightsAre ==
    /\ MaxHeight \in Nat /\ 0 \in Heights /\ None \notin Heights
    /\ \A h \in Heights : h \in Nat /\ h <= MaxHeight
BY CommitAssumption DEF Heights, None

\* A block that the thread t executes.
Executes(t) == \E h \in Heights \ {0} :
    /\ h = latestBlock + 1
    /\ Execute(t, h) /\ place(t) \notin Applying /\ MoveTo(t, "executed")
    /\ UNCHANGED <<commit, kernel, status, isRunning, lock>>
    /\ t = "sync" => isRunning

LEMMA StartsToApply ==
    ASSUME Threading, EnterFinalize \/ Process
    PROVE  /\ kernel \notin {"down", "opening"} /\ Places' /\ Alone'
           /\ \E t \in Threads : Executes(t)
<1>1. CASE EnterFinalize
    <2>1. kernel \notin {"down", "opening"}
        BY <1>1 DEF EnterFinalize, ConsGoes, Threading, Alone
    <2>2. latestBlock \in Heights /\ height = latestBlock + 1 /\ height <= MaxHeight
        BY <1>1, <2>1 DEF EnterFinalize, Threading, Numbers
    <2>3. height \in Heights \ {0}
        BY <2>2, HeightsAre DEF Heights
    <2>4. Executes("cons")
        BY <1>1, <2>2, <2>3
        DEF EnterFinalize, ConsGoes, SyncUnchanged, Executes, MoveTo, place, Applying
    <2>5. Places' /\ Alone'
        BY <1>1 DEF EnterFinalize, ConsGoes, SyncUnchanged, Threading, Places, Alone, Applying
    <2> QED BY <2>1, <2>4, <2>5 DEF Threads
<1>2. CASE Process
    <2>1. kernel \notin {"down", "opening"} /\ isRunning
        BY <1>2 DEF Process, TaskRuns, Threading, Alone
    <2>2. latestBlock \in Heights /\ latestBlock + 1 \in Heights \ {0}
        <3>1. latestBlock \in Heights
            BY <2>1 DEF Threading, Numbers
        <3>2. latestBlock + 1 < target /\ target \in 0..MaxHeight + 1
            BY <1>2 DEF Process, Threading, Places
        <3> QED BY <3>1, <3>2, HeightsAre DEF Heights
    <2>3. Executes("sync")
        BY <1>2, <2>1, <2>2 DEF Process, TaskRuns, Executes, MoveTo, place, Applying, engine
    <2>4. Places' /\ Alone'
        BY <1>2 DEF Process, TaskRuns, engine, Threading, Places, Alone, Applying
    <2> QED BY <2>1, <2>3, <2>4 DEF Threads
<1> QED BY <1>1, <1>2

LEMMA Reads ==
    ASSUME Values, NEW k \in Keys
    PROVE  Read(k) \in Seq(Heights)
BY DEF Values, IsDisk, IsUpdates, Read

LEMMA OverlayIs ==
    ASSUME Values, NEW h \in Heights
    PROVE  /\ IsUpdates(Overlay(h)) /\ DOMAIN Overlay(h) = Touches(h)
           /\ \A k \in Touches(h) : Overlay(h)[k] = Append(Read(k), h)
<1>1. Touches(h) \subseteq Keys
    BY CommitAssumption
<1>2. \A k \in Touches(h) : Append(Read(k), h) \in Seq(Heights)
    BY <1>1, Reads
<1> QED BY <1>1, <1>2 DEF Overlay, IsUpdates

LEMMA ExecuteThreading ==
    ASSUME Threading, Places', Alone', kernel \notin {"down", "opening"},
           NEW t \in Threads, Executes(t)
    PROVE  Threading'
<1>1. PICK h \in Heights \ {0} :
        /\ h = latestBlock + 1
        /\ Execute(t, h) /\ place(t) \notin Applying /\ MoveTo(t, "executed")
        /\ UNCHANGED <<commit, kernel, status, isRunning, lock>>
    BY DEF Executes
<1>2. /\ disk' = disk /\ updates' = updates /\ latestBlock' = latestBlock /\ writer' = writer
      /\ torn' = torn /\ lock' = lock /\ kernel' = kernel
      /\ job' = [job EXCEPT ![t] = [height |-> h, overlay |-> Overlay(h)]]
    BY <1>1 DEF commit, Execute
<1>3. job = [x \in Threads |-> job[x]]
    BY DEF Threading, Jobs
<1>4. /\ job'[t].height = h /\ job'[t].overlay = Overlay(h)
      /\ \A x \in Threads : x # t => job'[x] = job[x]
    BY <1>2, <1>3
<1>5. /\ place(t)' = "executed" /\ \A x \in Threads : x # t => place(x)' = place(x)
    BY <1>1 DEF MoveTo, place, Threads
<1>6. Jobs'
    <2>1. job' = [x \in Threads |-> job'[x]]
        BY <1>2, <1>3
    <2> QED BY <1>1, <1>4, <1>5, <2>1 DEF Threading, Jobs, Applying
<1>7. Locks'
    BY <1>1, <1>2, <1>4, <1>5 DEF Threading, Locks, Applying
<1>8. Numbers' /\ Writers'
    BY <1>2 DEF Threading, Numbers, Writers, Writing
<1>9. Values'
    <2>1. \A x \in Threads : IsUpdates(job'[x].overlay)
        BY <1>4, OverlayIs DEF Threading, Values
    <2>2. overlapped' \subseteq Heights
        <3>1. overlapped' \subseteq overlapped \cup {h, job[Other(t)].height}
            BY <1>1 DEF Execute
        <3>2. job[Other(t)] # NoJob => job[Other(t)].height \in Heights
            BY DEF Threading, Jobs, Threads, Other
        <3>3. overlapped' = overlapped \/ job[Other(t)] # NoJob
            BY <1>1 DEF Execute
        <3> QED BY <3>1, <3>2, <3>3 DEF Threading, Values
    <2> QED BY <1>2, <2>1, <2>2 DEF Threading, Values, Writing, NextPut
<1> QED BY <1>6, <1>7, <1>8, <1>9 DEF Threading

LEMMA CommitThreading ==
    ASSUME Threading, NEW t \in Threads, CommitOverlay(t)
    PROVE  Threading'
<1>1. /\ disk' = disk /\ latestBlock' = latestBlock /\ writer' = writer /\ torn' = torn
      /\ lock' = lock /\ kernel' = kernel /\ job' = job /\ overlapped' = overlapped
      /\ isRunning' = isRunning
      /\ place(t) = "executed"
    BY DEF CommitOverlay, Merge, ApplyFrame
<1>2. /\ place(t)' = "committed" /\ \A x \in Threads : x # t => place(x)' = place(x)
    BY DEF CommitOverlay, MoveTo, place, Threads
<1>3. /\ IsUpdates(updates') /\ DOMAIN updates \subseteq DOMAIN updates'
    BY DEF CommitOverlay, Merge, Threading, Values, IsUpdates
<1>4. Places' /\ Alone'
    BY <1>1
    DEF CommitOverlay, ApplyFrame, MoveTo, place, Threading, Places, Alone, Applying, Threads
<1>5. Jobs' /\ Locks'
    BY <1>1, <1>2 DEF Threading, Jobs, Locks, Applying
<1>6. kernel # "down"
    BY <1>1 DEF Threading, Alone, place, Threads
<1>7. Numbers'
    BY <1>1, <1>6 DEF Threading, Numbers
<1>8. Writers'
    BY <1>1, <1>3 DEF Threading, Writers, Writing
<1>9. Values'
    BY <1>1, <1>3 DEF Threading, Values, Writing, NextPut
<1> QED BY <1>4, <1>5, <1>7, <1>8, <1>9 DEF Threading

\* The length of the puts and the first of them.
PutsOf(h) == Len(Puts(h)) \in Nat /\ Len(Puts(h)) >= 6 /\ Puts(h)[1] = "header"

LEMMA TakeThreading ==
    ASSUME Threading, NEW t \in Threads, TakeLock(t)
    PROVE  Threading'
<1>1. /\ disk' = disk /\ latestBlock' = latestBlock /\ updates' = updates /\ torn' = torn
      /\ kernel' = kernel /\ job' = job /\ overlapped' = overlapped
      /\ lock = Nobody /\ lock' = t
      /\ place(t) = "committed"
      /\ writer' = [height |-> job[t].height, keys |-> DOMAIN updates, next |-> 1]
    BY DEF TakeLock, BeginWriting, ApplyFrame
<1>2. /\ place(t)' = "writing" /\ \A x \in Threads : x # t => place(x)' = place(x)
    BY DEF TakeLock, MoveTo, place, Threads
<1>3. job[t].height \in Heights \ {0} /\ DOMAIN updates \subseteq Keys
    BY <1>1 DEF Threading, Jobs, Applying, Values, IsUpdates
<1>4. Places' /\ Alone'
    BY DEF TakeLock, ApplyFrame, MoveTo, place, Threading, Places, Alone, Applying, Threads
<1>5. Jobs'
    BY <1>1, <1>2 DEF Threading, Jobs, Applying
<1>6. Locks'
    <2>1. writer' # NoWriter
        BY <1>1, <1>3, HeightsAre, NoWriterHeight
    <2>2. t # "kernel" /\ Nobody # "kernel" /\ Nobody \notin Threads
        BY NodeAssumption DEF Threads
    <2>3. ASSUME NEW x \in Threads PROVE lock' = x <=> place(x)' = "writing"
        <3>1. CASE x = t
            BY <3>1, <1>1, <1>2
        <3>2. CASE x # t
            <4>1. place(x) # "writing"
                BY <1>1, <2>2 DEF Threading, Locks
            <4> QED BY <3>2, <4>1, <1>1, <1>2
        <3> QED BY <3>1, <3>2
    <2>4. writer'.height = job'[t].height
        BY <1>1
    <2>5. kernel' # "opening"
        BY <1>1, <2>2 DEF Threading, Locks
    <2> QED BY <1>1, <2>1, <2>2, <2>3, <2>4, <2>5 DEF Locks
<1>7. Numbers'
    BY <1>1 DEF Threading, Numbers
<1>8. PutsOf(writer'.height)
    BY PutsOrder DEF PutsOf
<1>9. Writers'
    <2>1. writer'.height = job[t].height /\ writer'.keys = DOMAIN updates /\ writer'.next = 1
        BY <1>1
    <2>2. writer' \in [height : Heights \cup {None}, keys : SUBSET Keys, next : Nat]
        BY <1>1, <1>3
    <2> QED BY <1>1, <1>3, <1>8, <2>1, <2>2 DEF Writers, Writing, PutsOf
<1>10. Values'
    <2>1. writer'.next = 1
        BY <1>1
    <2>2. NextPut' = "header"
        BY <1>8, <2>1 DEF NextPut, PutsOf
    <2> QED BY <1>1, <2>2 DEF Threading, Values
<1> QED BY <1>4, <1>5, <1>6, <1>7, <1>9, <1>10 DEF Threading

LEMMA FlushThreading ==
    ASSUME Threading, Write, Flush
    PROVE  Threading'
<1>1. PICK k \in writer.keys :
        /\ disk' = [disk EXCEPT !.state[k] = updates[k]]
        /\ writer' = [writer EXCEPT !.keys = @ \ {k}]
        /\ updates' = IF writer.keys = {k} THEN NoUpdates ELSE updates
        /\ latestBlock' = latestBlock /\ torn' = torn
    BY DEF Flush
<1>2. /\ kernel' = kernel /\ cons' = cons /\ task' = task /\ job' = job /\ overlapped' = overlapped
      /\ lock' = lock /\ lock # Nobody /\ status' = status /\ isRunning' = isRunning
      /\ height' = height /\ target' = target
    BY DEF Write, ApplyFrame
<1>3. Writing /\ writer.height \in Heights /\ writer.keys \subseteq DOMAIN updates
      /\ k \in Keys /\ updates[k] \in Seq(Heights)
    BY <1>1, <1>2 DEF Threading, Locks, Writing, Writers, Values, IsUpdates
<1>4. /\ disk'.state = [disk.state EXCEPT ![k] = updates[k]] /\ disk'.parts = disk.parts
      /\ disk'.listed = disk.listed /\ disk'.count = disk.count /\ disk'.forged = disk.forged
      /\ disk'.turns = disk.turns /\ disk'.validators = disk.validators
      /\ disk'.latest = disk.latest
    BY <1>1 DEF Threading, Values, IsDisk
<1>5. IsDisk(disk')
    <2>1. disk' = [disk EXCEPT !.state = [disk.state EXCEPT ![k] = updates[k]]]
        BY <1>1
    <2>2. [disk.state EXCEPT ![k] = updates[k]] \in [Keys -> Seq(Heights)]
        BY <1>3 DEF Threading, Values, IsDisk
    <2> QED BY <2>1, <2>2, <1>4 DEF Threading, Values, IsDisk
<1>6. /\ writer'.height = writer.height /\ writer'.keys = writer.keys \ {k}
      /\ writer'.next = writer.next
      /\ writer' \in [height : Heights \cup {None}, keys : SUBSET Keys, next : Nat]
    BY <1>1 DEF Threading, Writers
<1>7. writer' # NoWriter
    BY <1>3, <1>6, HeightsAre, NoWriterHeight
<1>8. Places' /\ Alone'
    BY <1>2 DEF Threading, Places, Alone
<1>9. Jobs'
    BY <1>2 DEF Threading, Jobs, place
<1>10. Locks'
    BY <1>2, <1>3, <1>6, <1>7 DEF Threading, Locks, place, Writing
<1>11. Numbers'
    <2>1. kernel # "down"
        BY <1>2 DEF Threading, Alone, Locks, place, Threads, Applying
    <2> QED BY <1>1, <1>2, <1>4, <2>1 DEF Threading, Numbers
<1>12. writer.next = 1
    BY <1>1, <1>3, PutsOrder DEF Threading, Writers
<1>13. Writers'
    BY <1>1, <1>3, <1>6, <1>12 DEF Threading, Writers, Writing
<1>14. Values'
    <2>1. IsUpdates(updates')
        BY <1>1 DEF Threading, Values, IsUpdates, NoUpdates
    <2>2. NextPut' = NextPut /\ NextPut = "header"
        BY <1>6, <1>12, PutsOrder DEF NextPut
    <2> QED BY <1>1, <1>2, <1>5, <2>1, <2>2 DEF Threading, Values
<1> QED BY <1>8, <1>9, <1>10, <1>11, <1>13, <1>14 DEF Threading

LEMMA PutThreading ==
    ASSUME Threading, Write, PutNext
    PROVE  /\ Threading'
           /\ Kept(disk, disk', NextPut, writer.height) /\ Effect(disk', NextPut, writer.height)
<1> DEFINE h == writer.height
           n == writer.next
           p == NextPut
<1>1. /\ kernel' = kernel /\ cons' = cons /\ task' = task /\ job' = job /\ overlapped' = overlapped
      /\ lock' = lock /\ lock # Nobody /\ status' = status /\ isRunning' = isRunning
      /\ height' = height /\ target' = target
    BY DEF Write, ApplyFrame
<1>2. /\ disk' = Put(disk, p, h) /\ latestBlock' = IF p = "latest" THEN h ELSE latestBlock
      /\ writer' = [writer EXCEPT !.next = n + 1]
      /\ updates' = updates /\ torn' = torn
      /\ writer.keys = {} /\ (n > 1 \/ Addable(h)) /\ n <= Len(Puts(h))
    BY DEF PutNext, NextPut
<1>3. /\ Writing /\ h \in Heights /\ n \in Nat /\ n >= 1 /\ Len(Puts(h)) \in Nat
      /\ Len(Puts(h)) >= 6
    BY <1>1, PutsOrder DEF Threading, Locks, Writing, Writers
<1>4. n \in 1..Len(Puts(h))
    BY <1>2, <1>3
<1>5. /\ p \in Names /\ (p = "latest" <=> n = Len(Puts(h)))
      /\ p \in {"senderEntry", "senderCount"} => Sender(h) # NoSender
      /\ p = "senderCount" => Pending(disk, Sender(h), h)
      /\ p = "coinbaseCount" => Pending(disk, Coinbase, h)
    BY <1>2, <1>3, <1>4, PutsOrder DEF NextPut, Threading, Values
<1>6. IsDisk(disk)
    BY DEF Threading, Values
<1> HIDE DEF p, h, n
<1>7. /\ Kept(disk, disk', p, h) /\ Effect(disk', p, h)
      /\ p = "senderEntry" => Pending(disk', Sender(h), h)
      /\ p = "coinbaseEntry" => Pending(disk', Coinbase, h)
    BY <1>2, <1>3, <1>5, <1>6, PutKeeps
<1>8. /\ writer'.height = h /\ writer'.keys = {} /\ writer'.next = n + 1
      /\ writer' \in [height : Heights \cup {None}, keys : SUBSET Keys, next : Nat]
    BY <1>2, <1>3 DEF Threading, Writers, h
<1>9. writer' # NoWriter
    BY <1>3, <1>8, HeightsAre, NoWriterHeight
<1>10. Places' /\ Alone'
    BY <1>1 DEF Threading, Places, Alone
<1>11. Jobs'
    BY <1>1 DEF Threading, Jobs, place
<1>12. Locks'
    BY <1>1, <1>3, <1>8, <1>9 DEF Threading, Locks, place, Writing, h
<1>13. kernel # "down"
    BY <1>1 DEF Threading, Alone, Locks, place, Threads, Applying
<1>14. Numbers'
    <2>1. disk'.latest = IF p = "latest" THEN h ELSE disk.latest
        BY <1>7 DEF Kept
    <2> QED BY <1>1, <1>2, <1>3, <1>13, <2>1 DEF Threading, Numbers
<1>15. h = latestBlock + 1
    <2>1. CASE n > 1
        BY <2>1, <1>2, <1>3 DEF Threading, Writers, h, n
    <2>2. CASE n = 1 /\ h = 0
        BY <2>2, <1>3 DEF Threading, Writers, h, n, None
    <2>3. CASE n = 1 /\ h # 0
        BY <2>3, <1>2 DEF Addable
    <2> QED BY <2>1, <2>2, <2>3, <1>3
<1>16. Writers'
    <2>1. n + 1 \in 1..Len(Puts(h)) + 1 /\ n + 1 > 1 /\ n + 1 # 1
        BY <1>3, <1>4
    <2>2. n + 1 <= Len(Puts(h)) => h = latestBlock' + 1
        BY <1>2, <1>3, <1>4, <1>5, <1>15
    <2>3. n + 1 > Len(Puts(h)) => h = latestBlock'
        BY <1>2, <1>3, <1>4, <1>5
    <2> QED BY <1>3, <1>8, <2>1, <2>2, <2>3 DEF Writers
<1>17. Values'
    <2>1. IsDisk(disk')
        BY <1>7 DEF Kept
    <2>2. ASSUME n + 1 <= Len(Puts(h))
          PROVE  /\ NextPut' = "senderCount" => p = "senderEntry"
                 /\ NextPut' = "coinbaseCount" => p = "coinbaseEntry"
        <3>1. n + 1 \in 1..Len(Puts(h)) /\ (n + 1) - 1 = n
            BY <2>2, <1>3
        <3>2. NextPut' = Puts(h)[n + 1] /\ p = Puts(h)[n]
            BY <1>8 DEF NextPut, p, h, n
        <3> QED BY <3>1, <3>2, PutsOrder
    <2> QED BY <1>1, <1>2, <1>7, <1>8, <2>1, <2>2 DEF Threading, Values
<1> QED BY <1>7, <1>10, <1>11, <1>12, <1>14, <1>16, <1>17 DEF Threading, p, h

\* A thread is done with its block, whether all of it was written or not.
LEMMA LeaveThreading ==
    ASSUME Threading, NEW t \in Threads, ReleaseLock(t) \/ (t = "sync" /\ WriteFails)
    PROVE  Threading'
<1>1. /\ disk' = disk /\ latestBlock' = latestBlock /\ updates' = updates /\ torn' = torn
      /\ kernel' = kernel /\ overlapped' = overlapped /\ writer' = NoWriter /\ lock' = Nobody
      /\ job' = [job EXCEPT ![t] = NoJob]
      /\ status' = status /\ isRunning' = isRunning /\ height' = height /\ target' = target
      /\ place(t) = "writing"
    BY DEF ReleaseLock, EndWriting, WriteFails, ApplyFrame, place
<1>2. /\ place(t)' = Idle(t) /\ \A x \in Threads : x # t => place(x)' = place(x)
    BY DEF ReleaseLock, WriteFails, MoveTo, place, Threads, Idle
<1>3. Places' /\ Alone'
    BY <1>1, <1>2 DEF Threading, Places, Alone, Applying, Threads, place, Idle
<1>4. lock = t
    BY <1>1 DEF Threading, Locks
<1>5. \A x \in Threads : x # t => place(x) # "writing"
    BY <1>4 DEF Threading, Locks
<1>6. Idle(t) \notin Applying
    BY DEF Idle, Applying
<1>7. Jobs'
    <2>1. job = [x \in Threads |-> job[x]]
        BY DEF Threading, Jobs
    <2>2. job' = [x \in Threads |-> job'[x]] /\ job'[t] = NoJob
          /\ \A x \in Threads : x # t => job'[x] = job[x]
        BY <1>1, <2>1
    <2>3. NoJob.height = None
        BY DEF NoJob
    <2> QED BY <1>2, <1>6, <2>2, <2>3 DEF Threading, Jobs
<1>8. Locks'
    <2>1. Nobody \notin Threads /\ Nobody # "kernel" /\ t # "kernel"
        BY NodeAssumption DEF Threads
    <2>2. \A x \in Threads : place(x)' # "writing"
        BY <1>2, <1>5, <1>6 DEF Applying
    <2>3. kernel # "opening"
        BY <1>4, <2>1 DEF Threading, Locks
    <2> QED BY <1>1, <2>1, <2>2, <2>3 DEF Locks
<1>9. Numbers'
    BY <1>1 DEF Threading, Numbers
<1>10. Writers'
    BY <1>1 DEF Writers, Writing, NoWriter
<1>11. Values'
    <2>1. ~Writing'
        BY <1>1 DEF Writing
    <2>2. IsUpdates(NoJob.overlay)
        BY DEF IsUpdates, NoJob, NoUpdates
    <2>3. \A x \in Threads : job'[x] = NoJob \/ job'[x] = job[x]
        BY <1>1 DEF Threading, Jobs
    <2> QED BY <1>1, <2>1, <2>2, <2>3 DEF Threading, Values
<1> QED BY <1>3, <1>7, <1>8, <1>9, <1>10, <1>11 DEF Threading

LEMMA InitThreading == NodeInit => Threading
<1> SUFFICES ASSUME NodeInit PROVE Threading
    OBVIOUS
<1>1. Places /\ Alone
    <2>1. 0 \in 0..MaxHeight + 1
        BY CommitAssumption
    <2> QED BY <2>1 DEF NodeInit, Places, Alone
<1>2. Jobs
    BY DEF NodeInit, Jobs, NoJob, place, Applying
<1>3. Locks
    <2>1. Nobody \notin Threads /\ Nobody # "kernel"
        BY NodeAssumption
    <2> QED BY <2>1 DEF NodeInit, Init, Locks, place
<1>4. Numbers
    BY DEF NodeInit, Init, Numbers, EmptyDisk
<1>5. Writers
    BY DEF NodeInit, Init, Writers, Writing, NoWriter
<1>6. Values
    <2>1. IsDisk(disk)
        <3>1. <<>> \in Seq(Heights) /\ Len(<<>>) = 0
            OBVIOUS
        <3> QED BY <3>1 DEF NodeInit, Init, EmptyDisk, IsDisk
    <2>2. ~Writing
        BY DEF NodeInit, Init, Writing
    <2> QED BY <2>1, <2>2 DEF NodeInit, Init, Values, NoJob, IsUpdates, NoUpdates
<1> QED BY <1>1, <1>2, <1>3, <1>4, <1>5, <1>6 DEF Threading

LEMMA BootThreading ==
    ASSUME Threading, Boot
    PROVE  Threading'
<1>1. /\ kernel = "down" /\ OpenDb /\ job' = job /\ overlapped' = overlapped
      /\ status' = status /\ isRunning' = isRunning /\ height' = height /\ target' = target
      /\ task' = task
    BY DEF Boot, sync
<1>2. /\ cons = "none" /\ task = "idle" /\ ~isRunning /\ lock = Nobody /\ latestBlock = None
      /\ updates = NoUpdates
    BY <1>1, NodeAssumption
    DEF Threading, Alone, Locks, Numbers, place, Threads, Applying
<1>3. disk' = disk /\ torn' = torn
    BY <1>1 DEF OpenDb
<1>4. CASE disk.latest = None
    <2>1. /\ kernel' = "opening" /\ lock' = "kernel" /\ cons' = cons /\ latestBlock' = latestBlock
          /\ updates' = Overlay(0)
          /\ writer' = [height |-> 0, keys |-> Touches(0), next |-> 1]
        BY <1>1, <1>4 DEF Boot, OpenDb
    <2>2. /\ IsUpdates(updates') /\ DOMAIN updates' = Touches(0) /\ Touches(0) \subseteq Keys
        BY <2>1, HeightsAre, OverlayIs, CommitAssumption DEF Threading
    <2>3. Places' /\ Alone'
        BY <1>1, <1>2, <2>1 DEF Threading, Places, Alone
    <2>4. Jobs'
        BY <1>1, <2>1 DEF Threading, Jobs, place
    <2>5. /\ writer'.height = 0 /\ writer'.keys = Touches(0) /\ writer'.next = 1
          /\ writer' \in [height : Heights \cup {None}, keys : SUBSET Keys, next : Nat]
        BY <2>1, <2>2, HeightsAre
    <2>6. Locks'
        <3>1. writer' # NoWriter
            BY <2>5, NoWriterHeight DEF None
        <3>2. "kernel" # Nobody /\ "kernel" \notin Threads
            BY NodeAssumption DEF Threads
        <3>3. \A x \in Threads : place(x)' # "writing"
            BY <1>1, <1>2, <2>1 DEF place
        <3> QED BY <2>1, <2>5, <3>1, <3>2, <3>3 DEF Locks
    <2>7. Numbers'
        BY <1>2, <1>3, <1>4, <2>1 DEF Numbers
    <2>8. Writers'
        BY <1>2, <2>1, <2>2, <2>5, HeightsAre, PutsOrder DEF Writers
    <2>9. Values'
        <3>1. NextPut' = "header"
            BY <2>5, PutsOrder DEF NextPut
        <3> QED BY <1>1, <1>3, <2>2, <3>1 DEF Threading, Values
    <2> QED BY <2>3, <2>4, <2>6, <2>7, <2>8, <2>9 DEF Threading
<1>5. CASE disk.latest # None
    <2>1. /\ kernel' = "running" /\ lock' = lock /\ cons' = "new" /\ latestBlock' = disk.latest
          /\ updates' = updates /\ writer' = writer
        BY <1>1, <1>5 DEF Boot, OpenDb
    <2>2. Places' /\ Alone'
        BY <1>1, <1>2, <2>1 DEF Threading, Places, Alone
    <2>3. Jobs'
        BY <1>1, <1>2, <2>1 DEF Threading, Jobs, place, Threads, Applying
    <2>4. Locks'
        BY <1>1, <1>2, <2>1, NodeAssumption DEF Threading, Locks, place, Threads
    <2>5. Numbers'
        BY <1>3, <1>5, <2>1 DEF Threading, Numbers
    <2>6. writer' = NoWriter
        BY <1>2, <2>1 DEF Threading, Locks
    <2>7. Writers'
        BY <2>6 DEF Writers, Writing, NoWriter
    <2>8. Values'
        BY <1>1, <1>3, <2>1, <2>6 DEF Threading, Values, Writing
    <2> QED BY <2>2, <2>3, <2>4, <2>5, <2>7, <2>8 DEF Threading
<1> QED BY <1>4, <1>5

LEMMA GenesisThreading ==
    ASSUME Threading, GenesisAdded
    PROVE  Threading'
<1>1. /\ kernel = "opening" /\ kernel' = "running" /\ cons' = "new" /\ lock' = Nobody
      /\ disk' = disk /\ updates' = updates /\ latestBlock' = latestBlock /\ torn' = torn
      /\ writer' = NoWriter /\ Written
      /\ job' = job /\ overlapped' = overlapped
      /\ status' = status /\ isRunning' = isRunning /\ height' = height /\ target' = target
      /\ task' = task
    BY DEF GenesisAdded, EndWriting, sync
<1>2. cons = "none" /\ task = "idle" /\ ~isRunning /\ lock = "kernel" /\ writer.height = 0
    BY <1>1 DEF Threading, Alone, Locks
<1>3. Places' /\ Alone'
    BY <1>1, <1>2 DEF Threading, Places, Alone
<1>4. Jobs'
    BY <1>1, <1>2 DEF Threading, Jobs, place, Threads, Applying
<1>5. Locks'
    BY <1>1, <1>2, NodeAssumption DEF Locks, place, Threads
<1>6. latestBlock = 0
    <2>1. Writing
        BY <1>2, NodeAssumption DEF Threading, Locks, Writing
    <2>2. writer.next > Len(Puts(writer.height))
        BY <1>1, <1>2 DEF Written, Addable
    <2> QED BY <1>2, <2>1, <2>2 DEF Threading, Writers
<1>7. Numbers'
    BY <1>1, <1>6, HeightsAre DEF Threading, Numbers
<1>8. Writers'
    BY <1>1 DEF Writers, Writing, NoWriter
<1>9. Values'
    BY <1>1 DEF Threading, Values, Writing
<1> QED BY <1>3, <1>4, <1>5, <1>7, <1>8, <1>9 DEF Threading

LEMMA ExitThreading ==
    ASSUME Threading, Exit
    PROVE  Threading'
<1>1. /\ kernel' = "down" /\ cons' = "none" /\ task' = "idle" /\ status' = "STOPPED"
      /\ isRunning' = FALSE /\ target' = 0 /\ height' = 0
      /\ job' = [t \in Threads |-> NoJob] /\ lock' = Nobody
      /\ updates' = NoUpdates /\ latestBlock' = None /\ writer' = NoWriter
      /\ torn' = (IF Writing THEN torn \cup {writer.height} ELSE torn)
      /\ disk' = disk /\ overlapped' = overlapped
    BY DEF Exit, Die
<1>2. Places' /\ Alone'
    <2>1. 0 \in 0..MaxHeight + 1
        BY CommitAssumption
    <2> QED BY <1>1, <2>1 DEF Places, Alone
<1>3. Jobs'
    BY <1>1 DEF Jobs, NoJob, place, Applying
<1>4. Locks'
    BY <1>1, NodeAssumption DEF Locks, place
<1>5. Numbers'
    BY <1>1 DEF Threading, Numbers
<1>6. Writers'
    BY <1>1 DEF Writers, Writing, NoWriter
<1>7. Values'
    <2>1. torn' \subseteq Heights
        BY <1>1 DEF Threading, Values, Writers
    <2>2. ~Writing'
        BY <1>1 DEF Writing
    <2> QED BY <1>1, <2>1, <2>2 DEF Threading, Values, NoJob, IsUpdates, NoUpdates
<1> QED BY <1>2, <1>3, <1>4, <1>5, <1>6, <1>7 DEF Threading

----------------------------------------------------------------------------
\* What a step may be, as far as blocks are concerned.
BlockStep ==
    \/ Quiet
    \/ Boot
    \/ GenesisAdded
    \/ Exit
    \/ \E t \in Threads : Executes(t) /\ kernel \notin {"down", "opening"}
    \/ \E t \in Threads : CommitOverlay(t)
    \/ \E t \in Threads : TakeLock(t)
    \/ \E t \in Threads : ReleaseLock(t) \/ (t = "sync" /\ WriteFails)
    \/ Write /\ Flush
    \/ Write /\ PutNext

LEMMA StepThreading ==
    ASSUME Threading, [Next]_vars
    PROVE  Threading' /\ BlockStep
<1>1. CASE StopSync \/ Stop
    BY <1>1, KernelQuiet, QuietThreading DEF BlockStep
<1>2. CASE Consensus \/ OtherEvent \/ OnTimeout \/ OnNewHeight
    BY <1>2, ConsensusQuiet, QuietThreading DEF BlockStep
<1>3. CASE TargetReached
    BY <1>3, TargetQuiet, QuietThreading DEF BlockStep
<1>4. CASE UNCHANGED vars
    BY <1>4, StutterQuiet, QuietThreading DEF BlockStep
<1>5. CASE EnterFinalize \/ Process
    BY <1>5, StartsToApply, ExecuteThreading DEF BlockStep
<1>6. CASE Boot
    BY <1>6, BootThreading DEF BlockStep
<1>7. CASE GenesisAdded
    BY <1>7, GenesisThreading DEF BlockStep
<1>8. CASE Exit
    BY <1>8, ExitThreading DEF BlockStep
<1>9. CASE \E t \in Threads : CommitOverlay(t)
    BY <1>9, CommitThreading DEF BlockStep
<1>10. CASE \E t \in Threads : TakeLock(t)
    BY <1>10, TakeThreading DEF BlockStep
<1>11. CASE \E t \in Threads : ReleaseLock(t) \/ (t = "sync" /\ WriteFails)
    BY <1>11, LeaveThreading DEF BlockStep
<1>12. CASE Write /\ Flush
    BY <1>12, FlushThreading DEF BlockStep
<1>13. CASE Write /\ PutNext
    BY <1>13, PutThreading DEF BlockStep
<1>14. Write => Flush \/ PutNext
    BY DEF Write
<1>15. WriteFails => \E t \in Threads : t = "sync" /\ WriteFails
    BY DEF Threads
<1> QED BY <1>1, <1>2, <1>3, <1>4, <1>5, <1>6, <1>7, <1>8, <1>9, <1>10, <1>11, <1>12, <1>13,
           <1>14, <1>15 DEF Next, Apply, Events

LEMMA AlwaysThreading == Spec => []Threading
<1>1. Threading /\ [Next]_vars => Threading'
    BY StepThreading
<1> QED BY <1>1, InitThreading, PTL DEF Spec

\* Whatever the number of blocks and keys, the lock is held exactly while a block is written.
THEOREM NodeTypeOK == Spec => []TypeOK
<1>1. Threading => TypeOK
    <2> SUFFICES ASSUME Threading PROVE TypeOK
        OBVIOUS
    <2>1. latestBlock \in Heights \cup {None} /\ disk.latest \in Heights \cup {None}
        BY DEF Threading, Numbers
    <2>2. disk.count \in [Keys -> Nat] /\ DOMAIN updates \subseteq Keys
        BY DEF Threading, Values, IsDisk, IsUpdates
    <2>3. writer.height \in Heights \cup {None} /\ writer.keys \subseteq Keys
        BY DEF Threading, Writers
    <2>4. lock \in Threads \cup {"kernel", Nobody} /\ (lock = Nobody) = ~Writing
        BY DEF Threading, Locks, Writing
    <2>5. status \in {"STOPPED", "RUNNING", "SYNCING"}
        BY DEF Threading, Places
    <2> QED BY <2>1, <2>2, <2>3, <2>4, <2>5 DEF TypeOK
<1> QED BY <1>1, AlwaysThreading, PTL

\* The engine and the sync's task apply blocks at the same time only around a stop.
THEOREM NodeAloneUnlessStopping == Spec => []AloneUnlessStopping
<1>1. Threading => AloneUnlessStopping
    BY DEF Threading, Alone, Jobs, Applying, AloneUnlessStopping, Overlap, place, Threads
<1> QED BY <1>1, AlwaysThreading, PTL

----------------------------------------------------------------------------
\* What the steps do to the values, for both invariants.
LEMMA MergeEffect ==
    ASSUME Threading, NEW t \in Threads, CommitOverlay(t)
    PROVE  /\ UNCHANGED <<disk, latestBlock, writer, torn, lock, kernel, job, overlapped>>
           /\ DOMAIN updates' = DOMAIN job[t].overlay \cup DOMAIN updates
           /\ \A k \in DOMAIN updates' : updates'[k] = IF k \in DOMAIN job[t].overlay
                                                     THEN job[t].overlay[k] ELSE updates[k]
BY DEF CommitOverlay, Merge, ApplyFrame

LEMMA FlushEffect ==
    ASSUME Threading, Write, Flush
    PROVE  \E k \in writer.keys :
              /\ k \in Keys \cap DOMAIN updates
              /\ disk' = [disk EXCEPT !.state = [disk.state EXCEPT ![k] = updates[k]]]
              /\ disk'.state = [disk.state EXCEPT ![k] = updates[k]]
              /\ disk'.state[k] = updates[k]
              /\ \A j \in Keys : j # k => disk'.state[j] = disk.state[j]
              /\ disk'.parts = disk.parts /\ disk'.listed = disk.listed
              /\ disk'.count = disk.count /\ disk'.forged = disk.forged
              /\ disk'.turns = disk.turns /\ disk'.validators = disk.validators
              /\ disk'.latest = disk.latest
              /\ writer'.height = writer.height /\ writer'.keys = writer.keys \ {k}
              /\ writer'.next = writer.next
              /\ updates' = IF writer.keys = {k} THEN NoUpdates ELSE updates
              /\ UNCHANGED <<latestBlock, torn, lock, kernel, job, overlapped>>
<1>1. PICK k \in writer.keys :
        /\ disk' = [disk EXCEPT !.state[k] = updates[k]]
        /\ writer' = [writer EXCEPT !.keys = @ \ {k}]
        /\ updates' = IF writer.keys = {k} THEN NoUpdates ELSE updates
        /\ latestBlock' = latestBlock /\ torn' = torn
    BY DEF Flush
<1>2. kernel' = kernel /\ job' = job /\ overlapped' = overlapped /\ lock' = lock /\ lock # Nobody
    BY DEF Write, ApplyFrame
<1>3. k \in Keys \cap DOMAIN updates
    BY <1>1, <1>2 DEF Threading, Locks, Writing, Writers, Values, IsUpdates
<1>4. disk' = [disk EXCEPT !.state = [disk.state EXCEPT ![k] = updates[k]]]
    BY <1>1
<1>5. /\ disk'.state = [disk.state EXCEPT ![k] = updates[k]] /\ disk'.parts = disk.parts
      /\ disk'.listed = disk.listed /\ disk'.count = disk.count /\ disk'.forged = disk.forged
      /\ disk'.turns = disk.turns /\ disk'.validators = disk.validators
      /\ disk'.latest = disk.latest
    BY <1>4 DEF Threading, Values, IsDisk
<1>6. disk.state \in [Keys -> Seq(Heights)]
    BY DEF Threading, Values, IsDisk
<1>7. disk'.state[k] = updates[k] /\ \A j \in Keys : j # k => disk'.state[j] = disk.state[j]
    BY <1>3, <1>5, <1>6
<1>8. writer'.height = writer.height /\ writer'.keys = writer.keys \ {k} /\ writer'.next = writer.next
    BY <1>1 DEF Threading, Writers
<1> QED BY <1>1, <1>2, <1>3, <1>4, <1>5, <1>7, <1>8

LEMMA LeaveEffect ==
    ASSUME Threading, NEW t \in Threads, ReleaseLock(t) \/ (t = "sync" /\ WriteFails)
    PROVE  /\ UNCHANGED <<disk, latestBlock, updates, torn, kernel, overlapped>>
           /\ writer' = NoWriter /\ lock = t
           /\ job'[t] = NoJob /\ \A x \in Threads : x # t => job'[x] = job[x]
<1>1. /\ UNCHANGED <<disk, latestBlock, updates, torn, kernel, overlapped>>
      /\ writer' = NoWriter /\ job' = [job EXCEPT ![t] = NoJob] /\ place(t) = "writing"
    BY DEF ReleaseLock, EndWriting, WriteFails, ApplyFrame, place
<1>2. job = [x \in Threads |-> job[x]]
    BY DEF Threading, Jobs
<1> QED BY <1>1, <1>2 DEF Threading, Locks

LEMMA ExecuteEffect ==
    ASSUME Threading, NEW t \in Threads, Executes(t), kernel \notin {"down", "opening"}
    PROVE  \E h \in Heights \ {0} :
              /\ h = latestBlock + 1 /\ Executable(h)
              /\ UNCHANGED <<disk, updates, latestBlock, writer, torn, lock, kernel>>
              /\ job'[t] = [height |-> h, overlay |-> Overlay(h)]
              /\ \A x \in Threads : x # t => job'[x] = job[x]
              /\ overlapped' = IF job[Other(t)] = NoJob THEN overlapped
                               ELSE overlapped \cup {h, job[Other(t)].height}
<1>1. PICK h \in Heights \ {0} :
        h = latestBlock + 1 /\ Execute(t, h) /\ UNCHANGED <<commit, kernel, status, isRunning, lock>>
    BY DEF Executes
<1>2. job = [x \in Threads |-> job[x]]
    BY DEF Threading, Jobs
<1> QED BY <1>1, <1>2 DEF Execute, commit

LEMMA PutEffect ==
    ASSUME Threading, Write, PutNext
    PROVE  /\ Kept(disk, disk', NextPut, writer.height) /\ Effect(disk', NextPut, writer.height)
           /\ UNCHANGED <<updates, torn, kernel, job, overlapped, lock>>
           /\ Writing /\ writer.height \in Heights /\ writer.next \in 1..Len(Puts(writer.height))
           /\ NextPut = Puts(writer.height)[writer.next] /\ NextPut \in Names
           /\ writer.keys = {} /\ writer.height = disk.latest + 1
           /\ writer' = [writer EXCEPT !.next = writer.next + 1]
           /\ writer'.height = writer.height /\ writer'.keys = {} /\ writer'.next = writer.next + 1
<1>1. Kept(disk, disk', NextPut, writer.height) /\ Effect(disk', NextPut, writer.height)
    BY PutThreading
<1>2. /\ UNCHANGED <<updates, torn, kernel, job, overlapped, lock>>
      /\ writer' = [writer EXCEPT !.next = writer.next + 1] /\ lock # Nobody
      /\ writer.keys = {} /\ (writer.next > 1 \/ Addable(writer.height))
      /\ writer.next <= Len(Puts(writer.height))
    BY DEF Write, PutNext, ApplyFrame
<1>3. /\ Writing /\ writer.height \in Heights /\ writer.next \in Nat /\ writer.next >= 1
      /\ Len(Puts(writer.height)) \in Nat
    BY <1>2, PutsOrder DEF Threading, Locks, Writing, Writers
<1>4. writer.next \in 1..Len(Puts(writer.height))
    BY <1>2, <1>3
<1>5. NextPut = Puts(writer.height)[writer.next] /\ NextPut \in Names
    BY <1>4, PutsOrder DEF NextPut
<1>6. /\ writer'.height = writer.height /\ writer'.keys = {} /\ writer'.next = writer.next + 1
    BY <1>2 DEF Threading, Writers
<1>7. latestBlock = disk.latest
    BY <1>2 DEF Threading, Numbers, Alone, Locks, place, Threads, Applying
<1>8. writer.height = latestBlock + 1
    <2>1. CASE writer.next > 1
        BY <2>1, <1>2, <1>3 DEF Threading, Writers
    <2>2. CASE writer.next = 1 /\ writer.height = 0
        BY <2>2, <1>3 DEF Threading, Writers, None
    <2>3. CASE writer.next = 1 /\ writer.height # 0
        BY <2>3, <1>2 DEF Addable
    <2> QED BY <2>1, <2>2, <2>3, <1>3
<1> QED BY <1>1, <1>2, <1>3, <1>4, <1>5, <1>6, <1>7, <1>8

----------------------------------------------------------------------------
\* No account has the transaction of a block twice, in memory or on disk.
Once(s, h) == \A i, j \in DOMAIN s : s[i] = h /\ s[j] = h => i = j

Distinct(values) == \A k \in DOMAIN values : \A h \in Heights : Sender(h) = k => Once(values[k], h)

Unspent == /\ Distinct(disk.state) /\ Distinct(updates)
           /\ \A t \in Threads : Distinct(job[t].overlay)

LEMMA AppendOnce ==
    ASSUME NEW s \in Seq(Heights), NEW h \in Heights, NEW g \in Heights, Once(s, g),
           g = h => ~Includes(s, h)
    PROVE  Once(Append(s, h), g)
<1>1. /\ Len(s) \in Nat /\ DOMAIN s = 1..Len(s) /\ DOMAIN Append(s, h) = 1..(Len(s) + 1)
      /\ Append(s, h)[Len(s) + 1] = h /\ \A i \in 1..Len(s) : Append(s, h)[i] = s[i]
    OBVIOUS
<1>2. SUFFICES ASSUME NEW i \in 1..(Len(s) + 1), NEW j \in 1..(Len(s) + 1),
                      Append(s, h)[i] = g, Append(s, h)[j] = g
               PROVE  i = j
    BY <1>1 DEF Once
<1>3. i \in 1..Len(s) \/ i = Len(s) + 1
    BY <1>1
<1>4. j \in 1..Len(s) \/ j = Len(s) + 1
    BY <1>1
<1>5. g = h => \A x \in 1..Len(s) : Append(s, h)[x] # g
    BY <1>1 DEF Includes
<1> QED BY <1>1, <1>2, <1>3, <1>4, <1>5 DEF Once

LEMMA OverlayDistinct ==
    ASSUME Threading, Unspent, NEW h \in Heights, Executable(h)
    PROVE  Distinct(Overlay(h))
<1> SUFFICES ASSUME NEW k \in Touches(h), NEW g \in Heights, Sender(g) = k
             PROVE  Once(Overlay(h)[k], g)
    BY OverlayIs DEF Distinct, Threading
<1>1. k \in Keys /\ Read(k) \in Seq(Heights) /\ Overlay(h)[k] = Append(Read(k), h)
    BY Reads, OverlayIs, CommitAssumption DEF Threading
<1>2. Once(Read(k), g)
    BY <1>1 DEF Unspent, Distinct, Read, Threading, Values, IsDisk
<1>3. g = h => ~Includes(Read(k), h)
    BY <1>1 DEF Executable
<1> QED BY <1>1, <1>2, <1>3, AppendOnce

LEMMA NoneDistinct == Distinct(NoUpdates)
BY DEF Distinct, NoUpdates

LEMMA UnspentBoot ==
    ASSUME Threading, Unspent, Boot
    PROVE  Unspent'
<1>1. disk' = disk /\ job' = job /\ (updates' = updates \/ updates' = Overlay(0))
    BY DEF Boot, OpenDb
<1>2. 0 \in Heights /\ Executable(0)
    BY HeightsAre, CommitAssumption DEF Executable
<1>3. Distinct(Overlay(0))
    BY <1>2, OverlayDistinct
<1>4. Distinct(updates')
    BY <1>1, <1>3 DEF Unspent
<1> QED BY <1>1, <1>4 DEF Unspent

LEMMA UnspentStep ==
    ASSUME Threading, Unspent, BlockStep
    PROVE  Unspent'
<1>1. CASE Quiet
    BY <1>1 DEF Quiet, commit, Unspent
<1>2. CASE Boot
    BY <1>2, UnspentBoot
<1>3. CASE GenesisAdded
    BY <1>3 DEF GenesisAdded, EndWriting, Unspent
<1>4. CASE Exit
    <2>1. disk' = disk /\ updates' = NoUpdates /\ \A t \in Threads : job'[t] = NoJob
        BY <1>4 DEF Exit, Die
    <2>2. Distinct(NoJob.overlay)
        BY NoneDistinct DEF NoJob
    <2> QED BY <2>1, <2>2, NoneDistinct DEF Unspent
<1>5. CASE \E t \in Threads : Executes(t) /\ kernel \notin {"down", "opening"}
    <2>1. PICK t \in Threads : Executes(t) /\ kernel \notin {"down", "opening"}
        BY <1>5
    <2>2. PICK h \in Heights \ {0} :
            /\ Executable(h)
            /\ UNCHANGED <<disk, updates>>
            /\ job'[t] = [height |-> h, overlay |-> Overlay(h)]
            /\ \A x \in Threads : x # t => job'[x] = job[x]
        BY <2>1, ExecuteEffect
    <2>3. Distinct(job'[t].overlay)
        BY <2>2, OverlayDistinct
    <2> QED BY <2>2, <2>3 DEF Unspent
<1>6. CASE \E t \in Threads : CommitOverlay(t)
    <2>1. PICK t \in Threads : CommitOverlay(t)
        BY <1>6
    <2>2. /\ DOMAIN updates' = DOMAIN job[t].overlay \cup DOMAIN updates
          /\ \A k \in DOMAIN updates' : updates'[k] = IF k \in DOMAIN job[t].overlay
                                                    THEN job[t].overlay[k] ELSE updates[k]
        BY <2>1, MergeEffect
    <2>3. Distinct(job[t].overlay) /\ Distinct(updates)
        BY DEF Unspent
    <2>4. ASSUME NEW k \in DOMAIN updates', NEW h \in Heights, Sender(h) = k
          PROVE  Once(updates'[k], h)
        <3>1. CASE k \in DOMAIN job[t].overlay
            BY <2>2, <2>3, <2>4, <3>1 DEF Distinct
        <3>2. CASE k \notin DOMAIN job[t].overlay
            BY <2>2, <2>3, <2>4, <3>2 DEF Distinct
        <3> QED BY <3>1, <3>2
    <2>5. Distinct(updates')
        BY <2>4 DEF Distinct
    <2> QED BY <2>1, <2>5, MergeEffect DEF Unspent
<1>7. CASE \E t \in Threads : TakeLock(t)
    BY <1>7 DEF TakeLock, BeginWriting, Unspent
<1>8. CASE \E t \in Threads : ReleaseLock(t) \/ (t = "sync" /\ WriteFails)
    <2>1. PICK t \in Threads : ReleaseLock(t) \/ (t = "sync" /\ WriteFails)
        BY <1>8
    <2>2. /\ UNCHANGED <<disk, updates>>
          /\ job'[t] = NoJob /\ \A x \in Threads : x # t => job'[x] = job[x]
        BY <2>1, LeaveEffect
    <2>3. Distinct(NoJob.overlay)
        BY NoneDistinct DEF NoJob
    <2> QED BY <2>2, <2>3 DEF Unspent
<1>9. CASE Write /\ Flush
    <2>1. PICK k \in writer.keys :
            /\ k \in Keys \cap DOMAIN updates
            /\ disk'.state = [disk.state EXCEPT ![k] = updates[k]]
            /\ updates' = IF writer.keys = {k} THEN NoUpdates ELSE updates
            /\ job' = job
        BY <1>9, FlushEffect
    <2>2. Distinct(disk'.state)
        BY <2>1 DEF Distinct, Unspent
    <2>3. Distinct(updates')
        BY <2>1, NoneDistinct DEF Unspent
    <2> QED BY <2>1, <2>2, <2>3 DEF Unspent
<1>10. CASE Write /\ PutNext
    BY <1>10, PutEffect DEF Kept, Unspent
<1> QED BY <1>1, <1>2, <1>3, <1>4, <1>5, <1>6, <1>7, <1>8, <1>9, <1>10 DEF BlockStep

\* Crashes, replays and blocks applied by two threads never use up a nonce twice.
THEOREM NodeSenderOnce == Spec => []SenderOnce
<1>1. NodeInit => Unspent
    <2> SUFFICES ASSUME NodeInit PROVE Unspent
        OBVIOUS
    <2>1. /\ \A k \in DOMAIN disk.state : disk.state[k] = <<>>
          /\ updates = NoUpdates /\ \A t \in Threads : job[t].overlay = NoUpdates
        BY DEF NodeInit, Init, EmptyDisk, NoJob
    <2>2. DOMAIN <<>> = {}
        OBVIOUS
    <2>3. Distinct(disk.state)
        BY <2>1, <2>2 DEF Distinct, Once
    <2> QED BY <2>1, <2>3, NoneDistinct DEF Unspent
<1>2. Threading /\ Unspent /\ [Next]_vars => Unspent'
    BY UnspentStep, StepThreading
<1>3. Threading /\ Unspent => SenderOnce
    BY DEF Threading, Values, IsDisk, Unspent, Distinct, Once, SenderOnce
<1> QED BY <1>1, <1>2, <1>3, AlwaysThreading, PTL DEF Spec

----------------------------------------------------------------------------
\* What the latest number covers, heights aside that two threads applied, is carried by
\* every value that may still be flushed, and what was put for it stays.
Settled == 0..disk.latest \ overlapped

Carries(values, h) == \A k \in DOMAIN values \cap Touches(h) : Includes(values[k], h)

Carried == \A h \in Settled : /\ Carries(disk.state, h) /\ Carries(updates, h)
                              /\ \A t \in Threads : Carries(job[t].overlay, h)

Recorded == \A h \in Settled : \A p \in Required(h) \ {"validators"} : Effect(disk, p, h)

Due(g) == g % ValidatorUpdateInterval = 0

Validated == \A g \in 0..disk.latest : Due(g) => disk.validators >= g

\* The block of a thread is in its overlay, then in the updates.
Overlaid == \A t \in Threads : job[t] # NoJob =>
                /\ DOMAIN job[t].overlay = Touches(job[t].height)
                /\ Carries(job[t].overlay, job[t].height)

Committed == \A t \in Threads : place(t) = "committed" /\ job[t].height \notin overlapped =>
                /\ Touches(job[t].height) \subseteq DOMAIN updates
                /\ Carries(updates, job[t].height)

Marked == Overlap => job["cons"].height \in overlapped /\ job["sync"].height \in overlapped

\* The block that is written is on disk as far as the writer has come.
Flushed == Writing /\ writer.height \notin overlapped =>
              /\ Carries(updates, writer.height)
              /\ \A k \in Touches(writer.height) \ writer.keys :
                    Includes(disk.state[k], writer.height)

PutsDone == Writing =>
    \A i \in 1..writer.next - 1 : Effect(disk, Puts(writer.height)[i], writer.height)

Durable == /\ Carried /\ Recorded /\ Validated /\ Overlaid /\ Committed /\ Marked
           /\ Flushed /\ PutsDone

LEMMA SettledHeights == Threading => Settled \subseteq Heights
BY HeightsAre DEF Threading, Numbers, Settled, Heights, None

LEMMA NoneCarries == \A h : Carries(NoUpdates, h)
BY DEF Carries, NoUpdates

LEMMA NoJobs ==
    ASSUME Threading, kernel \in {"down", "opening"}, NEW t \in Threads
    PROVE  job[t] = NoJob /\ place(t) \notin Applying
BY DEF Threading, Alone, Jobs, place, Applying, Threads

\* Whoever writes a block that only one thread applies is the only one with a block.
LEMMA WriterAlone ==
    ASSUME Threading, Marked, Writing, writer.height \notin overlapped,
           NEW t \in Threads, job[t] # NoJob
    PROVE  lock = t /\ place(t) = "writing" /\ job[t].height = writer.height
<1>1. lock # Nobody
    BY DEF Threading, Locks, Writing
<1>2. lock # "kernel"
    BY NoJobs DEF Threading, Locks
<1>3. lock \in Threads
    BY <1>1, <1>2 DEF Threading, Locks
<1>4. place(lock) = "writing" /\ writer.height = job[lock].height
    BY <1>3 DEF Threading, Locks
<1>5. job[lock] # NoJob
    <2>1. job[lock].height \in Heights
        BY <1>3, <1>4 DEF Threading, Jobs, Applying
    <2> QED BY <2>1, HeightsAre DEF NoJob
<1>6. lock = t
    BY <1>3, <1>4, <1>5 DEF Marked, Overlap, Threads
<1> QED BY <1>4, <1>6

\* What was put for a block stays, whatever is put next.
LEMMA EffectStays ==
    ASSUME NEW d, NEW e, NEW p, NEW g, NEW h \in Heights, NEW q, Kept(d, e, p, g), Effect(d, q, h),
           q = "validators" => g = h, q = "senderCount" => Sender(h) # NoSender
    PROVE  Effect(e, q, h)
<1>1. CASE q = "senderCount"
    <2>1. Sender(h) \in Keys
        BY <1>1, CommitAssumption
    <2> QED BY <1>1, <2>1 DEF Kept, Effect
<1>2. CASE q = "coinbaseCount"
    BY <1>2, CommitAssumption DEF Kept, Effect
<1>3. CASE q = "forged"
    BY <1>3 DEF Kept, Effect
<1>4. CASE q = "turn"
    BY <1>4 DEF Kept, Effect
<1>5. CASE q = "validators"
    BY <1>5 DEF Kept, Effect
<1>6. CASE q \in {"senderEntry", "coinbaseEntry", "latest"}
    BY <1>6 DEF Effect
<1>7. CASE q \notin {"senderCount", "coinbaseCount", "forged", "turn", "validators",
                     "senderEntry", "coinbaseEntry", "latest"}
    BY <1>7 DEF Kept, Effect
<1> QED BY <1>1, <1>2, <1>3, <1>4, <1>5, <1>6, <1>7

LEMMA RequiredSender ==
    ASSUME NEW h, "senderCount" \in Required(h)
    PROVE  Sender(h) # NoSender
BY DEF Required

\* A new overlay carries what the state did, and its own block.
LEMMA OverlayCarries ==
    ASSUME Threading, Carried, NEW h \in Heights
    PROVE  Carries(Overlay(h), h) /\ \A g \in Settled : Carries(Overlay(h), g)
<1>1. \A k \in Touches(h) : k \in Keys /\ Read(k) \in Seq(Heights)
    BY Reads, CommitAssumption DEF Threading
<1>2. DOMAIN Overlay(h) = Touches(h) /\ \A k \in Touches(h) : Overlay(h)[k] = Append(Read(k), h)
    BY OverlayIs DEF Threading
<1>3. ASSUME NEW k \in Touches(h), NEW g, Includes(Read(k), g) \/ g = h
      PROVE  Includes(Overlay(h)[k], g)
    BY <1>1, <1>2, <1>3, AppendIncludes
<1>4. ASSUME NEW k \in Touches(h), NEW g \in Settled, k \in Touches(g) PROVE Includes(Read(k), g)
    <2>1. DOMAIN disk.state = Keys /\ k \in Keys
        BY <1>1 DEF Threading, Values, IsDisk
    <2> QED BY <1>4, <2>1 DEF Carried, Carries, Read
<1> QED BY <1>2, <1>3, <1>4 DEF Carries

----------------------------------------------------------------------------
\* The steps, one lemma each.
LEMMA DurableQuiet ==
    ASSUME Threading, Durable, Quiet
    PROVE  Durable'
<1>1. UNCHANGED <<disk, updates, latestBlock, writer, torn, job, overlapped>>
    BY DEF Quiet, commit
<1>2. \A t \in Threads : place(t)' = "committed" => place(t) = "committed"
    BY DEF Quiet, Applying
<1>3. Carried' /\ Recorded' /\ Validated' /\ Overlaid' /\ Marked'
    BY <1>1 DEF Durable, Carried, Settled, Recorded, Validated, Overlaid, Marked, Overlap
<1>4. Committed'
    BY <1>1, <1>2 DEF Durable, Committed
<1>5. Flushed' /\ PutsDone'
    BY <1>1 DEF Durable, Flushed, PutsDone, Writing
<1> QED BY <1>3, <1>4, <1>5 DEF Durable

\* A new process, and one that is gone, have no job.
LEMMA DurableExit ==
    ASSUME Threading, Durable, Threading', Exit
    PROVE  Durable'
<1>1. /\ UNCHANGED <<disk, overlapped>> /\ kernel' = "down"
      /\ updates' = NoUpdates /\ writer' = NoWriter /\ \A t \in Threads : job'[t] = NoJob
      /\ cons' = "none" /\ task' = "idle"
    BY DEF Exit, Die
<1>2. NoJob.overlay = NoUpdates
    BY DEF NoJob
<1>3. Carried'
    BY <1>1, <1>2, NoneCarries DEF Durable, Carried, Settled
<1>4. Recorded' /\ Validated'
    BY <1>1 DEF Durable, Recorded, Settled, Validated
<1>5. Overlaid' /\ Committed' /\ Marked'
    BY <1>1 DEF Overlaid, Committed, Marked, Overlap, Threads, place
<1>6. Flushed' /\ PutsDone'
    BY <1>1 DEF Flushed, PutsDone, Writing
<1> QED BY <1>3, <1>4, <1>5, <1>6 DEF Durable

LEMMA DurableBoot ==
    ASSUME Threading, Durable, Boot
    PROVE  Durable'
<1>1. /\ UNCHANGED <<disk, job, overlapped, torn, task>> /\ OpenDb /\ kernel = "down"
      /\ cons' \in {cons, "new"}
    BY DEF Boot, OpenDb, sync
<1>2. \A t \in Threads : job[t] = NoJob /\ job'[t] = NoJob
    BY <1>1, NoJobs
<1>3. \A t \in Threads : place(t)' # "committed"
    <2>1. cons = "none" /\ task = "idle"
        BY <1>1 DEF Threading, Alone
    <2> QED BY <1>1, <2>1 DEF place
<1>4. Recorded' /\ Validated'
    BY <1>1 DEF Durable, Recorded, Settled, Validated
<1>5. Overlaid' /\ Committed' /\ Marked'
    BY <1>2, <1>3 DEF Overlaid, Committed, Marked, Overlap, Threads
<1>6. CASE disk.latest = None
    <2>1. /\ updates' = Overlay(0) /\ writer' = [height |-> 0, keys |-> Touches(0), next |-> 1]
        BY <1>1, <1>6 DEF OpenDb
    <2>2. Settled' = {}
        BY <1>1, <1>6 DEF Settled, None
    <2>3. Carried'
        BY <2>2 DEF Carried
    <2>4. Carries(Overlay(0), 0)
        BY HeightsAre, OverlayCarries DEF Durable
    <2>5. Flushed' /\ PutsDone'
        BY <2>1, <2>4 DEF Flushed, PutsDone
    <2> QED BY <1>4, <1>5, <2>3, <2>5 DEF Durable
<1>7. CASE disk.latest # None
    <2>1. updates' = updates /\ writer' = writer
        BY <1>1, <1>7 DEF OpenDb
    <2>2. Carried'
        BY <1>1, <2>1 DEF Durable, Carried, Settled
    <2>3. Flushed' /\ PutsDone'
        BY <1>1, <2>1 DEF Durable, Flushed, PutsDone, Writing
    <2> QED BY <1>4, <1>5, <2>2, <2>3 DEF Durable
<1> QED BY <1>6, <1>7

LEMMA DurableGenesis ==
    ASSUME Threading, Durable, GenesisAdded
    PROVE  Durable'
<1>1. /\ UNCHANGED <<disk, updates, job, overlapped, task>> /\ cons' = "new"
      /\ writer' = NoWriter /\ kernel = "opening"
    BY DEF GenesisAdded, EndWriting, sync
<1>2. \A t \in Threads : place(t)' # "committed"
    <2>1. task = "idle"
        BY <1>1 DEF Threading, Alone
    <2> QED BY <1>1, <2>1 DEF place
<1>3. Carried' /\ Recorded' /\ Validated' /\ Overlaid' /\ Marked'
    BY <1>1 DEF Durable, Carried, Settled, Recorded, Validated, Overlaid, Marked, Overlap
<1>4. Committed'
    BY <1>2 DEF Committed
<1>5. Flushed' /\ PutsDone'
    BY <1>1 DEF Flushed, PutsDone, Writing
<1> QED BY <1>3, <1>4, <1>5 DEF Durable

LEMMA DurableTake ==
    ASSUME Threading, Durable, NEW t \in Threads, TakeLock(t)
    PROVE  Durable'
<1>1. /\ UNCHANGED <<disk, updates, job, overlapped>> /\ place(t) = "committed"
      /\ writer' = [height |-> job[t].height, keys |-> DOMAIN updates, next |-> 1]
    BY DEF TakeLock, BeginWriting, ApplyFrame
<1>2. \A x \in Threads : place(x)' = "committed" => place(x) = "committed"
    BY DEF TakeLock, MoveTo, place, Threads
<1>3. Carried' /\ Recorded' /\ Validated' /\ Overlaid' /\ Marked'
    BY <1>1 DEF Durable, Carried, Settled, Recorded, Validated, Overlaid, Marked, Overlap
<1>4. Committed'
    BY <1>1, <1>2 DEF Durable, Committed
<1>5. writer'.height = job[t].height /\ writer'.keys = DOMAIN updates /\ writer'.next = 1
    BY <1>1
<1>6. Flushed'
    BY <1>1, <1>5 DEF Durable, Committed, Flushed
<1>7. PutsDone'
    BY <1>5 DEF PutsDone
<1> QED BY <1>3, <1>4, <1>6, <1>7 DEF Durable

LEMMA DurableLeave ==
    ASSUME Threading, Durable, NEW t \in Threads, ReleaseLock(t) \/ (t = "sync" /\ WriteFails)
    PROVE  Durable'
<1>1. /\ UNCHANGED <<disk, updates, overlapped>> /\ writer' = NoWriter
      /\ job'[t] = NoJob /\ \A x \in Threads : x # t => job'[x] = job[x]
    BY LeaveEffect
<1>2. place(t)' = Idle(t) /\ \A x \in Threads : x # t => place(x)' = place(x)
    BY DEF ReleaseLock, WriteFails, MoveTo, place, Threads, Idle
<1>3. NoJob.overlay = NoUpdates
    BY DEF NoJob
<1>4. Carried'
    BY <1>1, <1>3, NoneCarries DEF Durable, Carried, Settled
<1>5. Recorded' /\ Validated'
    BY <1>1 DEF Durable, Recorded, Settled, Validated
<1>6. Overlaid'
    BY <1>1 DEF Durable, Overlaid
<1>7. Committed'
    BY <1>1, <1>2 DEF Durable, Committed, Idle
<1>8. Marked'
    BY <1>1 DEF Durable, Marked, Overlap, Threads
<1>9. Flushed' /\ PutsDone'
    BY <1>1 DEF Flushed, PutsDone, Writing
<1> QED BY <1>4, <1>5, <1>6, <1>7, <1>8, <1>9 DEF Durable

LEMMA DurableExecute ==
    ASSUME Threading, Durable, NEW t \in Threads, Executes(t), kernel \notin {"down", "opening"}
    PROVE  Durable'
<1>1. PICK h \in Heights \ {0} :
        /\ UNCHANGED <<disk, updates, writer>>
        /\ job'[t] = [height |-> h, overlay |-> Overlay(h)]
        /\ \A x \in Threads : x # t => job'[x] = job[x]
        /\ overlapped' = IF job[Other(t)] = NoJob THEN overlapped
                         ELSE overlapped \cup {h, job[Other(t)].height}
    BY ExecuteEffect
<1>2. place(t)' = "executed" /\ \A x \in Threads : x # t => place(x)' = place(x)
    BY DEF Executes, MoveTo, place, Threads
<1>3. overlapped \subseteq overlapped' /\ Settled' \subseteq Settled
    BY <1>1 DEF Settled
<1>4. job'[t].height = h /\ job'[t].overlay = Overlay(h)
    BY <1>1
<1>5. Carries(Overlay(h), h) /\ \A g \in Settled : Carries(Overlay(h), g)
    BY OverlayCarries DEF Durable
<1>6. Carried'
    <2> SUFFICES ASSUME NEW g \in Settled'
                 PROVE  /\ Carries(disk'.state, g) /\ Carries(updates', g)
                        /\ \A x \in Threads : Carries(job'[x].overlay, g)
        BY DEF Carried
    <2>1. Carries(disk.state, g) /\ Carries(updates, g)
          /\ \A x \in Threads : Carries(job[x].overlay, g)
        BY <1>3 DEF Durable, Carried
    <2>2. \A x \in Threads : Carries(job'[x].overlay, g)
        BY <1>1, <1>3, <1>4, <1>5, <2>1
    <2> QED BY <1>1, <2>1, <2>2
<1>7. Recorded' /\ Validated'
    BY <1>1, <1>3 DEF Durable, Recorded, Validated
<1>8. Overlaid'
    <2>1. DOMAIN Overlay(h) = Touches(h)
        BY OverlayIs DEF Threading
    <2> QED BY <1>1, <1>4, <1>5, <2>1 DEF Durable, Overlaid
<1>9. Committed'
    BY <1>1, <1>2, <1>3 DEF Durable, Committed
<1>10. Marked'
    <2>1. Other(t) \in Threads /\ Other(t) # t /\ \A x \in Threads : x = t \/ x = Other(t)
        BY DEF Threads, Other
    <2>2. CASE job[Other(t)] = NoJob
        BY <1>1, <2>1, <2>2 DEF Marked, Overlap, Threads
    <2>3. CASE job[Other(t)] # NoJob
        <3>1. h \in overlapped' /\ job[Other(t)].height \in overlapped'
            BY <1>1, <2>3
        <3>2. \A x \in Threads : job'[x].height \in overlapped'
            BY <1>1, <1>4, <2>1, <3>1
        <3> QED BY <3>2 DEF Marked, Threads
    <2> QED BY <2>2, <2>3
<1>11. Flushed'
    BY <1>1, <1>3 DEF Durable, Flushed, Writing
<1>12. PutsDone'
    BY <1>1 DEF Durable, PutsDone, Writing
<1> QED BY <1>6, <1>7, <1>8, <1>9, <1>10, <1>11, <1>12 DEF Durable

LEMMA DurableCommit ==
    ASSUME Threading, Durable, NEW t \in Threads, CommitOverlay(t)
    PROVE  Durable'
<1>1. /\ UNCHANGED <<disk, writer, job, overlapped>>
      /\ DOMAIN updates' = DOMAIN job[t].overlay \cup DOMAIN updates
      /\ \A k \in DOMAIN updates' : updates'[k] = IF k \in DOMAIN job[t].overlay
                                                THEN job[t].overlay[k] ELSE updates[k]
    BY MergeEffect
<1>2. /\ place(t) = "executed" /\ place(t)' = "committed"
      /\ \A x \in Threads : x # t => place(x)' = place(x)
    BY DEF CommitOverlay, MoveTo, place, Threads
<1>3. job[t] # NoJob
    <2>1. job[t].height \in Heights
        BY <1>2 DEF Threading, Jobs, Applying
    <2> QED BY <2>1, HeightsAre DEF NoJob
<1>4. ASSUME NEW h, Carries(job[t].overlay, h), Carries(updates, h) PROVE Carries(updates', h)
    BY <1>1, <1>4 DEF Carries
<1>5. Carried'
    BY <1>1, <1>4 DEF Durable, Carried, Settled
<1>6. Recorded' /\ Validated' /\ Overlaid' /\ Marked' /\ PutsDone'
    BY <1>1 DEF Durable, Recorded, Settled, Validated, Overlaid, Marked, Overlap, PutsDone, Writing
<1>7. Committed'
    <2> SUFFICES ASSUME NEW x \in Threads, place(x)' = "committed", job[x].height \notin overlapped
                 PROVE  /\ Touches(job[x].height) \subseteq DOMAIN updates'
                        /\ Carries(updates', job[x].height)
        BY <1>1 DEF Committed
    <2>1. CASE x = t
        <3>1. DOMAIN job[t].overlay = Touches(job[t].height) /\ Carries(job[t].overlay, job[t].height)
            BY <1>3 DEF Durable, Overlaid
        <3> QED BY <1>1, <2>1, <3>1 DEF Carries
    <2>2. CASE x # t
        <3>1. job[x] # NoJob
            <4>1. job[x].height \in Heights
                BY <1>2, <2>2 DEF Threading, Jobs, Applying
            <4> QED BY <4>1, HeightsAre DEF NoJob
        <3>2. job[x].height \in overlapped
            BY <1>3, <2>2, <3>1 DEF Durable, Marked, Overlap, Threads
        <3> QED BY <3>2
    <2> QED BY <2>1, <2>2
<1>8. Flushed'
    <2>1. ~(Writing /\ writer.height \notin overlapped)
        BY <1>2, <1>3, WriterAlone DEF Durable
    <2> QED BY <1>1, <2>1 DEF Flushed, Writing
<1> QED BY <1>5, <1>6, <1>7, <1>8 DEF Durable

LEMMA DurableFlush ==
    ASSUME Threading, Durable, Write, Flush
    PROVE  Durable'
<1>1. PICK k \in writer.keys :
        /\ k \in Keys \cap DOMAIN updates
        /\ disk'.state = [disk.state EXCEPT ![k] = updates[k]]
        /\ disk'.state[k] = updates[k]
        /\ \A j \in Keys : j # k => disk'.state[j] = disk.state[j]
        /\ disk'.parts = disk.parts /\ disk'.listed = disk.listed
        /\ disk'.count = disk.count /\ disk'.forged = disk.forged
        /\ disk'.turns = disk.turns /\ disk'.validators = disk.validators
        /\ disk'.latest = disk.latest
        /\ writer'.height = writer.height /\ writer'.keys = writer.keys \ {k}
        /\ writer'.next = writer.next
        /\ updates' = IF writer.keys = {k} THEN NoUpdates ELSE updates
        /\ UNCHANGED <<lock, job, overlapped>>
    BY FlushEffect
<1>2. lock # Nobody /\ Writing
    BY DEF Write, Threading, Locks, Writing
<1>3. \A x \in Threads : place(x)' = place(x)
    BY DEF Write, place
<1>4. DOMAIN disk.state = Keys /\ DOMAIN disk'.state = Keys
    BY <1>1 DEF Threading, Values, IsDisk
<1>5. ASSUME NEW h, Carries(disk.state, h), Carries(updates, h) PROVE Carries(disk'.state, h)
    BY <1>1, <1>4, <1>5 DEF Carries
<1>6. ASSUME NEW h, Carries(updates, h) PROVE Carries(updates', h)
    BY <1>1, <1>6, NoneCarries
<1>7. Settled' = Settled
    BY <1>1 DEF Settled
<1>8. Carried'
    BY <1>1, <1>5, <1>6, <1>7 DEF Durable, Carried
<1>9. \A p, h : Effect(disk, p, h) => Effect(disk', p, h)
    BY <1>1 DEF Effect, Counted
<1>10. Recorded' /\ Validated'
    BY <1>1, <1>7, <1>9 DEF Durable, Recorded, Validated
<1>11. Overlaid' /\ Marked'
    BY <1>1 DEF Durable, Overlaid, Marked, Overlap
<1>12. Committed'
    <2> SUFFICES ASSUME NEW x \in Threads, place(x) = "committed", job[x].height \notin overlapped
                 PROVE  FALSE
        BY <1>1, <1>3 DEF Committed
    <2>1. job[x] # NoJob
        <3>1. job[x].height \in Heights
            BY DEF Threading, Jobs, Applying
        <3> QED BY <3>1, HeightsAre DEF NoJob
    <2>2. writer.height \in overlapped
        BY <1>2, <2>1, WriterAlone DEF Durable
    <2>3. lock \in Threads
        <3>1. lock # "kernel"
            BY <2>1, NoJobs DEF Threading, Locks
        <3> QED BY <1>2, <3>1 DEF Threading, Locks
    <2>4. job[lock] # NoJob /\ place(lock) = "writing"
        <3>1. place(lock) = "writing" /\ job[lock].height \in Heights
            BY <2>3 DEF Threading, Jobs, Locks, Applying
        <3> QED BY <3>1, HeightsAre DEF NoJob
    <2>5. job[x].height \in overlapped
        BY <2>1, <2>3, <2>4 DEF Durable, Marked, Overlap, Threads
    <2> QED BY <2>5
<1>13. Flushed'
    <2> SUFFICES ASSUME writer.height \notin overlapped
                 PROVE  /\ Carries(updates', writer.height)
                        /\ \A j \in Touches(writer.height) \ writer'.keys :
                              Includes(disk'.state[j], writer.height)
        BY <1>1 DEF Flushed
    <2>1. /\ Carries(updates, writer.height)
          /\ \A j \in Touches(writer.height) \ writer.keys : Includes(disk.state[j], writer.height)
        BY <1>2 DEF Durable, Flushed
    <2>2. Touches(writer.height) \subseteq Keys
        BY <1>2, CommitAssumption DEF Threading, Writers
    <2>3. ASSUME NEW j \in Touches(writer.height) \ writer'.keys
          PROVE  Includes(disk'.state[j], writer.height)
        <3>1. CASE j = k
            BY <1>1, <2>1, <3>1 DEF Carries
        <3>2. CASE j # k
            BY <1>1, <2>1, <2>2, <3>2
        <3> QED BY <3>1, <3>2
    <2> QED BY <1>6, <2>1, <2>3
<1>14. PutsDone'
    BY <1>1, <1>2, <1>9 DEF Durable, PutsDone
<1> QED BY <1>8, <1>10, <1>11, <1>12, <1>13, <1>14 DEF Durable

LEMMA DurablePut ==
    ASSUME Threading, Durable, Write, PutNext
    PROVE  Durable'
<1>1. PICK h \in Heights, n \in Nat, p \in Names :
        /\ h = writer.height /\ n = writer.next /\ p = NextPut /\ p = Puts(h)[n]
        /\ n \in 1..Len(Puts(h))
    BY PutEffect
<1>2. /\ Kept(disk, disk', p, h) /\ Effect(disk', p, h)
      /\ UNCHANGED <<updates, torn, kernel, job, overlapped, lock>>
      /\ Writing /\ writer.keys = {} /\ h = disk.latest + 1
      /\ writer'.height = h /\ writer'.keys = {} /\ writer'.next = n + 1
    BY <1>1, PutEffect
<1>3. /\ disk'.state = disk.state
      /\ disk'.latest = IF p = "latest" THEN h ELSE disk.latest
      /\ disk'.validators = IF p = "validators" THEN h ELSE disk.validators
    BY <1>2 DEF Kept
<1>4. \A x \in Threads : place(x)' = place(x)
    BY DEF Write, place
<1>5. disk.latest \in Heights \cup {None} /\ disk.validators \in Heights \cup {None}
    BY DEF Threading, Values, IsDisk
<1>6. \A g \in Settled' : g \in Settled \/ (p = "latest" /\ g = h /\ h \notin overlapped)
    BY <1>2, <1>3, <1>5, HeightsAre DEF Settled, None
<1>7. \A g \in Settled : g \in Heights
    BY SettledHeights
<1>8. PutsDone'
    <2> SUFFICES ASSUME NEW i \in 1..n PROVE Effect(disk', Puts(h)[i], h)
        BY <1>2 DEF PutsDone
    <2>1. CASE i = n
        BY <1>1, <1>2, <2>1
    <2>2. CASE i # n
        <3>1. i \in 1..n - 1 /\ i \in 1..Len(Puts(h))
            BY <1>1, <2>2, PutsOrder
        <3>2. Effect(disk, Puts(h)[i], h)
            BY <1>1, <1>2, <3>1 DEF Durable, PutsDone
        <3>3. Puts(h)[i] = "senderCount" => Sender(h) # NoSender
            BY <3>1, PutsOrder
        <3> QED BY <1>2, <3>2, <3>3, EffectStays
    <2> QED BY <2>1, <2>2
<1>9. ASSUME p = "latest" PROVE \A q \in Required(h) : Effect(disk', q, h)
    <2> SUFFICES ASSUME NEW q \in Required(h) PROVE Effect(disk', q, h)
        OBVIOUS
    <2>1. PICK i \in 1..Len(Puts(h)) - 1 : Puts(h)[i] = q
        BY PutsOrder
    <2>2. n = Len(Puts(h))
        <3>1. \A j \in 1..Len(Puts(h)) : Puts(h)[j] = "latest" <=> j = Len(Puts(h))
            BY PutsOrder
        <3> QED BY ONLY <1>1, <1>9, <3>1
    <2>3. i \in 1..(n + 1) - 1
        BY <1>1, <2>1, <2>2
    <2>4. Writing'
        BY <1>2, HeightsAre, NoWriterHeight DEF Writing
    <2> QED BY <1>2, <1>8, <2>1, <2>3, <2>4 DEF PutsDone
<1>10. ASSUME h \notin overlapped
       PROVE  /\ Carries(disk.state, h) /\ Carries(updates, h)
              /\ \A x \in Threads : Carries(job[x].overlay, h)
    <2>1. /\ Carries(updates, h) /\ \A k \in Touches(h) : Includes(disk.state[k], h)
        BY <1>1, <1>2, <1>10 DEF Durable, Flushed
    <2>2. ASSUME NEW x \in Threads PROVE Carries(job[x].overlay, h)
        <3>1. CASE job[x] = NoJob
            BY <3>1, NoneCarries DEF NoJob
        <3>2. CASE job[x] # NoJob
            <4>1. job[x].height = h
                BY <1>1, <1>2, <1>10, <3>2, WriterAlone DEF Durable
            <4> QED BY <3>2, <4>1 DEF Durable, Overlaid
        <3> QED BY <3>1, <3>2
    <2> QED BY <2>1, <2>2 DEF Carries
<1>11. Carried'
    <2> SUFFICES ASSUME NEW g \in Settled'
                 PROVE  /\ Carries(disk.state, g) /\ Carries(updates, g)
                        /\ \A x \in Threads : Carries(job[x].overlay, g)
        BY <1>2, <1>3 DEF Carried
    <2>1. CASE g \in Settled
        BY <2>1 DEF Durable, Carried
    <2>2. CASE g = h /\ h \notin overlapped
        BY <1>10, <2>2
    <2> QED BY <1>6, <2>1, <2>2
<1>12. Recorded'
    <2> SUFFICES ASSUME NEW g \in Settled', NEW q \in Required(g) \ {"validators"}
                 PROVE  Effect(disk', q, g)
        BY DEF Recorded
    <2>1. CASE g \in Settled
        <3>1. Effect(disk, q, g) /\ g \in Heights
            BY <1>7, <2>1 DEF Durable, Recorded
        <3>2. q = "senderCount" => Sender(g) # NoSender
            BY RequiredSender
        <3> QED BY <1>2, <3>1, <3>2, EffectStays
    <2>2. CASE p = "latest" /\ g = h
        BY <1>9, <2>2
    <2> QED BY <1>6, <2>1, <2>2
<1>13. Validated'
    <2> SUFFICES ASSUME NEW g \in 0..disk'.latest, Due(g) PROVE disk'.validators >= g
        BY DEF Validated
    <2>1. CASE g \in 0..disk.latest
        <3>1. disk.validators >= g
            BY <2>1 DEF Durable, Validated
        <3>2. h >= g
            BY <1>2, <1>5, <2>1, HeightsAre DEF None
        <3> QED BY <1>3, <3>1, <3>2
    <2>2. CASE p = "latest" /\ g = h
        <3>1. "validators" \in Required(h)
            BY <2>2 DEF Required, Due
        <3>2. Effect(disk', "validators", h)
            BY <1>9, <2>2, <3>1
        <3>3. disk'.validators = h
            BY <3>2 DEF Effect
        <3> QED BY <2>2, <3>3, HeightsAre
    <2>3. g \in 0..disk.latest \/ (p = "latest" /\ g = h)
        <3>1. disk.latest \in Int /\ h = disk.latest + 1
            <4>1. \A x \in Heights : x \in Int
                BY HeightsAre
            <4>2. disk.latest \in Heights \/ disk.latest = None
                BY <1>5
            <4>3. disk.latest \in Int
                BY ONLY <4>1, <4>2 DEF None
            <4> QED BY <1>2, <4>3
        <3>2. disk'.latest = h \/ disk'.latest = disk.latest
            BY <1>3
        <3>3. g \in Int /\ 0 <= g /\ g <= disk'.latest
            BY <3>1, <3>2
        <3> QED BY <1>3, <3>1, <3>2, <3>3
    <2> QED BY <2>1, <2>2, <2>3
<1>14. Overlaid' /\ Marked'
    BY <1>2 DEF Durable, Overlaid, Marked, Overlap
<1>15. Committed'
    BY <1>2, <1>4 DEF Durable, Committed
<1>16. Flushed'
    BY <1>1, <1>2, <1>3 DEF Durable, Flushed
<1> QED BY <1>8, <1>11, <1>12, <1>13, <1>14, <1>15, <1>16 DEF Durable

LEMMA DurableInit == NodeInit => Durable
<1> SUFFICES ASSUME NodeInit PROVE Durable
    OBVIOUS
<1>1. /\ disk.latest = None /\ ~Writing /\ \A t \in Threads : job[t] = NoJob
      /\ cons = "none" /\ task = "idle"
    BY DEF NodeInit, Init, EmptyDisk, Writing
<1>2. Settled = {} /\ 0..disk.latest = {}
    BY <1>1 DEF Settled, None
<1>3. Carried /\ Recorded /\ Validated
    BY <1>2 DEF Carried, Recorded, Validated
<1>4. Overlaid /\ Committed /\ Marked /\ Flushed /\ PutsDone
    BY <1>1 DEF Overlaid, Committed, Marked, Overlap, Flushed, PutsDone, Threads, place
<1> QED BY <1>3, <1>4 DEF Durable

LEMMA DurableStep ==
    ASSUME Threading, Durable, Threading', BlockStep
    PROVE  Durable'
BY DurableQuiet, DurableBoot, DurableGenesis, DurableExit, DurableExecute, DurableCommit,
   DurableTake, DurableLeave, DurableFlush, DurablePut DEF BlockStep

\* An entry that counts is in the list as it is read.
LEMMA CountedIsListed ==
    ASSUME NEW d, IsDisk(d), NEW k \in Keys, NEW h, Counted(d, k, h)
    PROVE  Includes(SubSeq(d.listed[k], 1, d.count[k]), h)
<1> DEFINE n == d.count[k]
           s == d.listed[k]
           t == SubSeq(s, 1, n)
<1>1. n \in Nat /\ s \in Seq(Heights) /\ n <= Len(s)
    BY DEF IsDisk
<1>2. \A i \in 1..n : s[i] \in Heights
    BY <1>1
<1>3. /\ t \in Seq(Heights) /\ Len(t) = (IF 1 <= n THEN n - 1 + 1 ELSE 0)
      /\ \A i \in 1..(n - 1 + 1) : t[i] = s[1 + i - 1]
    BY <1>1, <1>2, SubSeqProperties
<1>4. PICK i \in 1..n : s[i] = h
    BY DEF Counted
<1> HIDE DEF t, s, n
<1>5. DOMAIN t = 1..n /\ t[i] = h
    BY <1>1, <1>3, <1>4
<1>6. i \in DOMAIN t
    BY <1>4, <1>5
<1>7. Includes(t, h)
    BY <1>5, <1>6 DEF Includes
<1> QED BY <1>7 DEF t, s, n

LEMMA DurableIsComplete ==
    ASSUME Threading, Durable, NEW h \in Settled
    PROVE  Complete(h)
<1>1. h \in Heights /\ h \in 0..disk.latest /\ IsDisk(disk)
    BY SettledHeights DEF Threading, Values, Settled
<1>2. \A p \in Required(h) \ {"validators"} : Effect(disk, p, h)
    BY DEF Durable, Recorded
<1>3. \A k \in Touches(h) : Includes(disk.state[k], h)
    <2>1. Touches(h) \subseteq DOMAIN disk.state
        BY <1>1, CommitAssumption DEF IsDisk
    <2> QED BY <2>1 DEF Durable, Carried, Carries
<1>4. \A p \in {"header", "transactions", "results", "votes", "hash"} : <<p, h>> \in disk.parts
    BY <1>2 DEF Required, Effect
<1>5. \A i \in DOMAIN BlockParts : <<BlockParts[i], h>> \in disk.parts
    BY <1>4 DEF BlockParts
<1>6. ASSUME Sender(h) # NoSender
      PROVE  HasTransaction(h) /\ Includes(SubSeq(disk.listed[Sender(h)], 1, disk.count[Sender(h)]), h)
    <2>1. Effect(disk, "txIndex", h) /\ Effect(disk, "senderCount", h)
        BY <1>2, <1>6 DEF Required
    <2>2. HasTransaction(h) /\ Counted(disk, Sender(h), h)
        BY <2>1 DEF Effect, HasTransaction
    <2>3. Sender(h) \in Keys
        BY <1>1, <1>6, CommitAssumption
    <2> QED BY <1>1, <2>2, <2>3, CountedIsListed
<1>7. ASSUME h > 0
      PROVE  /\ {<<"coinbaseIndex", h>>, <<"coinbaseHash", h>>} \subseteq disk.parts
             /\ Includes(SubSeq(disk.listed[Coinbase], 1, disk.count[Coinbase]), h)
             /\ Includes(disk.forged, h) /\ Includes(disk.turns, h)
    <2>1. \A p \in {"coinbaseIndex", "coinbaseHash", "coinbaseCount", "forged", "turn"} :
            Effect(disk, p, h)
        BY <1>2, <1>7 DEF Required
    <2>2. /\ <<"coinbaseIndex", h>> \in disk.parts /\ <<"coinbaseHash", h>> \in disk.parts
          /\ Counted(disk, Coinbase, h) /\ Includes(disk.forged, h) /\ Includes(disk.turns, h)
        BY <2>1 DEF Effect
    <2> QED BY <1>1, <2>2, CountedIsListed, CommitAssumption
<1>8. \A g \in 0..h : g % ValidatorUpdateInterval = 0 => disk.validators >= g
    <2>1. \A g \in 0..h : g \in 0..disk.latest
        <3>1. disk.latest \in Int
            <4>1. disk.latest \in Heights \/ disk.latest = None
                BY DEF Threading, Numbers
            <4>2. \A g \in Heights : g \in Int
                BY HeightsAre
            <4> QED BY ONLY <4>1, <4>2 DEF None
        <3>2. h \in Int /\ h <= disk.latest
            BY <1>1, <3>1
        <3> QED BY <3>1, <3>2
    <2>2. \A g \in 0..disk.latest : Due(g) => disk.validators >= g
        BY DEF Durable, Validated
    <2> QED BY <2>1, <2>2 DEF Due
<1> QED BY <1>3, <1>5, <1>6, <1>7, <1>8 DEF Complete

\* Whatever dies when, and whatever is applied by two threads elsewhere: a block up to the
\* latest one on disk is there in full.
THEOREM NodeAddedIsComplete == Spec => []AddedIsComplete
<1>1. Threading /\ Durable /\ [Next]_vars => Durable'
    BY StepThreading, DurableStep
<1>2. Threading /\ Durable => AddedIsComplete
    BY DurableIsComplete DEF AddedIsComplete, Settled
<1> QED BY <1>1, <1>2, DurableInit, AlwaysThreading, PTL DEF Spec

----------------------------------------------------------------------------
\* Spoiled heights aside, a value counts each height as often as f says, in their order.
Tally(v, f, S) ==
    /\ \A x \in Heights \ S : Times(v, x) = f[x]
    /\ \A i, j \in DOMAIN v : i < j /\ {v[i], v[j]} \cap S = {} => v[i] <= v[j]

\* What the heights of G contribute; what those up to the latest do, and n times those of W.
Of(times, G) == [x \in Heights |-> IF x \in G THEN times[x] ELSE 0]
Upto(times, latest, W, n) ==
    [x \in Heights |-> IF x <= latest THEN times[x] ELSE IF x \in W THEN n ELSE 0]

\* The heights that are on disk, and the one that is being put there, if any; nothing is
\* while the databases are closed.
Added == 0..disk.latest
Underway == IF open /\ Writing THEN {writer.height} ELSE {}

\* How far the writer has come.
Reached(p) == \E i \in 1..writer.next - 1 : Puts(writer.height)[i] = p
ListSoFar(k) == One(Reached("senderCount") /\ Sender(writer.height) = k)
                + One(Reached("coinbaseCount") /\ Coinbase = k)

StateExact == \A k \in Keys : Tally(disk.state[k],
    Of(StateTimes(k), Added \cup (IF k \in writer.keys THEN {} ELSE Underway)), Spoiled)
ListExact == \A k \in Keys :
    Tally(Listed(k), Upto(ListTimes(k), disk.latest, Underway, ListSoFar(k)), Spoiled)
ForgedExact ==
    Tally(disk.forged, Upto(RewardTimes, disk.latest, Underway, One(Reached("forged"))), Spoiled)
TurnsExact ==
    Tally(disk.turns, Upto(RewardTimes, disk.latest, Underway, One(Reached("turn"))), Spoiled)
PartsExact == \A e \in disk.parts :
    e[2] <= disk.latest \/ e[2] \in Spoiled \/ e[2] \in Underway
ValidatorsExact == disk.latest # None =>
    \/ disk.validators = LastUpdate(disk.latest)
    \/ disk.validators \in Spoiled
    \/ disk.validators \in Underway /\ Due(disk.validators)

OnDisk == StateExact /\ ListExact /\ ForgedExact /\ TurnsExact /\ PartsExact /\ ValidatorsExact

\* The heights that are in the updates and perhaps not on disk.
Ahead == {x \in Heights : \/ Writing /\ x = writer.height
                          \/ \E t \in Threads : place(t) = "committed" /\ job[t].height = x}

UpdatesExact == \A k \in DOMAIN updates :
    Tally(updates[k], Of(StateTimes(k), Added \cup Ahead), Spoiled)

\* An overlay has what was added, and its own block.
OverlaysExact == \A t \in Threads : place(t) = "executed" =>
    \A k \in DOMAIN job[t].overlay :
        Tally(job[t].overlay[k], Of(StateTimes(k), Added \cup {job[t].height}), Spoiled)

\* A block that only one thread applies is the next one.
NextInLine ==
    /\ \A t \in Threads : place(t) \in {"executed", "committed"} /\ job[t].height \notin Spoiled =>
          job[t].height = disk.latest + 1
    /\ Writing /\ writer.next = 1 /\ writer.height \notin Spoiled =>
          writer.height = disk.latest + 1

Opened == open => kernel \notin {"down", "stopped"}

Sound == Opened /\ OnDisk /\ (open => UpdatesExact /\ OverlaysExact /\ NextInLine)

----------------------------------------------------------------------------
\* What an appended height does to a value.
LEMMA TimesAppend ==
    ASSUME NEW v \in Seq(Heights), NEW h \in Heights, NEW x \in Heights
    PROVE  Times(v, x) \in Nat /\ Times(Append(v, h), x) = Times(v, x) + One(x = h)
<1>1. PICK w : w = Append(v, h)
    OBVIOUS
<1>2. PICK n \in Nat : n = Len(v)
    OBVIOUS
<1>3. /\ DOMAIN v = 1..n /\ DOMAIN w = 1..(n + 1)
      /\ w[n + 1] = h /\ \A i \in 1..n : w[i] = v[i]
    BY <1>1, <1>2
<1>4. PICK A : A = {i \in DOMAIN v : v[i] = x}
    OBVIOUS
<1>5. PICK B : B = {i \in DOMAIN w : w[i] = x}
    OBVIOUS
<1>6. IsFiniteSet(A) /\ n + 1 \notin A
    <2>1. IsFiniteSet(1..n)
        <3>1. 1 \in Int /\ n \in Int
            OBVIOUS
        <3> QED BY ONLY <3>1, FS_Interval
    <2>2. A \in SUBSET (1..n)
        BY ONLY <1>3, <1>4
    <2>3. IsFiniteSet(A)
        BY ONLY <2>1, <2>2, FS_Subset
    <2> QED BY <2>2, <2>3
<1>7. Cardinality(A) \in Nat
    BY <1>6, FS_CardinalityType
<1>8. CASE x = h
    <2>1. B = A \cup {n + 1}
        BY <1>3, <1>4, <1>5, <1>8
    <2>2. Cardinality(B) = Cardinality(A) + 1
        BY <2>1, <1>6, FS_AddElement
    <2> QED BY <2>2, <1>1, <1>4, <1>5, <1>7, <1>8 DEF Times, One
<1>9. CASE x # h
    <2>1. B = A
        BY <1>3, <1>4, <1>5, <1>9
    <2>2. Times(w, x) = Times(v, x) /\ Times(v, x) \in Nat
        BY <2>1, <1>4, <1>5, <1>7 DEF Times
    <2>3. One(x = h) = 0
        BY <1>9 DEF One
    <2> QED BY ONLY <2>2, <2>3, <1>1
<1> QED BY <1>8, <1>9

\* A height that a value has not counted is nowhere in it.
LEMMA TimesZero ==
    ASSUME NEW v \in Seq(Heights), NEW x \in Heights, Times(v, x) = 0, NEW i \in DOMAIN v
    PROVE  v[i] # x
<1>1. PICK A : A = {j \in DOMAIN v : v[j] = x}
    OBVIOUS
<1>2. IsFiniteSet(A)
    <2>1. Len(v) \in Int /\ DOMAIN v = 1..Len(v)
        OBVIOUS
    <2>2. IsFiniteSet(1..Len(v)) /\ A \in SUBSET (1..Len(v))
        BY <1>1, <2>1, FS_Interval
    <2> QED BY <2>2, FS_Subset
<1>3. A = {}
    BY <1>1, <1>2, FS_EmptySet DEF Times
<1> QED BY <1>1, <1>3

LEMMA TallyAppend ==
    ASSUME NEW v \in Seq(Heights), NEW h \in Heights, NEW S, NEW f, NEW g, Tally(v, f, S),
           \A x \in Heights \ S : g[x] = f[x] + One(x = h),
           h \notin S => \A x \in Heights \ S : x > h => f[x] = 0
    PROVE  Tally(Append(v, h), g, S)
<1>1. PICK w : w = Append(v, h)
    OBVIOUS
<1>2. PICK n \in Nat : n = Len(v)
    OBVIOUS
<1>3. /\ DOMAIN v = 1..n /\ DOMAIN w = 1..(n + 1) /\ \A i \in 1..n : v[i] \in Heights
      /\ w[n + 1] = h /\ \A i \in 1..n : w[i] = v[i]
    BY <1>1, <1>2
<1>4. ASSUME NEW x \in Heights \ S PROVE Times(w, x) = g[x]
    BY <1>1, TimesAppend DEF Tally
<1>5. ASSUME NEW i \in DOMAIN w, NEW j \in DOMAIN w, i < j, {w[i], w[j]} \cap S = {}
      PROVE  w[i] <= w[j]
    <2>1. i \in 1..n
        BY <1>3, <1>5
    <2>2. CASE j \in 1..n
        BY <1>3, <1>5, <2>1, <2>2 DEF Tally
    <2>3. CASE j = n + 1
        <3>1. h \notin S /\ v[i] \in Heights \ S
            BY <1>3, <1>5, <2>1, <2>3
        <3>2. Times(v, v[i]) = f[v[i]]
            BY <3>1 DEF Tally
        <3>3. Times(v, v[i]) # 0
            BY <1>3, <2>1, <3>1, TimesZero
        <3>4. ~(v[i] > h)
            BY <3>1, <3>2, <3>3
        <3> QED BY <1>3, <2>1, <2>3, <3>1, <3>4, HeightsAre
    <2> QED BY <1>3, <2>2, <2>3
<1> QED BY <1>1, <1>4, <1>5 DEF Tally

\* More heights may be spoiled, and what is asked of those does not matter.
LEMMA TallySame ==
    ASSUME NEW v, NEW f, NEW g, NEW S, NEW R, Tally(v, f, S), S \subseteq R,
           \A x \in Heights \ R : g[x] = f[x]
    PROVE  Tally(v, g, R)
<1>1. \A x \in Heights \ R : Times(v, x) = g[x]
    BY DEF Tally
<1>2. ASSUME NEW i \in DOMAIN v, NEW j \in DOMAIN v, i < j, {v[i], v[j]} \cap R = {}
      PROVE  v[i] <= v[j]
    <2>1. {v[i], v[j]} \cap S = {}
        BY <1>2
    <2> QED BY <1>2, <2>1 DEF Tally
<1> QED BY <1>1, <1>2 DEF Tally

LEMMA TallyCounts ==
    ASSUME NEW v, NEW f, NEW times, NEW S, Tally(v, f, S),
           \A x \in Heights \ S : f[x] = IF x <= disk.latest THEN times[x] ELSE 0
    PROVE  Counts(v, times, S)
BY DEF Tally, Counts

LEMMA EmptyTally ==
    ASSUME NEW S, NEW f, \A x \in Heights \ S : f[x] = 0
    PROVE  Tally(<<>>, f, S)
<1>1. \A x : Times(<<>>, x) = 0
    <2>1. \A x : {i \in DOMAIN <<>> : <<>>[i] = x} = {}
        OBVIOUS
    <2> QED BY <2>1, FS_EmptySet DEF Times
<1>2. DOMAIN <<>> = {}
    OBVIOUS
<1> QED BY <1>1, <1>2 DEF Tally

\* One less divides with a remainder of one less.
LEMMA ModDown ==
    ASSUME NEW n \in Nat \ {0}, NEW h \in Nat, h > 0, h % n # 0
    PROVE  (h - 1) % n = (h % n) - 1
<1>1. PICK q \in Int, r \in 0..n - 1 : r = h % n /\ h = n * q + r
    OBVIOUS
<1>2. PICK p \in Int, s \in 0..n - 1 : s = (h - 1) % n /\ h - 1 = n * p + s
    OBVIOUS
<1>3. PICK d \in Int : d = q - p
    OBVIOUS
<1>4. PICK a \in Int, b \in Int, c \in Int : a = n * q /\ b = n * p /\ c = n * d
    OBVIOUS
<1>4a. c = a - b
    BY <1>3, <1>4
<1>4b. h = a + r /\ h - 1 = b + s
    BY ONLY <1>1, <1>2, <1>4, Zenon
<1>4c. c = s - r + 1
    BY ONLY <1>4a, <1>4b, h \in Int, r \in Int, s \in Int, a \in Int, b \in Int
<1>5. n * d = s - r + 1
    BY ONLY <1>4, <1>4c, Zenon
<1>6. r >= 1 /\ s - r + 1 < n /\ s - r + 1 > -n
    BY <1>1, <1>2
<1>7. d = 0
    <2>1. CASE d >= 1
        <3>1. n * d >= n
            BY <2>1
        <3> QED BY <3>1, <1>5, <1>6
    <2>2. CASE d <= -1
        <3>1. n * d <= -n
            BY <2>2
        <3> QED BY <3>1, <1>5, <1>6
    <2> QED BY <1>3, <2>1, <2>2
<1> QED BY <1>1, <1>2, <1>5, <1>7

\* The last height at which the validators were written.
LEMMA LastUpdateIs ==
    ASSUME NEW h \in Heights
    PROVE  /\ Due(h) => LastUpdate(h) = h
           /\ ~Due(h) => h > 0 /\ LastUpdate(h) = LastUpdate(h - 1)
<1>1. PICK n \in Nat \ {0} : n = ValidatorUpdateInterval
    BY CommitAssumption
<1>2. h \in Nat
    BY HeightsAre
<1>3. CASE h % n = 0
    BY <1>1, <1>2, <1>3 DEF LastUpdate, Due
<1>4. CASE h % n # 0
    <2>1. h > 0
        <3>1. 0 % n = 0
            BY <1>1
        <3>2. h # 0
            BY <1>4, <3>1
        <3> QED BY <1>2, <3>2
    <2>2. (h - 1) % n = (h % n) - 1
        BY <1>1, <1>2, <1>4, <2>1, ModDown
    <2> QED BY <1>1, <1>2, <1>4, <2>1, <2>2 DEF LastUpdate, Due
<1> QED BY <1>3, <1>4

----------------------------------------------------------------------------
\* Nothing that is counted is put twice, and the genesis has no reward.
Statistic == {"senderCount", "coinbaseCount", "forged", "turn"}

LEMMA PutsOnce ==
    ASSUME NEW h
    PROVE  /\ \A i, j \in 1..Len(Puts(h)) :
                Puts(h)[i] = Puts(h)[j] /\ Puts(h)[i] \in Statistic => i = j
           /\ \A i \in 1..Len(Puts(h)) :
                /\ Puts(h)[i] = "senderCount" => Sender(h) # NoSender
                /\ Puts(h)[i] \in {"coinbaseCount", "forged", "turn"} => h # 0
                /\ Puts(h)[i] = "validators" => Due(h)
<1>1. PICK t \in {0, 3} : t = Len(TxPuts(h)) /\ t = IF Sender(h) = NoSender THEN 0 ELSE 3
    BY TxPutsAt
<1>2. PICK r \in {0, 6} : r = Len(RewardPuts(h)) /\ r = IF h = 0 THEN 0 ELSE 6
    BY RewardPutsAt
<1>3. PICK v \in {0, 1} : v = Len(ValidatorPuts(h)) /\ v = IF Due(h) THEN 1 ELSE 0
    BY ValidatorPutsAt DEF Due
<1>4. PICK q : q = Puts(h)
    OBVIOUS
<1>4a. /\ \A i \in 1..Len(TxPuts(h)) : q[5 + i] = TxPuts(h)[i]
       /\ \A i \in 1..Len(RewardPuts(h)) : q[5 + Len(TxPuts(h)) + i] = RewardPuts(h)[i]
       /\ \A i \in 1..Len(ValidatorPuts(h)) :
            q[5 + Len(TxPuts(h)) + Len(RewardPuts(h)) + i] = ValidatorPuts(h)[i]
    BY ONLY <1>4, PutsAt, Zenon
<1>4b. Len(q) = 5 + t + r + v + 1 /\ q[5 + t + r + v + 1] = "latest"
    BY <1>1, <1>2, <1>3, <1>4, PutsAt
<1>5. /\ \A i \in 1..t : q[5 + i] = TxPuts(h)[i]
      /\ \A i \in 1..r : q[5 + t + i] = RewardPuts(h)[i]
      /\ \A i \in 1..v : q[5 + t + r + i] = ValidatorPuts(h)[i]
      /\ Len(q) = 5 + t + r + v + 1 /\ q[5 + t + r + v + 1] = "latest"
    BY ONLY <1>1, <1>2, <1>3, <1>4a, <1>4b
<1>6. /\ q[1] = "header" /\ q[2] = "transactions" /\ q[3] = "results"
      /\ q[4] = "votes" /\ q[5] = "hash"
    BY <1>4, PutsAt, BlockPartsAt
<1>7. t = 3 => q[6] = "txIndex" /\ q[7] = "senderEntry" /\ q[8] = "senderCount"
    <2> SUFFICES ASSUME t = 3 PROVE q[6] = "txIndex" /\ q[7] = "senderEntry" /\ q[8] = "senderCount"
        OBVIOUS
    <2>1. \A i \in 1..3 : q[5 + i] = TxPuts(h)[i]
        BY <1>5
    <2>2. q[5 + 1] = TxPuts(h)[1] /\ q[5 + 2] = TxPuts(h)[2] /\ q[5 + 3] = TxPuts(h)[3]
        BY <2>1
    <2> QED BY <2>2, <1>1, TxPutsAt
<1>8. r = 6 => /\ q[6 + t] = "coinbaseIndex" /\ q[7 + t] = "coinbaseHash"
               /\ q[8 + t] = "coinbaseEntry" /\ q[9 + t] = "coinbaseCount"
               /\ q[10 + t] = "forged" /\ q[11 + t] = "turn"
    <2> SUFFICES ASSUME r = 6
                 PROVE  /\ q[6 + t] = "coinbaseIndex" /\ q[7 + t] = "coinbaseHash"
                        /\ q[8 + t] = "coinbaseEntry" /\ q[9 + t] = "coinbaseCount"
                        /\ q[10 + t] = "forged" /\ q[11 + t] = "turn"
        OBVIOUS
    <2>1. \A i \in 1..6 : q[5 + t + i] = RewardPuts(h)[i]
        BY <1>5
    <2>2. /\ q[6 + t] = RewardPuts(h)[1] /\ q[7 + t] = RewardPuts(h)[2]
          /\ q[8 + t] = RewardPuts(h)[3] /\ q[9 + t] = RewardPuts(h)[4]
          /\ q[10 + t] = RewardPuts(h)[5] /\ q[11 + t] = RewardPuts(h)[6]
        BY <2>1
    <2> QED BY <2>2, <1>2, RewardPutsAt
<1>9. v = 1 => q[6 + t + r] = "validators"
    <2> SUFFICES ASSUME v = 1 PROVE q[6 + t + r] = "validators"
        OBVIOUS
    <2>1. \A i \in 1..1 : q[5 + t + r + i] = ValidatorPuts(h)[i]
        BY <1>5
    <2>2. q[6 + t + r] = ValidatorPuts(h)[1]
        BY <2>1
    <2> QED BY <2>2, <1>3, ValidatorPutsAt DEF Due
<1>10. ASSUME NEW i \in 1..Len(q)
       PROVE  /\ q[i] = "senderCount" => t = 3 /\ i = 8
              /\ q[i] = "coinbaseCount" => r = 6 /\ i = 9 + t
              /\ q[i] = "forged" => r = 6 /\ i = 10 + t
              /\ q[i] = "turn" => r = 6 /\ i = 11 + t
              /\ q[i] = "validators" => v = 1
    <2>1. \/ i \in 1..5
          \/ t = 3 /\ i \in 6..8
          \/ r = 6 /\ i \in (6 + t)..(11 + t)
          \/ v = 1 /\ i = 6 + t + r
          \/ i = Len(q)
        BY <1>5
    <2>2. CASE i \in 1..5
        BY <2>2, <1>6
    <2>3. CASE t = 3 /\ i \in 6..8
        BY <2>3, <1>7
    <2>4. CASE r = 6 /\ i \in (6 + t)..(11 + t)
        <3>1. \/ i = 6 + t \/ i = 7 + t \/ i = 8 + t \/ i = 9 + t \/ i = 10 + t \/ i = 11 + t
            BY <2>4
        <3> QED BY <2>4, <3>1, <1>8
    <2>5. CASE v = 1 /\ i = 6 + t + r
        BY <2>5, <1>9
    <2>6. CASE i = Len(q)
        BY <2>6, <1>5
    <2> QED BY <2>1, <2>2, <2>3, <2>4, <2>5, <2>6
<1>11. ASSUME NEW i \in 1..Len(q), NEW j \in 1..Len(q), q[i] = q[j], q[i] \in Statistic
       PROVE  i = j
    BY <1>10, <1>11 DEF Statistic
<1>12. ASSUME NEW i \in 1..Len(q)
       PROVE  /\ q[i] = "senderCount" => Sender(h) # NoSender
              /\ q[i] \in {"coinbaseCount", "forged", "turn"} => h # 0
              /\ q[i] = "validators" => Due(h)
    BY <1>1, <1>2, <1>3, <1>10
<1> QED BY <1>4, <1>11, <1>12

\* The list of an account as it is read from a disk.
ListOf(d, k) == SubSeq(d.listed[k], 1, d.count[k])

LEMMA ListOfIs ==
    ASSUME NEW d, IsDisk(d), NEW k \in Keys
    PROVE  /\ ListOf(d, k) \in Seq(Heights) /\ Len(ListOf(d, k)) = d.count[k]
           /\ \A i \in 1..d.count[k] : ListOf(d, k)[i] = d.listed[k][i]
<1>1. PICK n \in Nat, s \in Seq(Heights) : n = d.count[k] /\ s = d.listed[k] /\ n <= Len(s)
    BY DEF IsDisk
<1>2. \A i \in 1..n : s[i] \in Heights
    BY <1>1
<1>3. /\ SubSeq(s, 1, n) \in Seq(Heights) /\ Len(SubSeq(s, 1, n)) = (IF 1 <= n THEN n - 1 + 1 ELSE 0)
      /\ \A i \in 1..(n - 1 + 1) : SubSeq(s, 1, n)[i] = s[1 + i - 1]
    BY <1>2, SubSeqProperties
<1>4. PICK t \in Seq(Heights) : t = SubSeq(s, 1, n)
    BY <1>3
<1>5. Len(t) = n /\ \A i \in 1..n : t[i] = s[i]
    BY <1>3, <1>4
<1> QED BY <1>1, <1>4, <1>5 DEF ListOf

\* An entry that is put does not count before the new length is.
LEMMA EntryUnread ==
    ASSUME NEW d, IsDisk(d), NEW k \in Keys, NEW h \in Heights, NEW e, e = NextEntry(d, k, h),
           NEW j \in Keys
    PROVE  ListOf(e, j) = ListOf(d, j)
<1>1. IsDisk(e)
    BY NextEntryKeeps
<1>2. PICK u : u = Append(SubSeq(d.listed[k], 1, d.count[k]), h)
    OBVIOUS
<1>3. e = [d EXCEPT !.listed = [d.listed EXCEPT ![k] = u]]
    BY <1>2 DEF NextEntry
<1>4. e.count = d.count /\ e.listed = [d.listed EXCEPT ![k] = u]
    BY <1>3 DEF IsDisk
<1>5. CASE j # k
    BY <1>4, <1>5 DEF ListOf, IsDisk
<1>6. CASE j = k
    <2>1. PICK n \in Nat : n = d.count[k]
        BY DEF IsDisk
    <2>2. PICK t \in Seq(Heights) : t = ListOf(d, k) /\ Len(t) = n
        BY <2>1, ListOfIs
    <2>3. u = Append(t, h)
        BY <1>2, <2>2 DEF ListOf
    <2>4. \A i \in 1..n : u[i] = t[i]
        BY <2>2, <2>3
    <2>5. e.listed[k] = u /\ e.count[k] = n
        BY <1>4, <2>1 DEF IsDisk
    <2>6. PICK w \in Seq(Heights) : w = ListOf(e, k) /\ Len(w) = n /\ \A i \in 1..n : w[i] = u[i]
        BY <1>1, <2>5, ListOfIs
    <2>7. w = t
        BY <2>2, <2>4, <2>6, SeqEqual
    <2> QED BY <1>6, <2>2, <2>6, <2>7
<1> QED BY <1>5, <1>6

\* The new length makes the entry count.
LEMMA EntryCounts ==
    ASSUME NEW d, IsDisk(d), NEW k \in Keys, NEW h \in Heights, Pending(d, k, h),
           NEW e, e = [d EXCEPT !.count[k] = @ + 1], NEW j \in Keys
    PROVE  ListOf(e, j) = IF j = k THEN Append(ListOf(d, j), h) ELSE ListOf(d, j)
<1>1. IsDisk(e)
    BY CountKeeps
<1>2. e = [d EXCEPT !.count = [d.count EXCEPT ![k] = d.count[k] + 1]]
    OBVIOUS
<1>3. e.listed = d.listed /\ e.count = [d.count EXCEPT ![k] = d.count[k] + 1]
    BY <1>2 DEF IsDisk
<1>4. CASE j # k
    BY <1>3, <1>4 DEF ListOf, IsDisk
<1>5. CASE j = k
    <2>1. PICK n \in Nat, s \in Seq(Heights) : n = d.count[k] /\ s = d.listed[k] /\ s[n + 1] = h
        BY DEF IsDisk, Pending
    <2>2. PICK t \in Seq(Heights) : t = ListOf(d, k) /\ Len(t) = n /\ \A i \in 1..n : t[i] = s[i]
        BY <2>1, ListOfIs
    <2>3. PICK u : u = Append(t, h)
        OBVIOUS
    <2>4. /\ u \in Seq(Heights) /\ Len(u) = n + 1
          /\ u[n + 1] = h /\ \A i \in 1..n : u[i] = t[i]
        BY <2>2, <2>3, AppendProperties
    <2>5. e.listed[k] = s /\ e.count[k] = n + 1
        BY <1>3, <2>1 DEF IsDisk
    <2>6. PICK w : w = ListOf(e, k)
        OBVIOUS
    <2>6b. /\ ListOf(e, k) \in Seq(Heights) /\ Len(ListOf(e, k)) = e.count[k]
           /\ \A i \in 1..e.count[k] : ListOf(e, k)[i] = e.listed[k][i]
        <3>1. k \in Keys
            OBVIOUS
        <3> QED BY ONLY <1>1, <3>1, ListOfIs
    <2>6a. w \in Seq(Heights) /\ Len(w) = n + 1 /\ \A i \in 1..(n + 1) : w[i] = s[i]
        BY ONLY <2>5, <2>6, <2>6b
    <2>7. \A i \in 1..(n + 1) : w[i] = u[i]
        <3> SUFFICES ASSUME NEW i \in 1..(n + 1) PROVE w[i] = u[i]
            OBVIOUS
        <3>1. CASE i \in 1..n
            BY <3>1, <2>2, <2>4, <2>6a
        <3>2. CASE i = n + 1
            BY <3>2, <2>1, <2>4, <2>6a
        <3> QED BY <3>1, <3>2
    <2>8. w = u
        BY <2>4, <2>6a, <2>7, SeqEqual
    <2> QED BY <1>5, <2>2, <2>3, <2>6, <2>8
<1> QED BY <1>4, <1>5

\* What exactly a put changes.
LEMMA PutExact ==
    ASSUME NEW d, IsDisk(d), NEW h \in Heights, NEW p \in Names, NEW e, e = Put(d, p, h),
           p \in {"senderEntry", "senderCount"} => Sender(h) # NoSender,
           p = "senderCount" => Pending(d, Sender(h), h),
           p = "coinbaseCount" => Pending(d, Coinbase, h)
    PROVE  /\ \A k \in Keys : ListOf(e, k) =
                IF (p = "senderCount" /\ k = Sender(h)) \/ (p = "coinbaseCount" /\ k = Coinbase)
                THEN Append(ListOf(d, k), h) ELSE ListOf(d, k)
           /\ e.forged = IF p = "forged" THEN Append(d.forged, h) ELSE d.forged
           /\ e.turns = IF p = "turn" THEN Append(d.turns, h) ELSE d.turns
           /\ \A x \in e.parts : x \in d.parts \/ x[2] = h
<1>1. CASE p = "senderEntry"
    <2>1. Sender(h) \in Keys
        BY <1>1, CommitAssumption
    <2>2. e = NextEntry(d, Sender(h), h)
        BY <1>1 DEF Put
    <2>3. e.parts = d.parts /\ e.forged = d.forged /\ e.turns = d.turns
        BY <2>1, <2>2, NextEntryKeeps
    <2>4. \A k \in Keys : ListOf(e, k) = ListOf(d, k)
        BY <2>1, <2>2, EntryUnread
    <2> QED BY <1>1, <2>3, <2>4
<1>2. CASE p = "coinbaseEntry"
    <2>1. Coinbase \in Keys
        BY CommitAssumption
    <2>2. e = NextEntry(d, Coinbase, h)
        BY <1>2 DEF Put
    <2>3. e.parts = d.parts /\ e.forged = d.forged /\ e.turns = d.turns
        BY <2>1, <2>2, NextEntryKeeps
    <2>4. \A k \in Keys : ListOf(e, k) = ListOf(d, k)
        BY <2>1, <2>2, EntryUnread
    <2> QED BY <1>2, <2>3, <2>4
<1>3. CASE p = "senderCount"
    <2>1. Sender(h) \in Keys /\ Pending(d, Sender(h), h)
        BY <1>3, CommitAssumption
    <2>2. e = [d EXCEPT !.count[Sender(h)] = @ + 1]
        BY <1>3 DEF Put
    <2>3. e.parts = d.parts /\ e.forged = d.forged /\ e.turns = d.turns
        BY <2>1, <2>2, CountKeeps
    <2>4. \A k \in Keys :
            ListOf(e, k) = IF k = Sender(h) THEN Append(ListOf(d, k), h) ELSE ListOf(d, k)
        BY <2>1, <2>2, EntryCounts
    <2> QED BY <1>3, <2>3, <2>4
<1>4. CASE p = "coinbaseCount"
    <2>1. Coinbase \in Keys /\ Pending(d, Coinbase, h)
        BY <1>4, CommitAssumption
    <2>2. e = [d EXCEPT !.count[Coinbase] = @ + 1]
        BY <1>4 DEF Put
    <2>3. e.parts = d.parts /\ e.forged = d.forged /\ e.turns = d.turns
        BY <2>1, <2>2, CountKeeps
    <2>4. \A k \in Keys :
            ListOf(e, k) = IF k = Coinbase THEN Append(ListOf(d, k), h) ELSE ListOf(d, k)
        BY <2>1, <2>2, EntryCounts
    <2> QED BY <1>4, <2>3, <2>4
<1>5. CASE p = "forged"
    <2>1. e = [d EXCEPT !.forged = Append(d.forged, h)]
        BY <1>5 DEF Put
    <2>2. /\ e.parts = d.parts /\ e.listed = d.listed /\ e.count = d.count
          /\ e.forged = Append(d.forged, h) /\ e.turns = d.turns
        BY <2>1 DEF IsDisk
    <2> QED BY <1>5, <2>2 DEF ListOf
<1>6. CASE p = "turn"
    <2>1. e = [d EXCEPT !.turns = Append(d.turns, h)]
        BY <1>6 DEF Put
    <2>2. /\ e.parts = d.parts /\ e.listed = d.listed /\ e.count = d.count
          /\ e.turns = Append(d.turns, h) /\ e.forged = d.forged
        BY <2>1 DEF IsDisk
    <2> QED BY <1>6, <2>2 DEF ListOf
<1>7. CASE p \in {"validators", "latest"}
    <2>1. e = [d EXCEPT !.validators = h] \/ e = [d EXCEPT !.latest = h]
        BY <1>7 DEF Put
    <2>2. /\ e.parts = d.parts /\ e.listed = d.listed /\ e.count = d.count
          /\ e.turns = d.turns /\ e.forged = d.forged
        BY <2>1 DEF IsDisk
    <2> QED BY <1>7, <2>2 DEF ListOf
<1>8. CASE p \notin {"senderEntry", "coinbaseEntry", "senderCount", "coinbaseCount", "forged",
                     "turn", "validators", "latest"}
    <2>1. e = [d EXCEPT !.parts = d.parts \cup {<<p, h>>}]
        BY <1>8 DEF Put
    <2>2. /\ e.parts = d.parts \cup {<<p, h>>} /\ e.listed = d.listed
          /\ e.count = d.count /\ e.forged = d.forged /\ e.turns = d.turns
        BY <2>1 DEF IsDisk
    <2>3. <<p, h>>[2] = h
        OBVIOUS
    <2> QED BY <1>8, <2>2, <2>3 DEF ListOf
<1> QED BY <1>1, <1>2, <1>3, <1>4, <1>5, <1>6, <1>7, <1>8

----------------------------------------------------------------------------
\* Who else has a block.
LEMMA AppliesHeight ==
    ASSUME Threading, NEW t \in Threads, place(t) \in Applying
    PROVE  job[t].height \in Heights \ {0} /\ job[t] # NoJob
<1>1. job[t].height \in Heights \ {0}
    BY DEF Threading, Jobs
<1> QED BY <1>1, HeightsAre DEF NoJob

\* Beside a thread that writes a block, others have only spoiled ones.
LEMMA ApplierSpoiled ==
    ASSUME Threading, Marked, Writing, NEW t \in Threads, place(t) \in {"executed", "committed"}
    PROVE  job[t].height \in Spoiled /\ (writer.height \in Spoiled)
<1>1. job[t] # NoJob
    BY AppliesHeight DEF Applying
<1>2. lock \in Threads
    BY <1>1, NoJobs DEF Threading, Locks, Writing
<1>3. place(lock) = "writing" /\ writer.height = job[lock].height /\ job[lock] # NoJob
    BY <1>2, AppliesHeight DEF Threading, Locks, Applying
<1>4. lock # t
    BY <1>3
<1>5. job[t].height \in overlapped /\ job[lock].height \in overlapped
    BY <1>1, <1>2, <1>3, <1>4 DEF Marked, Overlap, Threads
<1> QED BY <1>3, <1>5 DEF Spoiled

LEMMA DiskNumber ==
    ASSUME Threading
    PROVE  /\ disk.latest \in Heights \cup {None} /\ disk.latest \in Int /\ disk.latest >= -1
           /\ \A x \in Heights : (x \in Added <=> x <= disk.latest) /\ x \in Nat
<1>1. disk.latest \in Heights \/ disk.latest = None
    BY DEF Threading, Numbers
<1>2. \A x \in Heights : x \in Nat
    BY HeightsAre
<1>3. disk.latest \in Int /\ disk.latest >= -1
    BY ONLY <1>1, <1>2 DEF None
<1> QED BY <1>1, <1>2, <1>3 DEF Added

LEMMA UnderwayHeights ==
    ASSUME Threading
    PROVE  Underway \subseteq Heights
BY DEF Threading, Writers, Underway

----------------------------------------------------------------------------
\* Nothing is put on disk any more: what was being put is in full there, or spoiled.
LEMMA OnDiskEnds ==
    ASSUME Threading, OnDisk, disk' = disk, Spoiled \subseteq Spoiled', Underway' = {},
           \A x \in Underway : x \in Spoiled' \/ x = disk.latest
    PROVE  OnDisk'
<1>1. PICK R, S : S = Spoiled /\ R = Spoiled' /\ S \subseteq R
    OBVIOUS
<1>2. PICK W : W = Underway /\ W \subseteq Heights /\ \A x \in W : x \in R \/ x = disk.latest
    BY <1>1, UnderwayHeights
<1>3. PICK l \in Int : l = disk.latest /\ \A x \in Heights : x \in Added <=> x <= l
    BY DiskNumber
<1>4. ASSUME NEW times, NEW n, NEW m, NEW x \in Heights \ R
      PROVE  Upto(times, l, {}, m)[x] = Upto(times, l, W, n)[x]
    BY <1>2, <1>3, DiskNumber DEF Upto
<1>5. ASSUME NEW times, NEW x \in Heights \ R, NEW C \in {{}, W}
      PROVE  Of(times, Added \cup {})[x] = Of(times, Added \cup C)[x]
    BY <1>2, <1>3, DiskNumber DEF Of
<1>6. Added' = Added /\ disk'.latest = l
    BY <1>3 DEF Added
<1>7. StateExact'
    <2> SUFFICES ASSUME NEW k \in Keys PROVE Tally(disk.state[k], Of(StateTimes(k), Added \cup {}), R)
        BY <1>1, <1>6 DEF StateExact
    <2>1. PICK C \in {{}, W} : C = IF k \in writer.keys THEN {} ELSE Underway
        BY <1>2
    <2>2. Tally(disk.state[k], Of(StateTimes(k), Added \cup C), S)
        BY <1>1, <2>1 DEF OnDisk, StateExact
    <2>3. \A x \in Heights \ R : Of(StateTimes(k), Added \cup {})[x] = Of(StateTimes(k), Added \cup C)[x]
        BY <1>5
    <2> QED BY ONLY <1>1, <2>2, <2>3, TallySame
<1>8. ListExact'
    <2> SUFFICES ASSUME NEW k \in Keys, NEW m PROVE Tally(Listed(k), Upto(ListTimes(k), l, {}, m), R)
        BY <1>1, <1>6 DEF ListExact, Listed
    <2>1. PICK n : n = ListSoFar(k)
        OBVIOUS
    <2>2. Tally(Listed(k), Upto(ListTimes(k), l, W, n), S)
        BY <1>1, <1>2, <1>3, <2>1 DEF OnDisk, ListExact
    <2> QED BY <1>1, <1>4, <2>2, TallySame
<1>9. ForgedExact' /\ TurnsExact'
    <2> SUFFICES ASSUME NEW m
                 PROVE  /\ Tally(disk.forged, Upto(RewardTimes, l, {}, m), R)
                        /\ Tally(disk.turns, Upto(RewardTimes, l, {}, m), R)
        BY <1>1, <1>6 DEF ForgedExact, TurnsExact
    <2>1. PICK n1, n2 : n1 = One(Reached("forged")) /\ n2 = One(Reached("turn"))
        OBVIOUS
    <2>2. /\ Tally(disk.forged, Upto(RewardTimes, l, W, n1), S)
          /\ Tally(disk.turns, Upto(RewardTimes, l, W, n2), S)
        BY <1>1, <1>2, <1>3, <2>1 DEF OnDisk, ForgedExact, TurnsExact
    <2> QED BY <1>1, <1>4, <2>2, TallySame
<1>10. PartsExact'
    <2>1. \A e \in disk.parts : e[2] <= l \/ e[2] \in S \/ e[2] \in W
        BY <1>1, <1>2, <1>3 DEF OnDisk, PartsExact
    <2> QED BY <1>1, <1>2, <1>3, <2>1 DEF PartsExact
<1>11. ValidatorsExact'
    <2>1. disk.latest \in W /\ Due(disk.latest) => disk.latest = LastUpdate(disk.latest)
        BY <1>2, LastUpdateIs
    <2> QED BY <1>1, <1>2, <2>1 DEF OnDisk, ValidatorsExact
<1> QED BY <1>7, <1>8, <1>9, <1>10, <1>11 DEF OnDisk

\* The disk and its writer stay what they are, whatever else is spoiled.
LEMMA OnDiskStays ==
    ASSUME OnDisk, disk' = disk, Spoiled \subseteq Spoiled', Underway' = Underway, writer' = writer
    PROVE  OnDisk'
<1>1. PICK R, S : S = Spoiled /\ R = Spoiled' /\ S \subseteq R
    OBVIOUS
<1>2. ASSUME NEW v, NEW f, Tally(v, f, S) PROVE Tally(v, f, R)
    BY <1>1, <1>2, TallySame
<1>3. Added' = Added /\ disk'.latest = disk.latest
    BY DEF Added
<1>4. /\ \A k : ListSoFar(k)' = ListSoFar(k)
      /\ \A p : Reached(p)' = Reached(p)
    BY DEF ListSoFar, Reached
<1>5. StateExact'
    BY <1>1, <1>2, <1>3 DEF OnDisk, StateExact
<1>6. ListExact'
    BY <1>1, <1>2, <1>4 DEF OnDisk, ListExact, Listed
<1>7. ForgedExact' /\ TurnsExact'
    BY <1>1, <1>2, <1>4 DEF OnDisk, ForgedExact, TurnsExact
<1>8. PartsExact' /\ ValidatorsExact'
    BY <1>1 DEF OnDisk, PartsExact, ValidatorsExact
<1> QED BY <1>5, <1>6, <1>7, <1>8 DEF OnDisk

\* A block begins to be put on disk: nothing of it is there yet, and what it changes in the
\* states is among the keys that will be flushed.
LEMMA OnDiskBegins ==
    ASSUME Threading, OnDisk, disk' = disk, Spoiled' = Spoiled, Underway = {},
           NEW h \in Heights, Underway' = {h}, writer'.height = h, writer'.next = 1,
           h \notin Spoiled => h > disk.latest /\ \A k \in Keys \ writer'.keys : k \notin Touches(h)
    PROVE  OnDisk'
<1>1. PICK S : S = Spoiled /\ S = Spoiled'
    OBVIOUS
<1>2. PICK l \in Int : l = disk.latest /\ l = disk'.latest /\ \A x \in Heights : x \in Added <=> x <= l
    BY DiskNumber
<1>3. Added' = Added
    BY DEF Added
<1>4. ASSUME NEW p PROVE ~Reached(p)'
    BY DEF Reached
<1>5. ASSUME NEW times, NEW n, NEW x \in Heights \ S
      PROVE  Upto(times, l, {h}, 0)[x] = Upto(times, l, {}, n)[x]
    BY DEF Upto
<1>6. One(FALSE) = 0 /\ 0 + 0 = 0
    BY DEF One
<1>7. StateExact'
    <2> SUFFICES ASSUME NEW k \in Keys
                 PROVE  Tally(disk.state[k], Of(StateTimes(k),
                              Added \cup (IF k \in writer'.keys THEN {} ELSE {h})), S)
        BY <1>1, <1>3 DEF StateExact
    <2>1. PICK C : C = IF k \in writer'.keys THEN {} ELSE {h}
        OBVIOUS
    <2>2. Tally(disk.state[k], Of(StateTimes(k), Added \cup {}), S)
        BY <1>1 DEF OnDisk, StateExact
    <2>3. ASSUME NEW x \in Heights \ S
          PROVE  Of(StateTimes(k), Added \cup C)[x] = Of(StateTimes(k), Added \cup {})[x]
        <3>1. CASE x # h \/ C = {}
            BY <2>1, <3>1 DEF Of
        <3>2. CASE x = h /\ C = {h}
            <4>1. h \notin S /\ k \notin writer'.keys
                BY <2>1, <3>2
            <4>2. k \notin Touches(h)
                BY <1>1, <4>1
            <4>3. StateTimes(k)[h] = 0
                BY <1>6, <4>2 DEF StateTimes, One
            <4> QED BY <3>2, <4>3 DEF Of
        <3> QED BY <2>1, <3>1, <3>2
    <2> QED BY <2>1, <2>2, <2>3, TallySame
<1>8. ListExact'
    <2>3. ASSUME NEW k \in Keys PROVE ListSoFar(k)' = 0
        BY <1>4 DEF ListSoFar, One
    <2> SUFFICES ASSUME NEW k \in Keys PROVE Tally(Listed(k), Upto(ListTimes(k), l, {h}, 0), S)
        BY <1>1, <1>2, <2>3 DEF ListExact, Listed
    <2>1. PICK n : n = ListSoFar(k)
        OBVIOUS
    <2>2. Tally(Listed(k), Upto(ListTimes(k), l, {}, n), S)
        BY <1>1, <1>2, <2>1 DEF OnDisk, ListExact
    <2> QED BY <1>5, <2>2, TallySame
<1>9. ForgedExact' /\ TurnsExact'
    <2> SUFFICES /\ Tally(disk.forged, Upto(RewardTimes, l, {h}, 0), S)
                 /\ Tally(disk.turns, Upto(RewardTimes, l, {h}, 0), S)
        BY <1>1, <1>2, <1>4 DEF ForgedExact, TurnsExact, One
    <2>1. PICK n1, n2 : n1 = One(Reached("forged")) /\ n2 = One(Reached("turn"))
        OBVIOUS
    <2>2. /\ Tally(disk.forged, Upto(RewardTimes, l, {}, n1), S)
          /\ Tally(disk.turns, Upto(RewardTimes, l, {}, n2), S)
        BY <1>1, <1>2, <2>1 DEF OnDisk, ForgedExact, TurnsExact
    <2> QED BY <1>5, <2>2, TallySame
<1>10. PartsExact' /\ ValidatorsExact'
    BY <1>1 DEF OnDisk, PartsExact, ValidatorsExact
<1> QED BY <1>7, <1>8, <1>9, <1>10 DEF OnDisk

----------------------------------------------------------------------------
\* The steps, as far as the exact values are concerned.
InMemory == open => UpdatesExact /\ OverlaysExact /\ NextInLine

\* The updates stay exact as long as those ahead of the disk do, spoiled ones aside.
LEMMA UpdatesStay ==
    ASSUME UpdatesExact, updates' \in {updates, NoUpdates}, Spoiled \subseteq Spoiled',
           \A x \in Heights \ Spoiled' : x \in Added \cup Ahead <=> x \in Added' \cup Ahead'
    PROVE  UpdatesExact'
<1>1. PICK R, S : S = Spoiled /\ R = Spoiled' /\ S \subseteq R
    OBVIOUS
<1>2a. PICK G, H : G = Added \cup Ahead /\ H = Added' \cup Ahead'
    OBVIOUS
<1>2. /\ G = Added \cup Ahead /\ H = Added' \cup Ahead'
      /\ \A x \in Heights \ R : x \in G <=> x \in H
    BY <1>1, <1>2a
<1>3. DOMAIN NoUpdates = {}
    BY DEF NoUpdates
<1> SUFFICES ASSUME NEW k \in DOMAIN updates PROVE Tally(updates[k], Of(StateTimes(k), H), R)
    BY <1>1, <1>2, <1>3 DEF UpdatesExact
<1>4. Tally(updates[k], Of(StateTimes(k), G), S)
    BY <1>1, <1>2 DEF UpdatesExact
<1>5. \A x \in Heights \ R : Of(StateTimes(k), H)[x] = Of(StateTimes(k), G)[x]
    BY <1>2 DEF Of
<1> QED BY ONLY <1>1, <1>4, <1>5, TallySame

\* The overlays of threads that stay where they are.
LEMMA OverlaysStay ==
    ASSUME OverlaysExact, Spoiled \subseteq Spoiled', NEW t \in Threads,
           place(t) = "executed", \A x \in Heights \ Spoiled' : x \in Added <=> x \in Added',
           NEW k \in DOMAIN job[t].overlay
    PROVE  Tally(job[t].overlay[k], Of(StateTimes(k), Added' \cup {job[t].height}), Spoiled')
<1>1. PICK R, S : S = Spoiled /\ R = Spoiled' /\ S \subseteq R
    OBVIOUS
<1>2a. PICK G, H, j : /\ G = Added \cup {j} /\ H = Added' \cup {j} /\ j = job[t].height
    OBVIOUS
<1>2b. \A x \in Heights \ R : x \in G <=> x \in H
    BY <1>1, <1>2a
<1>2. /\ G = Added \cup {job[t].height} /\ H = Added' \cup {job[t].height}
      /\ \A x \in Heights \ R : x \in G <=> x \in H
    BY <1>2a, <1>2b
<1>3. Tally(job[t].overlay[k], Of(StateTimes(k), G), S)
    BY <1>1, <1>2 DEF OverlaysExact
<1>4. \A x \in Heights \ R : Of(StateTimes(k), H)[x] = Of(StateTimes(k), G)[x]
    BY <1>2 DEF Of
<1>5. Tally(job[t].overlay[k], Of(StateTimes(k), H), R)
    BY ONLY <1>1, <1>3, <1>4, TallySame
<1> QED BY <1>1, <1>2, <1>5

LEMMA SoundQuiet ==
    ASSUME Threading, Sound, Quiet, (open' <=> open) \/ (~open' /\ ~Writing)
    PROVE  OnDisk' /\ InMemory'
<1>1. /\ disk' = disk /\ updates' = updates /\ writer' = writer /\ torn' = torn
      /\ job' = job /\ overlapped' = overlapped
    BY DEF Quiet, commit
<1>2. Spoiled' = Spoiled /\ Writing' = Writing
    BY <1>1 DEF Spoiled, Writing
<1>3. Underway' = Underway
    BY <1>1, <1>2 DEF Underway
<1>4. OnDisk'
    BY <1>1, <1>2, <1>3, OnDiskStays DEF Sound
<1>5. \A t \in Threads : \A a \in Applying : place(t)' = a <=> place(t) = a
    BY DEF Quiet
<1>6. Ahead' = Ahead
    BY <1>1, <1>2, <1>5 DEF Ahead, Applying
<1>8. Added' = Added
    BY <1>1 DEF Added
<1>7. ASSUME open' PROVE UpdatesExact' /\ OverlaysExact' /\ NextInLine'
    <2>1. UpdatesExact /\ OverlaysExact /\ NextInLine
        BY <1>7 DEF Sound
    <2>2. UpdatesExact'
        BY <1>1, <1>2, <1>6, <1>8, <2>1, UpdatesStay
    <2>3. OverlaysExact'
        BY <1>1, <1>2, <1>5, <1>8, <2>1 DEF OverlaysExact, Applying
    <2>4. NextInLine'
        BY <1>1, <1>2, <1>5, <2>1 DEF NextInLine, Applying
    <2> QED BY <2>2, <2>3, <2>4
<1> QED BY <1>4, <1>7 DEF InMemory

\* What a thread commits was spoiled or is the next block, which nobody else has.
LEMMA SoundCommit ==
    ASSUME Threading, Durable, Sound, NEW t \in Threads, CommitOverlay(t)
    PROVE  OnDisk' /\ InMemory'
<1>1. /\ disk' = disk /\ writer' = writer /\ torn' = torn /\ job' = job /\ overlapped' = overlapped
      /\ DOMAIN updates' = DOMAIN job[t].overlay \cup DOMAIN updates
      /\ \A k \in DOMAIN updates' : updates'[k] = IF k \in DOMAIN job[t].overlay
                                                THEN job[t].overlay[k] ELSE updates[k]
    BY MergeEffect
<1>2. /\ place(t) = "executed" /\ place(t)' = "committed" /\ open' = open
      /\ \A x \in Threads : x # t => place(x)' = place(x)
    BY DEF CommitOverlay, ApplyFrame, MoveTo, place, Threads
<1>3. Spoiled' = Spoiled /\ Writing' = Writing /\ Added' = Added
    BY <1>1 DEF Spoiled, Writing, Added
<1>4. Underway' = Underway
    BY <1>1, <1>2, <1>3 DEF Underway
<1>5. OnDisk'
    BY <1>1, <1>3, <1>4, OnDiskStays DEF Sound
<1>6. PICK j \in Heights : j = job[t].height /\ job[t] # NoJob /\ DOMAIN job[t].overlay = Touches(j)
    BY <1>2, AppliesHeight DEF Durable, Overlaid, Applying
<1>7. ASSUME NEW x \in Heights \ Spoiled PROVE x \notin Ahead /\ (x \in Ahead' <=> x = j)
    <2>1. ~(Writing /\ x = writer.height)
        BY <1>2, ApplierSpoiled DEF Durable
    <2>2. ASSUME NEW y \in Threads, y # t, place(y) = "committed" PROVE job[y].height # x
        <3>1. job[y] # NoJob
            BY <2>2, AppliesHeight DEF Applying
        <3>2. job[y].height \in overlapped
            BY <1>6, <2>2, <3>1 DEF Durable, Marked, Overlap, Threads
        <3> QED BY <3>2 DEF Spoiled
    <2> QED BY <1>1, <1>2, <1>3, <1>6, <2>1, <2>2 DEF Ahead
<1>8. ASSUME open' PROVE UpdatesExact'
    <2>1. UpdatesExact /\ OverlaysExact
        BY <1>2, <1>8 DEF Sound
    <2>2. PICK S : S = Spoiled /\ S = Spoiled'
        BY <1>3
    <2>3. PICK H : H = Added' \cup Ahead' /\ \A x \in Heights \ S : x \in H <=> x \in Added \cup {j}
        <3>1. PICK G : G = Ahead' /\ \A x \in Heights \ S : x \in G <=> x = j
            BY <1>7, <2>2
        <3>2. \A x \in Heights \ S : x \in Added \cup G <=> x \in Added \cup {j}
            BY ONLY <3>1
        <3> QED BY ONLY <1>3, <3>1, <3>2
    <2> SUFFICES ASSUME NEW k \in DOMAIN updates' PROVE Tally(updates'[k], Of(StateTimes(k), H), S)
        BY <2>2, <2>3 DEF UpdatesExact
    <2>4. CASE k \in Touches(j)
        <3>1. Tally(job[t].overlay[k], Of(StateTimes(k), Added \cup {j}), S)
            BY <1>2, <1>6, <2>1, <2>2, <2>4 DEF OverlaysExact
        <3>2. \A x \in Heights \ S : Of(StateTimes(k), H)[x] = Of(StateTimes(k), Added \cup {j})[x]
            BY <2>3 DEF Of
        <3>3. Tally(job[t].overlay[k], Of(StateTimes(k), H), S)
            BY ONLY <3>1, <3>2, TallySame
        <3> QED BY <1>1, <1>6, <2>4, <3>3
    <2>5. CASE k \notin Touches(j)
        <3>1. k \in DOMAIN updates /\ updates'[k] = updates[k]
            BY <1>1, <1>6, <2>5
        <3>2. PICK G : G = Added \cup Ahead /\ \A x \in Heights \ S : x \in G <=> x \in Added
            BY <1>7, <2>2
        <3>3. Tally(updates[k], Of(StateTimes(k), G), S)
            BY <2>1, <2>2, <3>1, <3>2 DEF UpdatesExact
        <3>4. StateTimes(k)[j] = 0
            BY <2>5 DEF StateTimes, One
        <3>5. \A x \in Heights \ S : Of(StateTimes(k), H)[x] = Of(StateTimes(k), G)[x]
            BY <2>3, <3>2, <3>4 DEF Of
        <3>6. Tally(updates[k], Of(StateTimes(k), H), S)
            BY ONLY <3>3, <3>5, TallySame
        <3> QED BY <3>1, <3>6
    <2> QED BY <2>4, <2>5
<1>9. ASSUME open' PROVE OverlaysExact'
    <2>1. OverlaysExact
        BY <1>2, <1>9 DEF Sound
    <2> QED BY <1>1, <1>2, <1>3, <2>1 DEF OverlaysExact
<1>10. ASSUME open' PROVE NextInLine'
    <2>1. NextInLine
        BY <1>2, <1>10 DEF Sound
    <2> QED BY <1>1, <1>2, <1>3, <2>1 DEF NextInLine
<1> QED BY <1>5, <1>8, <1>9, <1>10 DEF InMemory

LEMMA SoundTake ==
    ASSUME Threading, Durable, Sound, NEW t \in Threads, TakeLock(t)
    PROVE  OnDisk' /\ InMemory'
<1>1. /\ disk' = disk /\ updates' = updates /\ torn' = torn /\ job' = job
      /\ overlapped' = overlapped /\ lock = Nobody
      /\ writer' = [height |-> job[t].height, keys |-> DOMAIN updates, next |-> 1]
    BY DEF TakeLock, BeginWriting, ApplyFrame
<1>2. /\ place(t) = "committed" /\ place(t)' = "writing" /\ open' = open
      /\ \A x \in Threads : x # t => place(x)' = place(x)
    BY DEF TakeLock, ApplyFrame, MoveTo, place, Threads
<1>3. ~Writing /\ Spoiled' = Spoiled /\ Added' = Added /\ Underway = {}
    BY <1>1 DEF Threading, Locks, Writing, Spoiled, Added, Underway
<1>4. PICK j \in Heights : j = job[t].height
    BY <1>2, AppliesHeight DEF Applying
<1>5. writer'.height = j /\ writer'.keys = DOMAIN updates /\ writer'.next = 1 /\ Writing'
    BY <1>1, <1>4, HeightsAre, NoWriterHeight DEF Writing
<1>6. OnDisk'
    <2>1. CASE ~open'
        <3>1. Underway' = {}
            BY <2>1 DEF Underway
        <3> QED BY <1>1, <1>3, <3>1, OnDiskEnds DEF Sound
    <2>2. CASE open'
        <3>1. Underway' = {j}
            BY <1>5, <2>2 DEF Underway
        <3>2. ASSUME j \notin Spoiled
              PROVE  j > disk.latest /\ \A k \in Keys \ writer'.keys : k \notin Touches(j)
            <4>1. j = disk.latest + 1
                BY <1>2, <1>4, <2>2, <3>2 DEF Sound, NextInLine
            <4>2. Touches(j) \subseteq DOMAIN updates
                BY <1>2, <1>4, <3>2 DEF Durable, Committed, Spoiled
            <4> QED BY <1>5, <4>1, <4>2, DiskNumber
        <3> QED BY <1>1, <1>3, <1>5, <3>1, <3>2, OnDiskBegins DEF Sound
    <2> QED BY <2>1, <2>2
<1>7. Ahead' = Ahead
    BY <1>1, <1>2, <1>3, <1>4, <1>5 DEF Ahead
<1>8. ASSUME open' PROVE UpdatesExact' /\ OverlaysExact' /\ NextInLine'
    <2>1. UpdatesExact /\ OverlaysExact /\ NextInLine
        BY <1>2, <1>8 DEF Sound
    <2>2. UpdatesExact'
        BY <1>1, <1>3, <1>7, <2>1, UpdatesStay
    <2>3. OverlaysExact'
        BY <1>1, <1>2, <1>3, <2>1 DEF OverlaysExact
    <2>4. NextInLine'
        BY <1>1, <1>2, <1>3, <1>4, <1>5, <2>1 DEF NextInLine
    <2> QED BY <2>2, <2>3, <2>4
<1> QED BY <1>6, <1>8 DEF InMemory

\* A block that was written is the latest one, or spoiled if addBlock threw.
LEMMA WrittenIs ==
    ASSUME Threading, Sound, open, Writing, Written
    PROVE  writer.height \in Spoiled \/ writer.height = disk.latest
<1>1. kernel # "down" /\ latestBlock = disk.latest
    BY DEF Sound, Opened, Threading, Numbers
<1>2. CASE writer.next > Len(Puts(writer.height))
    BY <1>1, <1>2 DEF Threading, Writers
<1>3. CASE writer.next = 1 /\ ~Addable(writer.height)
    BY <1>1, <1>3 DEF Addable, Sound, NextInLine
<1> QED BY <1>2, <1>3 DEF Written

LEMMA SoundLeave ==
    ASSUME Threading, Sound, NEW t \in Threads, ReleaseLock(t) \/ (t = "sync" /\ WriteFails)
    PROVE  OnDisk' /\ InMemory'
<1>1. /\ disk' = disk /\ updates' = updates /\ torn' = torn /\ overlapped' = overlapped
      /\ writer' = NoWriter /\ lock = t
      /\ \A x \in Threads : x # t => job'[x] = job[x]
    BY LeaveEffect
<1>2. /\ place(t)' \notin Applying /\ open' = open
      /\ \A x \in Threads : x # t => place(x)' = place(x)
    BY DEF ReleaseLock, WriteFails, ApplyFrame, MoveTo, place, Threads, Idle, Applying
<1>3. /\ Writing /\ ~Writing' /\ Spoiled' = Spoiled /\ Added' = Added /\ Underway' = {}
      /\ writer.height \in Heights
    <2>1. t # Nobody
        BY NodeAssumption
    <2> QED BY <1>1, <2>1 DEF Threading, Locks, Writers, Writing, Spoiled, Added, Underway
<1>4. open => writer.height \in Spoiled \/ writer.height = disk.latest
    BY <1>3, WrittenIs DEF ReleaseLock, EndWriting, WriteFails
<1>5. OnDisk'
    <2>1. \A x \in Underway : x \in Spoiled' \/ x = disk.latest
        BY <1>3, <1>4 DEF Underway
    <2> QED BY <1>1, <1>3, <2>1, OnDiskEnds DEF Sound
<1>6. place(t) = "writing"
    BY <1>1 DEF Threading, Locks
<1>7. ASSUME open' PROVE UpdatesExact' /\ OverlaysExact' /\ NextInLine'
    <2>1. UpdatesExact /\ OverlaysExact /\ NextInLine
        BY <1>2, <1>7 DEF Sound
    <2>2. \A x \in Heights : x \in Ahead <=> x \in Ahead' \/ x = writer.height
        BY <1>1, <1>2, <1>3, <1>6 DEF Ahead, Applying
    <2>3. \A x \in Heights \ Spoiled' : x \in Added \cup Ahead <=> x \in Added' \cup Ahead'
        BY <1>2, <1>3, <1>4, <1>7, <2>2, DiskNumber
    <2>4. UpdatesExact'
        BY <1>1, <1>3, <2>1, <2>3, UpdatesStay
    <2>5. OverlaysExact'
        BY <1>1, <1>2, <1>3, <2>1 DEF OverlaysExact, Applying
    <2>6. NextInLine'
        BY <1>1, <1>2, <1>3, <2>1 DEF NextInLine, Applying
    <2> QED BY <2>4, <2>5, <2>6
<1> QED BY <1>5, <1>7 DEF InMemory

LEMMA SoundGenesis ==
    ASSUME Threading, Sound, GenesisAdded
    PROVE  OnDisk' /\ InMemory'
<1>1. /\ disk' = disk /\ updates' = updates /\ torn' = torn /\ overlapped' = overlapped
      /\ writer' = NoWriter /\ Written /\ kernel = "opening" /\ open' = open
      /\ job' = job /\ cons' = "new" /\ task' = task
    BY DEF GenesisAdded, EndWriting, sync
<1>2. lock = "kernel" /\ \A x \in Threads : place(x) \notin Applying /\ place(x)' \notin Applying
    BY <1>1, NoJobs DEF Threading, Locks, place, Threads, Applying
<1>3. /\ Writing /\ ~Writing' /\ Spoiled' = Spoiled /\ Added' = Added /\ Underway' = {}
      /\ writer.height \in Heights
    BY <1>1, <1>2, NodeAssumption
    DEF Threading, Locks, Writers, Writing, Spoiled, Added, Underway
<1>4. open => writer.height \in Spoiled \/ writer.height = disk.latest
    BY <1>1, <1>3, WrittenIs
<1>5. OnDisk'
    <2>1. \A x \in Underway : x \in Spoiled' \/ x = disk.latest
        BY <1>3, <1>4 DEF Underway
    <2> QED BY <1>1, <1>3, <2>1, OnDiskEnds DEF Sound
<1>6. ASSUME open' PROVE UpdatesExact' /\ OverlaysExact' /\ NextInLine'
    <2>1. UpdatesExact
        BY <1>1, <1>6 DEF Sound
    <2>2. \A x \in Heights : (x \in Ahead <=> x = writer.height) /\ x \notin Ahead'
        BY <1>2, <1>3 DEF Ahead, Applying
    <2>3. \A x \in Heights \ Spoiled' : x \in Added \cup Ahead <=> x \in Added' \cup Ahead'
        BY <1>1, <1>3, <1>4, <1>6, <2>2, DiskNumber
    <2>4. UpdatesExact'
        BY <1>1, <1>3, <2>1, <2>3, UpdatesStay
    <2>5. OverlaysExact' /\ NextInLine'
        BY <1>2, <1>3 DEF OverlaysExact, NextInLine, Applying
    <2> QED BY <2>4, <2>5
<1> QED BY <1>5, <1>6 DEF InMemory

LEMMA SoundExit ==
    ASSUME Threading, Sound, Exit
    PROVE  OnDisk' /\ InMemory'
<1>1. /\ disk' = disk /\ overlapped' = overlapped /\ open' = FALSE
      /\ torn' = IF Writing THEN torn \cup {writer.height} ELSE torn
    BY DEF Exit, Die
<1>2. Spoiled \subseteq Spoiled' /\ Underway' = {} /\ \A x \in Underway : x \in Spoiled'
    BY <1>1 DEF Spoiled, Underway
<1>3. OnDisk'
    BY <1>1, <1>2, OnDiskEnds DEF Sound
<1> QED BY <1>1, <1>3 DEF InMemory

\* The block that is executed on what a thread reads.
LEMMA ExecutedTally ==
    ASSUME NEW h \in Heights, h > disk.latest, Threading, NEW k \in Touches(h), NEW R,
           Tally(Read(k), Of(StateTimes(k), Added), R)
    PROVE  Tally(Append(Read(k), h), Of(StateTimes(k), Added \cup {h}), R)
<1>1. k \in Keys /\ Read(k) \in Seq(Heights)
    BY Reads, CommitAssumption DEF Threading
<1>2. StateTimes(k)[h] = 1
    BY DEF StateTimes, One
<1>3. h \notin Added
    BY DiskNumber
<1>4. ASSUME NEW x \in Heights \ R
      PROVE  Of(StateTimes(k), Added \cup {h})[x] = Of(StateTimes(k), Added)[x] + One(x = h)
    <2>1. CASE x = h
        BY <1>2, <1>3, <2>1 DEF Of, One
    <2>2. CASE x # h
        <3>1. StateTimes(k)[x] \in Int
            BY DEF StateTimes, One
        <3> QED BY <2>2, <3>1 DEF Of, One
    <2> QED BY <2>1, <2>2
<1>5. \A x \in Heights \ R : x > h => Of(StateTimes(k), Added)[x] = 0
    BY DiskNumber DEF Of
<1>6a. PICK v \in Seq(Heights) : v = Read(k)
    BY <1>1
<1>6b. PICK f, g : f = Of(StateTimes(k), Added) /\ g = Of(StateTimes(k), Added \cup {h})
    OBVIOUS
<1>6. v = Read(k) /\ f = Of(StateTimes(k), Added) /\ g = Of(StateTimes(k), Added \cup {h})
    BY <1>6a, <1>6b
<1>7. /\ Tally(v, f, R)
      /\ \A x \in Heights \ R : g[x] = f[x] + One(x = h)
      /\ \A x \in Heights \ R : x > h => f[x] = 0
    BY <1>4, <1>5, <1>6
<1>8. Tally(Append(v, h), g, R)
    BY ONLY <1>7, TallyAppend, v \in Seq(Heights), h \in Heights
<1> QED BY <1>6, <1>8

LEMMA SoundBoot ==
    ASSUME Threading, Sound, Boot
    PROVE  OnDisk' /\ InMemory'
<1>1. /\ kernel = "down" /\ OpenDb /\ job' = job /\ overlapped' = overlapped
      /\ task' = task /\ cons' \in {cons, "new"}
    BY DEF Boot, sync
<1>2. /\ \A x \in Threads : place(x) \notin Applying
      /\ lock = Nobody /\ updates = NoUpdates /\ ~open /\ ~Writing /\ Underway = {}
    BY <1>1, NoJobs, NodeAssumption
    DEF Threading, Alone, Locks, Numbers, place, Threads, Applying, Sound, Opened, Writing,
        Underway
<1>3. disk' = disk /\ torn' = torn /\ Spoiled' = Spoiled /\ Added' = Added
    BY <1>1 DEF OpenDb, Spoiled, Added
<1>4. \A x \in Threads : place(x)' \notin Applying
    BY <1>1, <1>2 DEF place, Threads, Applying
<1>5. OverlaysExact'
    BY <1>4 DEF OverlaysExact, Applying
<1>6. CASE disk.latest = None
    <2>1. updates' = Overlay(0) /\ writer' = [height |-> 0, keys |-> Touches(0), next |-> 1] /\ open'
        BY <1>1, <1>6 DEF Boot, OpenDb
    <2>2. /\ writer'.height = 0 /\ writer'.keys = Touches(0) /\ writer'.next = 1 /\ Writing'
          /\ 0 \in Heights
        BY <2>1, HeightsAre, NoWriterHeight DEF Writing
    <2>3. Underway' = {0} /\ Ahead' = {0}
        BY <1>4, <2>1, <2>2 DEF Underway, Ahead, Applying
    <2>4. 0 > disk.latest
        BY <1>6 DEF None
    <2>5. OnDisk'
        BY <1>2, <1>3, <2>2, <2>3, <2>4, OnDiskBegins DEF Sound
    <2>6. UpdatesExact'
        <3>1. DOMAIN Overlay(0) = Touches(0) /\ \A k \in Touches(0) : Overlay(0)[k] = Append(Read(k), 0)
            BY <2>2, OverlayIs DEF Threading
        <3> SUFFICES ASSUME NEW k \in Touches(0)
                     PROVE  Tally(Append(Read(k), 0), Of(StateTimes(k), Added \cup {0}), Spoiled)
            BY <1>3, <2>1, <2>3, <3>1 DEF UpdatesExact
        <3>2. k \in Keys /\ Read(k) = disk.state[k]
            BY <1>2, <2>2, CommitAssumption DEF Read, NoUpdates
        <3>3. Added \cup (IF k \in writer.keys THEN {} ELSE Underway) = Added
            BY <1>2
        <3>4. Tally(Read(k), Of(StateTimes(k), Added), Spoiled)
            BY <3>2, <3>3 DEF Sound, OnDisk, StateExact
        <3> QED BY <2>2, <2>4, <3>4, ExecutedTally
    <2>7. NextInLine'
        BY <1>3, <1>4, <1>6, <2>2 DEF NextInLine, Applying, None
    <2> QED BY <1>5, <2>5, <2>6, <2>7 DEF InMemory
<1>7. CASE disk.latest # None
    <2>1. updates' = updates /\ writer' = writer
        BY <1>1, <1>7 DEF Boot, OpenDb
    <2>2. ~Writing' /\ Underway' = {}
        BY <1>2, <2>1 DEF Writing, Underway
    <2>3. OnDisk'
        BY <1>2, <1>3, <2>2, OnDiskEnds DEF Sound
    <2>4. UpdatesExact'
        BY <1>2, <2>1 DEF UpdatesExact, NoUpdates
    <2>5. NextInLine'
        BY <1>4, <2>2 DEF NextInLine, Applying
    <2> QED BY <1>5, <2>3, <2>4, <2>5 DEF InMemory
<1> QED BY <1>6, <1>7

\* Who executes a block beside another one spoils both.
LEMMA SoundExecute ==
    ASSUME Threading, Sound, NEW t \in Threads, Executes(t), kernel \notin {"down", "opening"},
           open' = open
    PROVE  OnDisk' /\ InMemory'
<1>1. PICK h \in Heights \ {0} :
        /\ h = latestBlock + 1
        /\ disk' = disk /\ updates' = updates /\ writer' = writer /\ torn' = torn
        /\ job'[t] = [height |-> h, overlay |-> Overlay(h)]
        /\ \A x \in Threads : x # t => job'[x] = job[x]
        /\ overlapped' = IF job[Other(t)] = NoJob THEN overlapped
                         ELSE overlapped \cup {h, job[Other(t)].height}
    BY ExecuteEffect
<1>2. /\ place(t) \notin Applying /\ place(t)' = "executed"
      /\ \A x \in Threads : x # t => place(x)' = place(x)
    BY DEF Executes, MoveTo, place, Threads
<1>3. PICK R, S : S = Spoiled /\ R = Spoiled' /\ S \subseteq R
    <2>1. overlapped \subseteq overlapped' /\ torn' = torn
        BY <1>1
    <2>2. Spoiled \subseteq Spoiled'
        BY <2>1 DEF Spoiled
    <2> QED BY <2>2
<1>4. h = disk.latest + 1 /\ h > disk.latest
    BY <1>1, DiskNumber DEF Threading, Numbers
<1>5. ASSUME NEW y \in Threads, place(y) \in Applying PROVE job[y].height \in R
    <2>1. job[y] # NoJob /\ y = Other(t)
        BY <1>2, <1>5, AppliesHeight DEF Threads, Other
    <2> QED BY <1>1, <1>3, <2>1 DEF Spoiled
<1>6. Writing => writer.height \in R
    <2> SUFFICES ASSUME Writing PROVE writer.height \in R
        OBVIOUS
    <2>1. lock \in Threads /\ place(lock) = "writing" /\ writer.height = job[lock].height
        BY DEF Threading, Locks, Writing
    <2> QED BY <1>5, <2>1 DEF Applying
<1>7. /\ \A x \in Heights \ R : x \notin Ahead
      /\ \A x \in Underway : x \in R
    BY <1>5, <1>6 DEF Ahead, Applying, Underway
<1>8. Underway' = Underway /\ Writing' = Writing /\ Added' = Added
    BY <1>1 DEF Underway, Writing, Added
<1>9. OnDisk'
    BY <1>1, <1>3, <1>8, OnDiskStays DEF Sound
<1>10. ASSUME open' PROVE UpdatesExact'
    <2>1. UpdatesExact
        BY <1>10 DEF Sound
    <2>2. Ahead' \subseteq Ahead
        BY <1>1, <1>2, <1>8 DEF Ahead
    <2> QED BY <1>1, <1>3, <1>7, <1>8, <2>1, <2>2, UpdatesStay
<1>11. job'[t].height = h /\ job'[t].overlay = Overlay(h)
    BY <1>1
<1>12. ASSUME open' PROVE OverlaysExact'
    <2>1. UpdatesExact /\ OverlaysExact /\ StateExact
        BY <1>12 DEF Sound, OnDisk
    <2>2. ASSUME NEW k \in Touches(h)
          PROVE  Tally(Overlay(h)[k], Of(StateTimes(k), Added \cup {h}), R)
        <3>1. k \in Keys /\ Overlay(h)[k] = Append(Read(k), h)
            BY OverlayIs, CommitAssumption DEF Threading
        <3>2. PICK G : /\ \A x \in Heights \ R : x \in G <=> x \in Added
                       /\ Tally(Read(k), Of(StateTimes(k), G), S)
            <4>1. CASE k \in DOMAIN updates
                <5>1. Tally(updates[k], Of(StateTimes(k), Added \cup Ahead), S)
                    BY <1>3, <2>1, <4>1 DEF UpdatesExact
                <5>2. \A x \in Heights \ R : x \in Added \cup Ahead <=> x \in Added
                    BY <1>7
                <5> QED BY <4>1, <5>1, <5>2 DEF Read
            <4>2. CASE k \notin DOMAIN updates
                <5>1. PICK C : C = (IF k \in writer.keys THEN {} ELSE Underway)
                    OBVIOUS
                <5>2. Tally(disk.state[k], Of(StateTimes(k), Added \cup C), S)
                    BY <1>3, <2>1, <3>1, <5>1 DEF StateExact
                <5>3. \A x \in Heights \ R : x \in Added \cup C <=> x \in Added
                    BY <1>7, <5>1
                <5> QED BY <4>2, <5>2, <5>3 DEF Read
            <4> QED BY <4>1, <4>2
        <3>3. \A x \in Heights \ R : Of(StateTimes(k), Added)[x] = Of(StateTimes(k), G)[x]
            BY <3>2 DEF Of
        <3>4. Tally(Read(k), Of(StateTimes(k), Added), R)
            BY ONLY <1>3, <3>2, <3>3, TallySame
        <3> QED BY <1>4, <3>1, <3>4, ExecutedTally
    <2> SUFFICES ASSUME NEW x \in Threads, place(x)' = "executed", NEW k \in DOMAIN job'[x].overlay
                 PROVE  Tally(job'[x].overlay[k], Of(StateTimes(k), Added \cup {job'[x].height}), R)
        BY <1>3, <1>8 DEF OverlaysExact
    <2>3. CASE x = t
        BY <1>11, <2>2, <2>3, OverlayIs DEF Threading
    <2>4. CASE x # t
        <3>1. place(x) = "executed" /\ job'[x] = job[x]
            BY <1>1, <1>2, <2>4
        <3> QED BY <1>3, <1>8, <2>1, <3>1, OverlaysStay
    <2> QED BY <2>3, <2>4
<1>13. ASSUME open' PROVE NextInLine'
    <2>1. NextInLine
        BY <1>13 DEF Sound
    <2>2. ASSUME NEW x \in Threads, place(x)' \in {"executed", "committed"}, job'[x].height \notin R
          PROVE  job'[x].height = disk.latest + 1
        <3>1. CASE x = t
            BY <1>4, <1>11, <3>1
        <3>2. CASE x # t
            BY <1>1, <1>2, <1>3, <2>1, <2>2, <3>2 DEF NextInLine
        <3> QED BY <3>1, <3>2
    <2>3. Writing /\ writer.next = 1 /\ writer.height \notin R => writer.height = disk.latest + 1
        BY <1>3, <2>1 DEF NextInLine
    <2> QED BY <1>1, <1>3, <1>8, <2>2, <2>3 DEF NextInLine
<1> QED BY <1>9, <1>10, <1>12, <1>13 DEF InMemory

LEMMA SoundFlush ==
    ASSUME Threading, Durable, Sound, Write, Flush
    PROVE  OnDisk' /\ InMemory'
<1>1. PICK k \in writer.keys :
        /\ k \in Keys \cap DOMAIN updates
        /\ disk'.state[k] = updates[k]
        /\ \A j \in Keys : j # k => disk'.state[j] = disk.state[j]
        /\ disk'.parts = disk.parts /\ disk'.listed = disk.listed
        /\ disk'.count = disk.count /\ disk'.forged = disk.forged
        /\ disk'.turns = disk.turns /\ disk'.validators = disk.validators
        /\ disk'.latest = disk.latest
        /\ writer'.height = writer.height /\ writer'.keys = writer.keys \ {k}
        /\ writer'.next = writer.next
        /\ updates' = IF writer.keys = {k} THEN NoUpdates ELSE updates
        /\ UNCHANGED <<torn, job, overlapped>>
    BY FlushEffect
<1>2. /\ open /\ open' = open /\ lock # Nobody
      /\ \A x \in Threads : place(x)' = place(x)
    BY DEF Write, ApplyFrame, place
<1>3. PICK h \in Heights : h = writer.height /\ Writing /\ Writing'
    BY <1>1, <1>2, HeightsAre, NoWriterHeight DEF Threading, Locks, Writers, Writing
<1>4. Underway = {h} /\ Underway' = {h} /\ Spoiled' = Spoiled /\ Added' = Added
    BY <1>1, <1>2, <1>3 DEF Underway, Spoiled, Added
<1>5. PICK S : S = Spoiled
    OBVIOUS
<1>6. UpdatesExact /\ OverlaysExact /\ NextInLine
    BY <1>2 DEF Sound
<1>7. ASSUME NEW x \in Heights \ S PROVE x \in Ahead <=> x = h
    BY <1>3, <1>5, ApplierSpoiled DEF Durable, Ahead
<1>8. StateExact'
    <2> SUFFICES ASSUME NEW j \in Keys
                 PROVE  Tally(disk'.state[j], Of(StateTimes(j),
                              Added \cup (IF j \in writer'.keys THEN {} ELSE {h})), S)
        BY <1>4, <1>5 DEF StateExact
    <2>1. CASE j = k
        <3>1. PICK G, H : G = Added \cup Ahead /\ H = Added \cup {h}
            OBVIOUS
        <3>2. Tally(updates[k], Of(StateTimes(k), G), S)
            BY <1>1, <1>5, <1>6, <3>1 DEF UpdatesExact
        <3>3. \A x \in Heights \ S : Of(StateTimes(k), H)[x] = Of(StateTimes(k), G)[x]
            BY <1>7, <3>1 DEF Of
        <3>4. Tally(updates[k], Of(StateTimes(k), H), S)
            BY ONLY <3>2, <3>3, TallySame
        <3> QED BY <1>1, <2>1, <3>1, <3>4
    <2>2. CASE j # k
        BY <1>1, <1>4, <1>5, <2>2 DEF Sound, OnDisk, StateExact
    <2> QED BY <2>1, <2>2
<1>9. /\ \A j : Listed(j)' = Listed(j)
      /\ \A p : Reached(p)' = Reached(p)
      /\ \A j : ListSoFar(j)' = ListSoFar(j)
    BY <1>1 DEF Listed, Reached, ListSoFar
<1>10. ListExact' /\ ForgedExact' /\ TurnsExact' /\ PartsExact' /\ ValidatorsExact'
    BY <1>1, <1>4, <1>9
    DEF Sound, OnDisk, ListExact, ForgedExact, TurnsExact, PartsExact, ValidatorsExact
<1>11. Ahead' = Ahead
    BY <1>1, <1>2, <1>3 DEF Ahead
<1>12. UpdatesExact'
    BY <1>1, <1>4, <1>6, <1>11, UpdatesStay
<1>13. OverlaysExact'
    BY <1>1, <1>2, <1>4, <1>6 DEF OverlaysExact
<1>14. NextInLine'
    BY <1>1, <1>2, <1>3, <1>4, <1>6 DEF NextInLine
<1> QED BY <1>8, <1>10, <1>12, <1>13, <1>14 DEF OnDisk, InMemory

\* One more is counted, or all of them are.
LEMMA UptoGrows ==
    ASSUME NEW v \in Seq(Heights), NEW h \in Heights, NEW l \in Int, h = l + 1, NEW n \in Nat,
           NEW times, \A x \in Heights : times[x] \in Int,
           NEW S, Tally(v, Upto(times, l, {h}, n), S)
    PROVE  Tally(Append(v, h), Upto(times, l, {h}, n + 1), S)
<1>1. PICK f, g : f = Upto(times, l, {h}, n) /\ g = Upto(times, l, {h}, n + 1)
    OBVIOUS
<1>2. \A x \in Heights : x \in Nat
    BY HeightsAre
<1>3. ASSUME NEW x \in Heights \ S PROVE g[x] = f[x] + One(x = h)
    <2>1. CASE x = h
        BY <1>1, <1>2, <2>1 DEF Upto, One
    <2>2. CASE x # h
        <3>1. times[x] \in Int /\ f[x] \in Int /\ g[x] = f[x]
            BY <1>1, <1>2, <2>2 DEF Upto
        <3> QED BY <2>2, <3>1 DEF One
    <2> QED BY <2>1, <2>2
<1>4. \A x \in Heights \ S : x > h => f[x] = 0
    BY <1>1, <1>2 DEF Upto
<1>5. Tally(v, f, S)
    BY <1>1
<1> QED BY <1>1, <1>3, <1>4, <1>5, TallyAppend

LEMMA UptoEnds ==
    ASSUME NEW v, NEW h \in Heights, NEW l \in Int, h = l + 1, NEW times, NEW n, times[h] = n,
           NEW m, NEW S, Tally(v, Upto(times, l, {h}, n), S)
    PROVE  Tally(v, Upto(times, h, {h}, m), S)
<1>1. \A x \in Heights : x \in Nat
    BY HeightsAre
<1>2. \A x \in Heights \ S : Upto(times, h, {h}, m)[x] = Upto(times, l, {h}, n)[x]
    BY <1>1 DEF Upto
<1> QED BY <1>2, TallySame

\* What a put adds to what the writer has reached.
LEMMA ReachedNext ==
    ASSUME Threading, Write, PutNext
    PROVE  /\ \A q : Reached(q)' <=> Reached(q) \/ q = NextPut
           /\ NextPut \in Statistic => ~Reached(NextPut)
           /\ NextPut = "validators" => Due(writer.height)
           /\ NextPut = "latest" => \A q \in Required(writer.height) : Reached(q)
           /\ NextPut = "latest" /\ Reached("senderCount") => Sender(writer.height) # NoSender
           /\ \A q \in {"coinbaseCount", "forged", "turn"} : Reached(q) => writer.height # 0
<1>1. PICK h \in Heights, n \in Nat, p \in Names : /\ h = writer.height /\ n = writer.next /\ p = NextPut
                                         /\ p = Puts(h)[n] /\ n \in 1..Len(Puts(h))
    BY PutEffect
<1>2. writer'.height = h /\ writer'.next = n + 1
    BY <1>1, PutEffect
<1>3a. PICK q : q = Puts(h)
    OBVIOUS
<1>3b. PICK l \in Nat : l = Len(Puts(h))
    BY PutsOrder
<1>3. q = Puts(h) /\ l = Len(Puts(h)) /\ n <= l /\ n >= 1
    BY <1>1, <1>3a, <1>3b
<1>4. \A a : Reached(a) <=> \E i \in 1..n - 1 : q[i] = a
    BY <1>1, <1>3 DEF Reached
<1>5. \A a : Reached(a)' <=> \E i \in 1..n : q[i] = a
    BY <1>2, <1>3 DEF Reached
<1>6. \A a : Reached(a)' <=> Reached(a) \/ a = p
    BY <1>1, <1>3, <1>4, <1>5
<1>7. p \in Statistic => ~Reached(p)
    <2> SUFFICES ASSUME p \in Statistic, NEW i \in 1..n - 1, q[i] = p PROVE FALSE
        BY <1>4
    <2>1. i \in 1..l /\ n \in 1..l /\ i # n
        BY <1>3
    <2> QED BY <1>1, <1>3, <2>1, PutsOnce
<1>8. p = "validators" => Due(h)
    BY <1>1, PutsOnce
<1>9. ASSUME p = "latest", NEW a \in Required(h) PROVE Reached(a)
    <2>3. \A i \in 1..Len(Puts(h)) : Puts(h)[i] = "latest" <=> i = Len(Puts(h))
        BY PutsOrder
    <2>1. n = l
        BY ONLY <1>1, <1>3, <1>9, <2>3
    <2>2. \E i \in 1..l - 1 : q[i] = a
        BY <1>3, PutsOrder
    <2> QED BY <1>4, <2>1, <2>2
<1>10. \A i \in 1..n - 1 : i \in 1..l
    BY <1>3
<1>11. Reached("senderCount") => Sender(h) # NoSender
    BY <1>3, <1>4, <1>10, PutsOnce
<1>12. \A a \in {"coinbaseCount", "forged", "turn"} : Reached(a) => h # 0
    BY <1>3, <1>4, <1>10, PutsOnce
<1> QED BY <1>1, <1>6, <1>7, <1>8, <1>9, <1>11, <1>12

LEMMA SoFarNext ==
    ASSUME Threading, Write, PutNext, NEW k \in Keys
    PROVE  /\ ListSoFar(k) \in Nat
           /\ ListSoFar(k)' =
                IF \/ NextPut = "senderCount" /\ k = Sender(writer.height)
                   \/ NextPut = "coinbaseCount" /\ k = Coinbase
                THEN ListSoFar(k) + 1 ELSE ListSoFar(k)
           /\ NextPut = "latest" => ListTimes(k)[writer.height] = ListSoFar(k)
<1>1. PICK h \in Heights, p \in Names : h = writer.height /\ p = NextPut /\ writer'.height = h
    BY PutEffect
<1>2. PICK a \in BOOLEAN, b \in BOOLEAN, c \in BOOLEAN, d \in BOOLEAN :
        /\ a <=> Reached("senderCount") /\ Sender(h) = k
        /\ b <=> Reached("coinbaseCount") /\ Coinbase = k
        /\ c <=> Reached("senderCount")' /\ Sender(h) = k
        /\ d <=> Reached("coinbaseCount")' /\ Coinbase = k
    OBVIOUS
<1>3. ListSoFar(k) = One(a) + One(b)
    BY <1>1, <1>2 DEF ListSoFar, One
<1>4. ListSoFar(k)' = One(c) + One(d)
    BY <1>1, <1>2 DEF ListSoFar, One
<1>5. /\ Reached("senderCount")' <=> Reached("senderCount") \/ p = "senderCount"
      /\ Reached("coinbaseCount")' <=> Reached("coinbaseCount") \/ p = "coinbaseCount"
      /\ p \in {"senderCount", "coinbaseCount"} => ~Reached(p)
      /\ p = "latest" => \A q \in Required(h) : Reached(q)
      /\ Reached("coinbaseCount") => h # 0
    BY <1>1, ReachedNext DEF Statistic
<1>6. CASE p = "senderCount" /\ k = Sender(h)
    <2>1. ~a /\ c /\ (b <=> d)
        BY <1>2, <1>5, <1>6
    <2> QED BY <1>1, <1>3, <1>4, <1>6, <2>1 DEF One
<1>7. CASE p = "coinbaseCount" /\ k = Coinbase
    <2>1. ~b /\ d /\ (a <=> c)
        BY <1>2, <1>5, <1>7
    <2> QED BY <1>1, <1>3, <1>4, <1>7, <2>1 DEF One
<1>8. CASE ~(p = "senderCount" /\ k = Sender(h)) /\ ~(p = "coinbaseCount" /\ k = Coinbase)
    <2>1. (a <=> c) /\ (b <=> d)
        BY <1>2, <1>5, <1>8
    <2>2. ListSoFar(k) \in Nat /\ ListSoFar(k)' = ListSoFar(k)
        BY <1>3, <1>4, <2>1 DEF One
    <2>3. ASSUME p = "latest" PROVE ListTimes(k)[h] = ListSoFar(k)
        <3>1. a <=> Sender(h) = k
            <4>1. Sender(h) = k => "senderCount" \in Required(h)
                BY CommitAssumption DEF Required
            <4> QED BY <1>2, <1>5, <2>3, <4>1
        <3>2. b <=> Coinbase = k /\ h > 0
            <4>1. h # 0 => "coinbaseCount" \in Required(h) /\ h > 0
                BY HeightsAre DEF Required
            <4> QED BY <1>2, <1>5, <2>3, <4>1, HeightsAre
        <3>3. ListTimes(k)[h] = One(Sender(h) = k) + One(Coinbase = k /\ h > 0)
            BY DEF ListTimes
        <3> QED BY <1>3, <3>1, <3>2, <3>3 DEF One
    <2> QED BY <1>1, <1>8, <2>2, <2>3
<1> QED BY <1>6, <1>7, <1>8

LEMMA RewardNext ==
    ASSUME Threading, Write, PutNext, NEW a \in {"forged", "turn"}
    PROVE  /\ One(Reached(a)) \in Nat
           /\ One(Reached(a)') = IF NextPut = a THEN One(Reached(a)) + 1 ELSE One(Reached(a))
           /\ NextPut = "latest" => RewardTimes[writer.height] = One(Reached(a))
<1>1. PICK h \in Heights, p \in Names : h = writer.height /\ p = NextPut
    BY PutEffect
<1>2. /\ Reached(a)' <=> Reached(a) \/ p = a
      /\ p = a => ~Reached(a)
      /\ p = "latest" => \A q \in Required(h) : Reached(q)
      /\ Reached(a) => h # 0
    BY <1>1, ReachedNext DEF Statistic
<1>3. One(Reached(a)) \in Nat
    BY DEF One
<1>4. One(Reached(a)') = IF p = a THEN One(Reached(a)) + 1 ELSE One(Reached(a))
    BY <1>2 DEF One
<1>5. ASSUME p = "latest" PROVE RewardTimes[h] = One(Reached(a))
    <2>1. h # 0 => a \in Required(h) /\ h > 0
        BY HeightsAre DEF Required
    <2>2. Reached(a) <=> h > 0
        BY <1>2, <1>5, <2>1
    <2>3. RewardTimes[h] = One(h > 0)
        BY DEF RewardTimes
    <2> QED BY <2>2, <2>3 DEF One
<1> QED BY <1>1, <1>3, <1>4, <1>5

\* A list or a statistic, whatever the put is to it.
LEMMA PutTally ==
    ASSUME NEW v \in Seq(Heights), NEW w, NEW h \in Heights, NEW l \in Int, h = l + 1,
           NEW n \in Nat, NEW m, NEW times, NEW S, NEW adds, NEW ends, NEW g \in Int,
           \A x \in Heights : times[x] \in Int,
           Tally(v, Upto(times, l, {h}, n), S),
           adds \in BOOLEAN, ends \in BOOLEAN, ~(adds /\ ends),
           w = IF adds THEN Append(v, h) ELSE v,
           m = IF adds THEN n + 1 ELSE n,
           ends => times[h] = n,
           g = IF ends THEN h ELSE l
    PROVE  Tally(w, Upto(times, g, {h}, m), S)
<1>1. CASE adds
    <2>1. w = Append(v, h) /\ m = n + 1 /\ g = l
        BY <1>1
    <2> QED BY <2>1, UptoGrows
<1>2. CASE ends
    <2>1. w = v /\ times[h] = n /\ g = h
        BY <1>2
    <2> QED BY <2>1, UptoEnds
<1>3. CASE ~adds /\ ~ends
    BY <1>3
<1> QED BY <1>1, <1>2, <1>3

LEMMA PutOnDisk ==
    ASSUME Threading, Write, PutNext
    PROVE  /\ \A k \in Keys : Listed(k) \in Seq(Heights) /\ Listed(k)' =
                IF \/ NextPut = "senderCount" /\ k = Sender(writer.height)
                   \/ NextPut = "coinbaseCount" /\ k = Coinbase
                THEN Append(Listed(k), writer.height) ELSE Listed(k)
           /\ disk'.forged = IF NextPut = "forged" THEN Append(disk.forged, writer.height)
                             ELSE disk.forged
           /\ disk'.turns = IF NextPut = "turn" THEN Append(disk.turns, writer.height)
                            ELSE disk.turns
           /\ \A x \in disk'.parts : x \in disk.parts \/ x[2] = writer.height
<1>1. PICK h \in Heights, n \in Nat, p \in Names : /\ h = writer.height /\ n = writer.next
        /\ p = NextPut /\ p = Puts(h)[n] /\ n \in 1..Len(Puts(h)) /\ Writing
    BY PutEffect
<1>2. disk' = Put(disk, p, h)
    BY <1>1 DEF PutNext, NextPut
<1>3. n <= Len(Puts(h))
    BY <1>1, PutsOrder
<1>4. /\ p \in {"senderEntry", "senderCount"} => Sender(h) # NoSender
      /\ p = "senderCount" => Pending(disk, Sender(h), h)
      /\ p = "coinbaseCount" => Pending(disk, Coinbase, h)
    BY <1>1, <1>3, PutsOrder DEF Threading, Values
<1>5. PICK d, e : d = disk /\ e = disk' /\ IsDisk(d)
    BY DEF Threading, Values
<1>6. /\ \A k \in Keys : ListOf(e, k) =
            IF (p = "senderCount" /\ k = Sender(h)) \/ (p = "coinbaseCount" /\ k = Coinbase)
            THEN Append(ListOf(d, k), h) ELSE ListOf(d, k)
      /\ e.forged = IF p = "forged" THEN Append(d.forged, h) ELSE d.forged
      /\ e.turns = IF p = "turn" THEN Append(d.turns, h) ELSE d.turns
      /\ \A x \in e.parts : x \in d.parts \/ x[2] = h
    BY <1>2, <1>4, <1>5, PutExact
<1>7. \A k : Listed(k) = ListOf(d, k) /\ Listed(k)' = ListOf(e, k)
    BY <1>5 DEF Listed, ListOf
<1>8. \A k \in Keys : ListOf(d, k) \in Seq(Heights)
    BY <1>5, ListOfIs
<1> QED BY <1>1, <1>5, <1>6, <1>7, <1>8

LEMMA SoundPut ==
    ASSUME Threading, Durable, Sound, Write, PutNext
    PROVE  OnDisk' /\ InMemory'
<1>1. PICK h \in Heights, p \in Names : h = writer.height /\ p = NextPut
    BY PutEffect
<1>2. PICK l \in Int : /\ l = disk.latest /\ h = l + 1 /\ l >= -1
                       /\ disk'.latest = IF p = "latest" THEN h ELSE l
    BY <1>1, PutEffect, DiskNumber DEF Kept
<1>3. /\ disk'.state = disk.state /\ updates' = updates /\ torn' = torn /\ job' = job
      /\ overlapped' = overlapped /\ writer.keys = {} /\ writer'.keys = {}
      /\ writer'.height = h /\ Writing
      /\ disk'.validators = IF p = "validators" THEN h ELSE disk.validators
    BY <1>1, PutEffect DEF Kept
<1>4. writer'.next # 1
    BY PutEffect, PutsOrder
<1>5. open /\ open' = open /\ \A x \in Threads : place(x)' = place(x)
    BY DEF Write, ApplyFrame, place
<1>6. Writing' /\ Spoiled' = Spoiled /\ Underway = {h} /\ Underway' = {h}
    BY <1>1, <1>3, <1>5, HeightsAre, NoWriterHeight DEF Writing, Spoiled, Underway
<1>7. Ahead' = Ahead /\ h \in Ahead
    BY <1>1, <1>3, <1>5, <1>6 DEF Ahead
<1>8. PICK S : S = Spoiled
    OBVIOUS
<1>9. PICK g \in Int : g = disk'.latest /\ g = IF p = "latest" THEN h ELSE l
    BY <1>2
<1>10. ASSUME NEW x \in Heights PROVE x \in Added' <=> x \in Added \/ (p = "latest" /\ x = h)
    <2>1. x \in Int /\ x >= 0 /\ (x \in Added <=> x <= l)
        BY <1>2, DiskNumber
    <2>2. x \in Added' <=> x <= g
        BY <1>9, <2>1 DEF Added
    <2> QED BY <1>2, <1>9, <2>1, <2>2
<1>11. StateExact'
    <2> SUFFICES ASSUME NEW k \in Keys PROVE Tally(disk.state[k], Of(StateTimes(k), Added' \cup {h}), S)
        BY <1>3, <1>6, <1>8 DEF StateExact
    <2>1. Tally(disk.state[k], Of(StateTimes(k), Added \cup {h}), S)
        BY <1>3, <1>6, <1>8 DEF Sound, OnDisk, StateExact
    <2>2. \A x \in Heights \ S :
            Of(StateTimes(k), Added' \cup {h})[x] = Of(StateTimes(k), Added \cup {h})[x]
        BY <1>10 DEF Of
    <2> QED BY ONLY <2>1, <2>2, TallySame
<1>12. ListExact'
    <2>1. ASSUME NEW k \in Keys
          PROVE  Tally(Listed(k)', Upto(ListTimes(k), g, {h}, ListSoFar(k)'), S)
        <3>1. PICK v \in Seq(Heights) : v = Listed(k)
            BY PutOnDisk
        <3>2. PICK n \in Nat : n = ListSoFar(k)
            BY SoFarNext
        <3>3. PICK w, m : w = Listed(k)' /\ m = ListSoFar(k)'
            OBVIOUS
        <3>4. PICK adds \in BOOLEAN, ends \in BOOLEAN :
                /\ adds <=> (p = "senderCount" /\ k = Sender(h)) \/ (p = "coinbaseCount" /\ k = Coinbase)
                /\ ends <=> p = "latest"
            OBVIOUS
        <3>5. /\ w = IF adds THEN Append(v, h) ELSE v
              /\ m = IF adds THEN n + 1 ELSE n
              /\ ends => ListTimes(k)[h] = n
            BY <1>1, <3>1, <3>2, <3>3, <3>4, PutOnDisk, SoFarNext
        <3>6. \A x \in Heights : ListTimes(k)[x] \in Int
            BY DEF ListTimes, One
        <3>7. Tally(v, Upto(ListTimes(k), l, {h}, n), S)
            BY <1>2, <1>6, <1>8, <3>1, <3>2 DEF Sound, OnDisk, ListExact
        <3>8. ~(adds /\ ends) /\ g = IF ends THEN h ELSE l
            BY <1>9, <3>4
        <3>9. Tally(w, Upto(ListTimes(k), g, {h}, m), S)
            BY <1>2, <3>5, <3>6, <3>7, <3>8, PutTally
        <3> QED BY <3>3, <3>9
    <2> QED BY <1>6, <1>8, <1>9, <2>1 DEF ListExact
<1>13. ASSUME NEW a \in {"forged", "turn"}, NEW v \in Seq(Heights), NEW w,
              w = IF p = a THEN Append(v, h) ELSE v,
              Tally(v, Upto(RewardTimes, l, {h}, One(Reached(a))), S)
       PROVE  Tally(w, Upto(RewardTimes, g, {h}, One(Reached(a)')), S)
    <2>1. PICK n \in Nat : n = One(Reached(a))
        BY RewardNext
    <2>2. PICK m : m = One(Reached(a)')
        OBVIOUS
    <2>3. PICK adds \in BOOLEAN, ends \in BOOLEAN : (adds <=> p = a) /\ (ends <=> p = "latest")
        OBVIOUS
    <2>4. m = (IF adds THEN n + 1 ELSE n) /\ (ends => RewardTimes[h] = n)
        BY <1>1, <2>1, <2>2, <2>3, RewardNext
    <2>5. \A x \in Heights : RewardTimes[x] \in Int
        BY DEF RewardTimes, One
    <2>6. /\ ~(adds /\ ends) /\ g = IF ends THEN h ELSE l
          /\ w = IF adds THEN Append(v, h) ELSE v
          /\ Tally(v, Upto(RewardTimes, l, {h}, n), S)
        BY <1>9, <1>13, <2>1, <2>3
    <2>7. Tally(w, Upto(RewardTimes, g, {h}, m), S)
        BY <1>2, <2>4, <2>5, <2>6, PutTally
    <2> QED BY <2>2, <2>7
<1>14. ForgedExact' /\ TurnsExact'
    <2>1. disk.forged \in Seq(Heights) /\ disk.turns \in Seq(Heights)
        BY DEF Threading, Values, IsDisk
    <2>2. /\ disk'.forged = IF p = "forged" THEN Append(disk.forged, h) ELSE disk.forged
          /\ disk'.turns = IF p = "turn" THEN Append(disk.turns, h) ELSE disk.turns
        BY <1>1, PutOnDisk
    <2>3. /\ Tally(disk.forged, Upto(RewardTimes, l, {h}, One(Reached("forged"))), S)
          /\ Tally(disk.turns, Upto(RewardTimes, l, {h}, One(Reached("turn"))), S)
        BY <1>2, <1>6, <1>8 DEF Sound, OnDisk, ForgedExact, TurnsExact
    <2>4. Tally(disk'.forged, Upto(RewardTimes, g, {h}, One(Reached("forged")')), S)
        BY <1>13, <2>1, <2>2, <2>3
    <2>5. Tally(disk'.turns, Upto(RewardTimes, g, {h}, One(Reached("turn")')), S)
        BY <1>13, <2>1, <2>2, <2>3
    <2> QED BY <1>6, <1>8, <1>9, <2>4, <2>5 DEF ForgedExact, TurnsExact
<1>15. PartsExact'
    <2> SUFFICES ASSUME NEW e \in disk'.parts, e[2] # h PROVE e[2] <= g \/ e[2] \in S
        BY <1>6, <1>8, <1>9 DEF PartsExact
    <2>1. e \in disk.parts
        BY <1>1, PutOnDisk
    <2>2. e[2] <= l \/ e[2] \in S
        BY <1>2, <1>6, <1>8, <2>1 DEF Sound, OnDisk, PartsExact
    <2>3. e[2] \in Int
        BY <2>1, HeightsAre DEF Threading, Values, IsDisk
    <2> QED BY <1>2, <1>9, <2>2, <2>3
<1>16. ValidatorsExact'
    <2>1. CASE p = "validators"
        <3>1. disk'.validators = h /\ Due(h)
            BY <1>1, <1>3, <2>1, ReachedNext
        <3> QED BY <1>6, <3>1 DEF ValidatorsExact
    <2>2. CASE p = "latest" /\ Due(h)
        <3>1. "validators" \in Required(h)
            BY <2>2 DEF Required, Due
        <3>2. Reached("validators")
            BY <1>1, <2>2, <3>1, ReachedNext
        <3>3. disk.validators = h
            BY <1>1, <1>3, <3>2 DEF Durable, PutsDone, Effect, Reached
        <3>4. disk'.validators = h
            BY <1>3, <2>2, <3>3
        <3> QED BY <1>6, <2>2, <3>4 DEF ValidatorsExact
    <2>3. CASE p = "latest" /\ ~Due(h)
        <3>1. h > 0 /\ LastUpdate(h) = LastUpdate(l) /\ disk.latest # None
            <4>1. h > 0 /\ LastUpdate(h) = LastUpdate(h - 1) /\ h - 1 = l
                BY <1>2, <2>3, LastUpdateIs
            <4> QED BY <1>2, <4>1 DEF None
        <3>2. disk'.validators = disk.validators /\ disk'.latest = h
            BY <1>2, <1>3, <2>3
        <3>3. \/ disk.validators = LastUpdate(l) \/ disk.validators \in Spoiled
              \/ disk.validators = h /\ Due(disk.validators)
            BY <1>2, <1>6, <3>1 DEF Sound, OnDisk, ValidatorsExact
        <3> QED BY <1>6, <2>3, <3>1, <3>2, <3>3 DEF ValidatorsExact
    <2>4. CASE p \notin {"validators", "latest"}
        <3>1. disk'.validators = disk.validators /\ disk'.latest = disk.latest
            BY <1>2, <1>3, <2>4
        <3> QED BY <1>6, <3>1 DEF Sound, OnDisk, ValidatorsExact
    <2> QED BY <2>1, <2>2, <2>3, <2>4
<1>17. UpdatesExact /\ OverlaysExact /\ NextInLine
    BY <1>5 DEF Sound
<1>18. UpdatesExact'
    <2>1. \A x \in Heights : x \in Added \cup Ahead <=> x \in Added' \cup Ahead'
        BY <1>7, <1>10
    <2> QED BY <1>3, <1>6, <1>17, <2>1, UpdatesStay
<1>19. OverlaysExact'
    <2> SUFFICES ASSUME NEW x \in Threads, place(x) = "executed", NEW k \in DOMAIN job[x].overlay
                 PROVE  Tally(job[x].overlay[k], Of(StateTimes(k), Added' \cup {job[x].height}), Spoiled')
        BY <1>3, <1>5 DEF OverlaysExact
    <2>1. h \in Spoiled'
        BY <1>1, <1>3, <1>6, ApplierSpoiled DEF Durable
    <2>2. \A y \in Heights \ Spoiled' : y \in Added <=> y \in Added'
        BY <1>10, <2>1
    <2> QED BY <1>6, <1>17, <2>2, OverlaysStay
<1>20. NextInLine'
    <2>1. ASSUME NEW x \in Threads, place(x) \in {"executed", "committed"} PROVE job[x].height \in Spoiled
        BY <1>3, <2>1, ApplierSpoiled DEF Durable
    <2> QED BY <1>3, <1>4, <1>5, <1>6, <2>1 DEF NextInLine
<1> QED BY <1>11, <1>12, <1>14, <1>15, <1>16, <1>18, <1>19, <1>20 DEF OnDisk, InMemory

----------------------------------------------------------------------------
\* What a step does to the databases' being open.
LEMMA OpenedStep ==
    ASSUME Opened, [Next]_vars
    PROVE  Opened'
<1>1. CASE UNCHANGED vars
    BY <1>1 DEF vars, Opened
<1>2. CASE StopSync \/ ReadStatus \/ SetStopped \/ OfferStop \/ Join
    <2>1. kernel' \in {"stopping", "joining", "stopConsensus", "offerStop", "closing"}
        BY <1>2 DEF StopSync, ReadStatus, SetStopped, OfferStop, Join, KernelGoes
    <2> QED BY <2>1 DEF Opened
<1>3. CASE CloseDb \/ Exit
    BY <1>3 DEF CloseDb, Exit, Opened
<1>4. CASE Boot \/ GenesisAdded
    BY <1>4 DEF Boot, GenesisAdded, Opened
<1>5. CASE (\E t \in Threads : Apply(t)) \/ Write \/ WriteFails
    BY <1>5 DEF Apply, CommitOverlay, TakeLock, ReleaseLock, Write, WriteFails, ApplyFrame, Opened
<1>6. CASE Consensus \/ Events
    BY <1>6 DEF Consensus, Start, EnterNewHeight, ClearEvents, LoopCondition, TakeStop,
        CheckRunning, Pause, StartSync, CancelTask, CheckStopped, Restore,
        Events, OtherEvent, OnTimeout, EnterFinalize, OnNewHeight, ConsGoes, Opened
<1>7. CASE TargetReached \/ Process
    BY <1>7 DEF TargetReached, Process, Opened
<1> QED BY <1>1, <1>2, <1>3, <1>4, <1>5, <1>6, <1>7 DEF Next, Stop

LEMMA SoundStep ==
    ASSUME Threading, Durable, Sound, [Next]_vars
    PROVE  Sound'
<1>1. CASE StopSync \/ Stop
    <2>1. (open' <=> open) \/ (~open' /\ ~Writing)
        BY <1>1 DEF StopSync, Stop, ReadStatus, SetStopped, OfferStop, Join, CloseDb, Threading,
            Locks, Writing
    <2> QED BY <1>1, <2>1, KernelQuiet, SoundQuiet, OpenedStep DEF Sound, InMemory
<1>2. CASE Consensus \/ OtherEvent \/ OnTimeout \/ OnNewHeight
    <2>1. open' = open
        BY <1>2 DEF Consensus, Start, EnterNewHeight, ClearEvents, LoopCondition, TakeStop,
            CheckRunning, Pause, StartSync, CancelTask, CheckStopped, Restore,
            OtherEvent, OnTimeout, OnNewHeight, ConsGoes
    <2> QED BY <1>2, <2>1, ConsensusQuiet, SoundQuiet, OpenedStep DEF Sound, InMemory
<1>3. CASE TargetReached
    <2>1. open' = open
        BY <1>3 DEF TargetReached
    <2> QED BY <1>3, <2>1, TargetQuiet, SoundQuiet, OpenedStep DEF Sound, InMemory
<1>4. CASE UNCHANGED vars
    <2>1. open' = open
        BY <1>4 DEF vars
    <2> QED BY <1>4, <2>1, StutterQuiet, SoundQuiet, OpenedStep DEF Sound, InMemory
<1>5. CASE EnterFinalize \/ Process
    <2>1. open' = open
        BY <1>5 DEF EnterFinalize, Process, ConsGoes
    <2> QED BY <1>5, <2>1, StartsToApply, SoundExecute, OpenedStep DEF Sound, InMemory
<1>6. CASE Boot
    BY <1>6, SoundBoot, OpenedStep DEF Sound, InMemory
<1>7. CASE GenesisAdded
    BY <1>7, SoundGenesis, OpenedStep DEF Sound, InMemory
<1>8. CASE Exit
    BY <1>8, SoundExit, OpenedStep DEF Sound, InMemory
<1>9. CASE \E t \in Threads : CommitOverlay(t)
    BY <1>9, SoundCommit, OpenedStep DEF Sound, InMemory
<1>10. CASE \E t \in Threads : TakeLock(t)
    BY <1>10, SoundTake, OpenedStep DEF Sound, InMemory
<1>11. CASE \E t \in Threads : ReleaseLock(t) \/ (t = "sync" /\ WriteFails)
    BY <1>11, SoundLeave, OpenedStep DEF Sound, InMemory
<1>12. CASE Write /\ Flush
    BY <1>12, SoundFlush, OpenedStep DEF Sound, InMemory
<1>13. CASE Write /\ PutNext
    BY <1>13, SoundPut, OpenedStep DEF Sound, InMemory
<1>14. Write => Flush \/ PutNext
    BY DEF Write
<1>15. WriteFails => \E t \in Threads : t = "sync" /\ WriteFails
    BY DEF Threads
<1> QED BY <1>1, <1>2, <1>3, <1>4, <1>5, <1>6, <1>7, <1>8, <1>9, <1>10, <1>11, <1>12, <1>13,
           <1>14, <1>15 DEF Next, Apply, Events

\* An empty disk is exact.
LEMMA SoundInit == NodeInit => Sound
<1> SUFFICES ASSUME NodeInit PROVE Sound
    OBVIOUS
<1>1. disk = EmptyDisk /\ ~open
    BY DEF NodeInit, Init
<1>2. /\ disk.latest = -1 /\ disk.parts = {} /\ disk.forged = <<>> /\ disk.turns = <<>>
      /\ \A k \in Keys : disk.state[k] = <<>> /\ disk.listed[k] = <<>> /\ disk.count[k] = 0
    BY <1>1 DEF EmptyDisk, None
<1>3. Underway = {} /\ \A x \in Heights : x \notin Added /\ ~(x <= disk.latest)
    BY <1>1, <1>2, HeightsAre DEF Underway, Added
<1>4. ASSUME NEW times, NEW n, NEW x \in Heights PROVE Upto(times, disk.latest, Underway, n)[x] = 0
    BY <1>3 DEF Upto
<1>5. ASSUME NEW times, NEW G, G \in {{}, Underway}, NEW x \in Heights
      PROVE  Of(times, Added \cup G)[x] = 0
    BY <1>3, <1>5 DEF Of
<1>6. StateExact
    <2> SUFFICES ASSUME NEW k \in Keys
                 PROVE  Tally(disk.state[k],
                              Of(StateTimes(k), Added \cup (IF k \in writer.keys THEN {}
                                                            ELSE Underway)), Spoiled)
        BY DEF StateExact
    <2> QED BY <1>2, <1>5, EmptyTally
<1>7. ListExact
    <2> SUFFICES ASSUME NEW k \in Keys
                 PROVE  Tally(Listed(k), Upto(ListTimes(k), disk.latest, Underway, ListSoFar(k)), Spoiled)
        BY DEF ListExact
    <2>1. SubSeq(<<>>, 1, 0) = <<>>
        OBVIOUS
    <2>2. Listed(k) = <<>>
        BY <1>2, <2>1 DEF Listed
    <2> QED BY <1>4, <2>2, EmptyTally
<1>8. ForgedExact /\ TurnsExact
    BY <1>2, <1>4, EmptyTally DEF ForgedExact, TurnsExact
<1>9. PartsExact /\ ValidatorsExact
    BY <1>2 DEF PartsExact, ValidatorsExact, None
<1> QED BY <1>1, <1>6, <1>7, <1>8, <1>9 DEF Sound, Opened, OnDisk

\* With nothing on its way to disk, what is there is exact.
LEMMA SoundIsExact ==
    ASSUME Threading, Sound, Underway = {}
    PROVE  Exact(Spoiled)
<1>1. disk.latest \in Int /\ \A x \in Heights : x \in Added <=> x <= disk.latest
    BY DiskNumber
<1>2. ASSUME NEW times, NEW n, NEW x \in Heights
      PROVE  Upto(times, disk.latest, Underway, n)[x] = IF x <= disk.latest THEN times[x] ELSE 0
    BY DEF Upto
<1>3. ASSUME NEW k \in Keys
      PROVE  /\ Counts(disk.state[k], StateTimes(k), Spoiled)
             /\ Counts(Listed(k), ListTimes(k), Spoiled)
    <2>1. PICK G \in {{}, Underway} :
            Tally(disk.state[k], Of(StateTimes(k), Added \cup G), Spoiled)
        BY DEF Sound, OnDisk, StateExact
    <2>2. Counts(disk.state[k], StateTimes(k), Spoiled)
        <3>1. \A x \in Heights \ Spoiled : Of(StateTimes(k), Added \cup G)[x] =
                IF x <= disk.latest THEN StateTimes(k)[x] ELSE 0
            <4>1. G = {}
                OBVIOUS
            <4> QED BY <1>1, <4>1 DEF Of
        <3> QED BY ONLY <2>1, <3>1, TallyCounts
    <2>3. Tally(Listed(k), Upto(ListTimes(k), disk.latest, Underway, ListSoFar(k)), Spoiled)
        BY DEF Sound, OnDisk, ListExact
    <2> QED BY <1>2, <2>2, <2>3, TallyCounts
<1>4. Counts(disk.forged, RewardTimes, Spoiled)
    BY <1>2, TallyCounts DEF Sound, OnDisk, ForgedExact
<1>5. Counts(disk.turns, RewardTimes, Spoiled)
    BY <1>2, TallyCounts DEF Sound, OnDisk, TurnsExact
<1>6. \A e \in disk.parts : e[2] <= disk.latest \/ e[2] \in Spoiled
    BY DEF Sound, OnDisk, PartsExact
<1>7. disk.latest # None =>
        disk.validators = LastUpdate(disk.latest) \/ disk.validators \in Spoiled
    BY DEF Sound, OnDisk, ValidatorsExact
<1> QED BY <1>3, <1>4, <1>5, <1>6, <1>7 DEF Exact

LEMMA AlwaysSound == Spec => [](Threading /\ Sound)
<1>1. Threading /\ Durable /\ [Next]_vars => Durable'
    BY StepThreading, DurableStep
<1>2. Threading /\ Durable /\ Sound /\ [Next]_vars => Sound'
    BY SoundStep
<1> QED BY <1>1, <1>2, DurableInit, SoundInit, AlwaysThreading, PTL DEF Spec

\* Whenever no block is being written, whatever crashes came before, no value on disk misses
\* a block up to the latest one or counts one twice, torn and overlapped heights aside.
THEOREM NodeExactUnlessTorn == Spec => []ExactUnlessTorn
<1>1. Threading /\ Sound => ExactUnlessTorn
    BY SoundIsExact DEF ExactUnlessTorn, Underway
<1> QED BY <1>1, AlwaysSound, PTL

\* An orderly stop leaves nothing half written: the databases are closed between blocks.
THEOREM NodeClosedExact == Spec => []ClosedExact
<1>1. Threading /\ Sound => ClosedExact
    BY SoundIsExact DEF ClosedExact, Sound, Opened, Underway
<1> QED BY <1>1, AlwaysSound, PTL

----------------------------------------------------------------------------
\* The latest block number on disk goes up by one or stays, whoever writes and whoever
\* dies: no crash, restart or second thread skips a block or takes one back.
ChainGrows == [][disk'.latest \in {disk.latest, disk.latest + 1}]_disk

THEOREM NodeChainGrows == Spec => ChainGrows
<1>1. Threading /\ [Next]_vars => [disk'.latest \in {disk.latest, disk.latest + 1}]_disk
    <2> SUFFICES ASSUME Threading, [Next]_vars
                 PROVE  disk' = disk \/ disk'.latest \in {disk.latest, disk.latest + 1}
        OBVIOUS
    <2>1. BlockStep
        BY StepThreading
    <2>2. CASE Write /\ Flush
        BY <2>2, FlushEffect
    <2>3. CASE Write /\ PutNext
        BY <2>3, PutEffect DEF Kept
    <2>4. CASE Quiet \/ Boot \/ GenesisAdded \/ Exit
        BY <2>4 DEF Quiet, commit, Boot, OpenDb, GenesisAdded, EndWriting, Exit, Die
    <2>5. CASE \E t \in Threads : Executes(t)
        BY <2>5 DEF Executes, commit
    <2>6. CASE \E t \in Threads : CommitOverlay(t) \/ TakeLock(t) \/ ReleaseLock(t) \/ (t = "sync" /\ WriteFails)
        BY <2>6 DEF CommitOverlay, Merge, TakeLock, BeginWriting, ReleaseLock, EndWriting, WriteFails
    <2> QED BY <2>1, <2>2, <2>3, <2>4, <2>5, <2>6 DEF BlockStep
<1> QED BY <1>1, AlwaysThreading, PTL DEF ChainGrows, Spec
====
