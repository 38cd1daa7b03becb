---- MODULE SemuxSyncProofs ----
(* The queues of SemuxSync: nothing is lost, nothing is in two places, limits hold. *)
EXTENDS SemuxSync, FiniteSetTheorems, WellFoundedInduction, TLAPS

----------------------------------------------------------------------------
\* The invariant.  Busy: what process() has taken is the next block, or the latest
\* one once it is applied.
Busy ==
    /\ applied => processing # NoBlock
    /\ processing # NoBlock => processing.number = IF applied THEN latest ELSE latest + 1

\* A block from an honest peer is valid.
HonestValid ==
    /\ \A e \in toProcess : e.from \in Honest => e.valid
    /\ processing # NoBlock => (processing.from \in Honest => processing.valid)

\* No task is left for a block of the chain, but for one just applied.
Fresh ==
    \A h \in toDownload \union toComplete : h > latest \/ (applied /\ h = latest)

\* The queue position is past every task, and past the next block; an empty queue
\* means that it has reached the target.
Queued ==
    /\ latest + 1 < target =>
        /\ \A h \in toDownload \union toComplete : h <= latestQueuedTask
        /\ ~applied => latest + 1 <= latestQueuedTask
    /\ toDownload = {} => latestQueuedTask + 1 >= target

\* The tasks, but for the block that process() may queue again.
Spare == IF applied THEN latest ELSE latest + 1
TasksBounded ==
    /\ Cardinality(toComplete) <= MAX_UNFINISHED_JOBS + 1
    /\ Cardinality((toDownload \union toComplete) \ {Spare})
        <= MAX_QUEUED_BLOCKS + MAX_UNFINISHED_JOBS + 1

Inv == TypeOK /\ NothingLost /\ OnePlace /\ Busy /\ HonestValid /\ Fresh /\ Queued /\ TasksBounded
----------------------------------------------------------------------------
\* growToDownloadQueue: how far the queue position moves.
LEMMA GrowsByBounds ==
    ASSUME TypeOK, NEW D \in SUBSET Heights, NEW q \in 0..MaxHeight,
           NEW t \in 0..(MaxHeight + 1)
    PROVE  /\ GrowsBy(D, q, t) \in Nat
           /\ q + GrowsBy(D, q, t) <= MaxHeight
           /\ GrowsBy(D, q, t) # 0 => q + GrowsBy(D, q, t) < t
           /\ GrowsBy(D, q, t) # 0 =>
                Cardinality(D \union Missing(q, q + GrowsBy(D, q, t))) <= MAX_QUEUED_BLOCKS
           /\ D \union Missing(q, q + GrowsBy(D, q, t)) = {} => q + GrowsBy(D, q, t) + 1 >= t
<1> DEFINE S == {h \in (q + 1)..(t - 1) :
                    Cardinality(D \union Missing(q, h - 1)) < MAX_QUEUED_BLOCKS}
           n == GrowsBy(D, q, t)
<1>1. MaxHeight \in Nat /\ MAX_QUEUED_BLOCKS \in Nat /\ MAX_QUEUED_BLOCKS >= 2
      /\ q \in Nat /\ t \in Nat /\ q <= MaxHeight /\ t <= MaxHeight + 1
    BY SyncAssumption
<1>2. ASSUME NEW x \in Int
      PROVE  /\ IsFiniteSet(D \union Missing(q, x))
             /\ Cardinality(D \union Missing(q, x)) \in Nat
    <2>1. IsFiniteSet(D)
        <3>1. IsFiniteSet(1..MaxHeight)
            BY <1>1, FS_Interval
        <3>2. D \in SUBSET (1..MaxHeight)
            BY DEF Heights
        <3> QED BY <3>1, <3>2, FS_Subset
    <2>2. IsFiniteSet((q + 1)..x)
        BY <1>1, FS_Interval
    <2>3. Missing(q, x) \in SUBSET ((q + 1)..x)
        BY DEF Missing
    <2>4. IsFiniteSet(Missing(q, x))
        BY <2>2, <2>3, FS_Subset
    <2> QED BY <2>1, <2>4, FS_Union, FS_CardinalityType
<1>3. ASSUME NEW h \in S, NEW x \in (q + 1)..h  PROVE x \in S
    <2>1. h \in Int /\ h <= t - 1 /\ x \in Int /\ x <= h
        BY <1>1
    <2>2. D \union Missing(q, x - 1) \in SUBSET (D \union Missing(q, h - 1))
        BY <1>1, <2>1 DEF Missing
    <2>3. Cardinality(D \union Missing(q, x - 1)) <= Cardinality(D \union Missing(q, h - 1))
        BY <2>1, <2>2, <1>2, FS_Subset
    <2>4. /\ Cardinality(D \union Missing(q, x - 1)) \in Nat
          /\ Cardinality(D \union Missing(q, h - 1)) \in Nat
        <3>1. x - 1 \in Int /\ h - 1 \in Int
            BY <2>1
        <3> QED BY <3>1, <1>2
    <2> QED BY <1>1, <2>1, <2>3, <2>4
<1>4. /\ IsFiniteSet(S) /\ Cardinality(S) \in Nat
      /\ Cardinality(S) <= IF q + 1 > t - 1 THEN 0 ELSE t - 1 - q
    <2>1. /\ IsFiniteSet((q + 1)..(t - 1))
          /\ Cardinality((q + 1)..(t - 1)) = IF q + 1 > t - 1 THEN 0 ELSE (t - 1) - (q + 1) + 1
        BY <1>1, FS_Interval
    <2>2. S \in SUBSET ((q + 1)..(t - 1))
        OBVIOUS
    <2>3. IsFiniteSet(S) /\ Cardinality(S) <= Cardinality((q + 1)..(t - 1))
        BY <2>1, <2>2, FS_Subset
    <2>4. Cardinality(S) \in Nat
        BY <2>3, FS_CardinalityType
    <2> HIDE DEF S
    <2> QED BY <1>1, <2>1, <2>3, <2>4
<1>5. n = 0 \/ n = Cardinality(S)
    BY DEF GrowsBy
<1> HIDE DEF n
<1>6. n \in Nat /\ q + n <= MaxHeight /\ (n # 0 => q + n < t)
    <2> HIDE DEF S
    <2> QED BY <1>1, <1>4, <1>5
<1>7. n # 0 => q + n \in S
    <2> SUFFICES ASSUME n # 0, q + n \notin S PROVE FALSE
        OBVIOUS
    <2>1. n = Cardinality(S)
        BY <1>5
    <2>2. ASSUME NEW h \in S PROVE h \in (q + 1)..(q + n - 1)
        <3>1. h \in Int /\ h >= q + 1
            BY <1>1
        <3>2. ~(h >= q + n)
            <4> SUFFICES ASSUME h >= q + n PROVE FALSE
                OBVIOUS
            <4>1. q + n \in (q + 1)..h
                BY <1>1, <1>6, <3>1
            <4> HIDE DEF S
            <4> QED BY <1>3, <4>1
        <3> HIDE DEF S
        <3> QED BY <1>1, <1>6, <3>1, <3>2
    <2>3. S \in SUBSET ((q + 1)..(q + n - 1))
        BY <2>2
    <2>4. /\ IsFiniteSet((q + 1)..(q + n - 1))
          /\ Cardinality((q + 1)..(q + n - 1)) =
                IF q + 1 > q + n - 1 THEN 0 ELSE (q + n - 1) - (q + 1) + 1
        BY <1>1, <1>6, FS_Interval
    <2> HIDE DEF S
    <2>5. Cardinality(S) <= Cardinality((q + 1)..(q + n - 1))
        BY <2>3, <2>4, FS_Subset
    <2> QED BY <1>1, <1>6, <2>1, <2>4, <2>5
<1>8. n # 0 => Cardinality(D \union Missing(q, q + n)) <= MAX_QUEUED_BLOCKS
    <2> SUFFICES ASSUME n # 0
                 PROVE  Cardinality(D \union Missing(q, q + n)) <= MAX_QUEUED_BLOCKS
        OBVIOUS
    <2> DEFINE A == D \union Missing(q, q + n - 1)
    <2>1. Cardinality(A) < MAX_QUEUED_BLOCKS
        BY <1>1, <1>6, <1>7
    <2>2. IsFiniteSet(A) /\ Cardinality(A) \in Nat
        BY <1>1, <1>2, <1>6
    <2>3. D \union Missing(q, q + n) \in SUBSET (A \union {q + n})
        BY <1>1, <1>6 DEF Missing
    <2> HIDE DEF A
    <2>4. IsFiniteSet(A \union {q + n}) /\ Cardinality(A \union {q + n}) <= Cardinality(A) + 1
        BY <2>2, FS_AddElement
    <2>5. Cardinality(D \union Missing(q, q + n)) <= Cardinality(A \union {q + n})
        BY <2>3, <2>4, FS_Subset
    <2>6. Cardinality(D \union Missing(q, q + n)) \in Nat /\ Cardinality(A \union {q + n}) \in Nat
        BY <1>1, <1>2, <1>6, <2>4, FS_CardinalityType
    <2> QED BY <1>1, <2>1, <2>2, <2>4, <2>5, <2>6
<1>9. D \union Missing(q, q + n) = {} => q + n + 1 >= t
    <2> SUFFICES ASSUME D \union Missing(q, q + n) = {}, q + n + 1 < t PROVE FALSE
        BY <1>1, <1>6
    <2>1. Cardinality({}) = 0 /\ D = {}
        BY FS_EmptySet
    <2>2. ~(Cardinality(D) >= MAX_QUEUED_BLOCKS \div 2)
        <3>1. MAX_QUEUED_BLOCKS \div 2 >= 1
            BY <1>1
        <3>2. Cardinality(D) = 0
            BY <2>1
        <3> QED BY <1>1, <3>1, <3>2
    <2>3. n = Cardinality(S)
        BY <2>2 DEF n, GrowsBy
    <2>4. q + n + 1 \in S
        <3>1. (q + n + 1) - 1 = q + n
            BY <1>1, <1>6
        <3>2. q + n + 1 \in (q + 1)..(t - 1)
            BY <1>1, <1>6
        <3> QED BY <1>1, <2>1, <3>1, <3>2
    <2>5. (q + 1)..(q + n + 1) \in SUBSET S
        <3> HIDE DEF S
        <3> QED BY <1>3, <2>4
    <2>6. Cardinality((q + 1)..(q + n + 1)) = n + 1
        BY <1>1, <1>6, FS_Interval
    <2> HIDE DEF S
    <2>7. Cardinality((q + 1)..(q + n + 1)) <= Cardinality(S)
        BY <1>4, <2>5, FS_Subset
    <2> QED BY <1>6, <2>3, <2>6, <2>7
<1> QED BY <1>6, <1>8, <1>9 DEF n

\* What refilling the queue D from position q does to the two variables.
LEMMA Growing ==
    ASSUME TypeOK, NEW D \in SUBSET Heights, NEW q \in 0..MaxHeight,
           NEW t \in 0..(MaxHeight + 1), Grow(D, q, t)
    PROVE  /\ toDownload' \in SUBSET Heights /\ D \subseteq toDownload'
           /\ latestQueuedTask' \in q..MaxHeight
           /\ \A x \in (q + 1)..latestQueuedTask' : HasBlock(x) \/ x \in toDownload'
           /\ \A x \in toDownload' \ D : x > q /\ x <= latestQueuedTask' /\ x < t /\ ~HasBlock(x)
           /\ toDownload' = D \/ Cardinality(toDownload') <= MAX_QUEUED_BLOCKS
           /\ toDownload' = {} => latestQueuedTask' + 1 >= t
<1> DEFINE n == GrowsBy(D, q, t)
<1>1. /\ n \in Nat /\ q + n <= MaxHeight /\ (n # 0 => q + n < t)
      /\ n # 0 => Cardinality(D \union Missing(q, q + n)) <= MAX_QUEUED_BLOCKS
      /\ D \union Missing(q, q + n) = {} => q + n + 1 >= t
    BY GrowsByBounds
<1>2. latestQueuedTask' = q + n /\ toDownload' = D \union Missing(q, q + n)
    BY DEF Grow
<1>3. MaxHeight \in Nat /\ q \in Nat /\ t \in Nat
    BY SyncAssumption
<1> HIDE DEF n
<1>4. n = 0 => Missing(q, q + n) = {}
    BY <1>3 DEF Missing
<1>5. /\ toDownload' \in SUBSET Heights /\ D \subseteq toDownload'
      /\ latestQueuedTask' \in q..MaxHeight
    <2>1. Missing(q, q + n) \in SUBSET Heights
        BY <1>1, <1>3 DEF Missing, Heights
    <2>2. latestQueuedTask' \in q..MaxHeight
        BY <1>1, <1>2, <1>3
    <2> QED BY <1>2, <2>1, <2>2
<1>6. \A x \in (q + 1)..latestQueuedTask' : HasBlock(x) \/ x \in toDownload'
    BY <1>2 DEF Missing
<1>7. \A x \in toDownload' \ D : x > q /\ x <= latestQueuedTask' /\ x < t /\ ~HasBlock(x)
    BY <1>1, <1>2, <1>3, <1>4 DEF Missing
<1>8. toDownload' = D \/ Cardinality(toDownload') <= MAX_QUEUED_BLOCKS
    BY <1>1, <1>2, <1>4
<1>9. toDownload' = {} => latestQueuedTask' + 1 >= t
    BY <1>1, <1>2
<1> QED BY <1>5, <1>6, <1>7, <1>8, <1>9

\* The first task is a task, and none is before it.
LEMMA FirstIsFirst ==
    ASSUME NEW D \in SUBSET Heights, D # {}
    PROVE  First(D) \in D /\ \A x \in D : First(D) <= x
<1>1. D \in SUBSET Nat
    BY SyncAssumption DEF Heights
<1>2. \E h \in D : \A x \in D : h <= x
    <2>1. \E h \in D : \A x \in D : ~(<<x, h>> \in OpToRel(<, Nat))
        BY <1>1, NatLessThanWellFounded, WFMin
    <2>2. \A x, h \in D : x < h => <<x, h>> \in OpToRel(<, Nat)
        BY <1>1 DEF OpToRel
    <2>3. \A x, h \in D : x < h \/ h <= x
        BY <1>1
    <2> QED BY <2>1, <2>2, <2>3
<1> QED BY <1>2 DEF First

LEMMA SetsFinite ==
    ASSUME NEW D \in SUBSET Heights
    PROVE  IsFiniteSet(D) /\ Cardinality(D) \in Nat
<1>1. IsFiniteSet(Heights)
    BY SyncAssumption, FS_Interval DEF Heights
<1> QED BY <1>1, FS_Subset, FS_CardinalityType

\* A refilled queue and the requests leave the tasks within their bound.
LEMMA BoundRefilled ==
    ASSUME NEW D \in SUBSET Heights, NEW C \in SUBSET Heights, NEW z,
           Cardinality(D) <= MAX_QUEUED_BLOCKS, Cardinality(C) <= MAX_UNFINISHED_JOBS + 1
    PROVE  Cardinality((D \union C) \ {z}) <= MAX_QUEUED_BLOCKS + MAX_UNFINISHED_JOBS + 1
<1>1. /\ IsFiniteSet(D) /\ Cardinality(D) \in Nat /\ IsFiniteSet(C) /\ Cardinality(C) \in Nat
      /\ IsFiniteSet(D \intersect C) /\ Cardinality(D \intersect C) \in Nat
      /\ IsFiniteSet(D \union C) /\ Cardinality(D \union C) \in Nat
    <2>1. D \intersect C \in SUBSET Heights /\ D \union C \in SUBSET Heights
        OBVIOUS
    <2> QED BY <2>1, SetsFinite
<1>2. Cardinality(D \union C) = Cardinality(D) + Cardinality(C) - Cardinality(D \intersect C)
    BY <1>1, FS_Union
<1>3. Cardinality((D \union C) \ {z}) <= Cardinality(D \union C)
    <2>1. (D \union C) \ {z} \in SUBSET (D \union C)
        OBVIOUS
    <2> QED BY <1>1, <2>1, FS_Subset
<1>4. Cardinality((D \union C) \ {z}) \in Nat
    <2>1. (D \union C) \ {z} \in SUBSET Heights
        OBVIOUS
    <2> QED BY <2>1, SetsFinite
<1> QED BY <1>1, <1>2, <1>3, <1>4, SyncAssumption

LEMMA BoundKept ==
    ASSUME NEW S \in SUBSET Heights, NEW T \in SUBSET S, NEW n \in Nat, Cardinality(S) <= n
    PROVE  Cardinality(T) <= n
<1>1. T \in SUBSET Heights
    OBVIOUS
<1>2. IsFiniteSet(S) /\ Cardinality(S) \in Nat /\ Cardinality(T) \in Nat
    BY <1>1, SetsFinite
<1>3. Cardinality(T) <= Cardinality(S)
    BY <1>2, FS_Subset
<1> QED BY <1>2, <1>3

\* What taking the height h off the download queue does to the two variables.
LEMMA Removing ==
    ASSUME TypeOK, NEW h \in Heights, RemoveTask(h)
    PROVE  /\ toDownload' \in SUBSET Heights /\ toDownload \ {h} \subseteq toDownload'
           /\ latestQueuedTask' \in latestQueuedTask..MaxHeight
           /\ \A x \in (latestQueuedTask + 1)..latestQueuedTask' : HasBlock(x) \/ x \in toDownload'
           /\ \A x \in toDownload' :
                \/ x \in toDownload \ {h}
                \/ x > latestQueuedTask /\ x <= latestQueuedTask' /\ x < target /\ ~HasBlock(x)
           /\ toDownload' = toDownload \ {h} \/ Cardinality(toDownload') <= MAX_QUEUED_BLOCKS
           /\ toDownload' = {} => \/ latestQueuedTask' + 1 >= target
                                  \/ toDownload = {} /\ latestQueuedTask' = latestQueuedTask
<1>1. /\ toDownload \in SUBSET Heights /\ latestQueuedTask \in 0..MaxHeight
      /\ target \in 0..(MaxHeight + 1) /\ MaxHeight \in Nat
    BY SyncAssumption DEF TypeOK
<1>2. CASE h \in toDownload
    <2>1. Grow(toDownload \ {h}, latestQueuedTask, target)
        BY <1>2 DEF RemoveTask
    <2>2. toDownload \ {h} \in SUBSET Heights
        BY <1>1
    <2> QED BY <1>1, <2>1, <2>2, Growing
<1>3. CASE h \notin toDownload
    BY <1>1, <1>3 DEF RemoveTask
<1> QED BY <1>2, <1>3

\* Tasks stay below the target if what is added is.
LEMMA BelowKept ==
    ASSUME Inv, UNCHANGED <<target, latest>>,
           \A x \in toDownload' \union toComplete' : x \in toDownload \union toComplete \/ x < target
    PROVE  BelowTarget'
BY DEF Inv, TypeOK, BelowTarget

----------------------------------------------------------------------------
\* Steps that leave the queues and the processing task alone.
LEMMA QueuesUntouched ==
    ASSUME Inv, TypeOK', UNCHANGED <<target, queues, process>>
    PROVE  Inv'
<1>1. /\ target' = target /\ latestQueuedTask' = latestQueuedTask /\ toDownload' = toDownload
      /\ toComplete' = toComplete /\ toProcess' = toProcess /\ latest' = latest
      /\ processing' = processing /\ applied' = applied
    BY DEF queues, process
<1>2. NothingLost' /\ OnePlace'
    BY <1>1 DEF Inv, NothingLost, OnePlace, Numbers, HasBlock
<1>3. Busy' /\ HonestValid' /\ Fresh' /\ Queued' /\ TasksBounded'
    BY <1>1 DEF Inv, Busy, HonestValid, Fresh, Queued, TasksBounded, Spare
<1> QED BY <1>2, <1>3 DEF Inv

\* Queues refilled while the chain and the processing task stay: what is left to show.
LEMMA Refilled ==
    ASSUME Inv, UNCHANGED <<latest, processing, applied, target>>,
           toComplete' \in SUBSET Heights,
           toDownload' \in SUBSET Heights,
           latestQueuedTask' \in latestQueuedTask..MaxHeight,
           \A x \in toDownload' \union toComplete' :
              \/ x \in toDownload \union toComplete
              \/ x > latestQueuedTask /\ x <= latestQueuedTask' /\ x < target /\ ~HasBlock(x),
           toDownload' = {} => \/ latestQueuedTask' + 1 >= target
                               \/ toDownload = {} /\ latestQueuedTask' = latestQueuedTask,
           Cardinality(toComplete') <= MAX_UNFINISHED_JOBS + 1,
           \/ (toDownload' \union toComplete') \ {Spare} \subseteq (toDownload \union toComplete) \ {Spare}
           \/ Cardinality(toDownload') <= MAX_QUEUED_BLOCKS
    PROVE  Busy' /\ Fresh' /\ Queued' /\ TasksBounded'
<1>1. /\ MaxHeight \in Nat /\ latest \in 0..MaxHeight /\ latestQueuedTask \in 0..MaxHeight
      /\ target \in 0..(MaxHeight + 1)
    BY SyncAssumption DEF Inv, TypeOK
<1>2. Busy'
    BY DEF Inv, Busy
<1>3. Fresh'
    <2>1. \A x \in toDownload' \union toComplete' : ~HasBlock(x) => x > latest
        BY <1>1 DEF HasBlock, Heights
    <2> QED BY <2>1 DEF Inv, Fresh
<1>4. Queued'
    <2>1. ASSUME latest + 1 < target, NEW x \in toDownload' \union toComplete'
          PROVE  x <= latestQueuedTask'
        <3>1. CASE x \in toDownload \union toComplete
            <4>1. x <= latestQueuedTask /\ x \in Nat
                BY <2>1, <3>1 DEF Inv, Queued, TypeOK, Heights
            <4> QED BY <1>1, <4>1
        <3> QED BY <3>1
    <2>2. latest + 1 < target /\ ~applied => latest + 1 <= latestQueuedTask'
        <3> SUFFICES ASSUME latest + 1 < target, ~applied PROVE latest + 1 <= latestQueuedTask'
            OBVIOUS
        <3>1. latest + 1 <= latestQueuedTask
            BY DEF Inv, Queued
        <3> QED BY <1>1, <3>1
    <2>3. toDownload' = {} => latestQueuedTask' + 1 >= target
        BY DEF Inv, Queued
    <2> QED BY <2>1, <2>2, <2>3 DEF Queued
<1>5. TasksBounded'
    <2>1. Spare' = Spare
        BY DEF Spare
    <2>2. Cardinality((toDownload' \union toComplete') \ {Spare})
            <= MAX_QUEUED_BLOCKS + MAX_UNFINISHED_JOBS + 1
        <3>1. CASE Cardinality(toDownload') <= MAX_QUEUED_BLOCKS
            BY <3>1, BoundRefilled
        <3>2. CASE (toDownload' \union toComplete') \ {Spare}
                        \subseteq (toDownload \union toComplete) \ {Spare}
            <4> DEFINE S == (toDownload \union toComplete) \ {Spare}
                       T == (toDownload' \union toComplete') \ {Spare}
            <4>1. S \in SUBSET Heights /\ T \in SUBSET S
                BY <3>2 DEF Inv, TypeOK
            <4>2. Cardinality(S) <= MAX_QUEUED_BLOCKS + MAX_UNFINISHED_JOBS + 1
                BY DEF Inv, TasksBounded
            <4>3. MAX_QUEUED_BLOCKS + MAX_UNFINISHED_JOBS + 1 \in Nat
                BY SyncAssumption
            <4> HIDE DEF S, T
            <4>4. Cardinality(T) <= MAX_QUEUED_BLOCKS + MAX_UNFINISHED_JOBS + 1
                BY <4>1, <4>2, <4>3, BoundKept
            <4> QED BY <4>4 DEF T
        <3> QED BY <3>1, <3>2
    <2> QED BY <2>1, <2>2 DEF TasksBounded
<1> QED BY <1>2, <1>3, <1>4, <1>5

\* A BLOCK message.
LEMMA OnBlockStep ==
    ASSUME Inv, NEW p \in Peers, NEW h \in Heights, NEW valid \in BOOLEAN,
           p \in Honest => valid, OnBlock(p, h, valid)
    PROVE  Inv'
<1>1. /\ asked' \in [Peers -> 0..MaxHeight]
      /\ UNCHANGED <<isRunning, target, latest, processing, applied, connected>>
    BY SyncAssumption DEF OnBlock, process, Inv, TypeOK
<1>2. CASE ~isRunning
    <2>1. UNCHANGED <<target, queues, process>>
        BY <1>2 DEF OnBlock
    <2>2. TypeOK'
        BY <1>1, <2>1 DEF Inv, TypeOK, BelowTarget, queues
    <2> QED BY <2>1, <2>2, QueuesUntouched
<1>3. CASE isRunning
    <2> DEFINE entry == [number |-> h, valid |-> valid, from |-> p]
    <2>1. /\ RemoveTask(h) /\ toComplete' = toComplete \ {h}
          /\ toProcess' = IF h \in Numbers(toProcess) THEN toProcess
                          ELSE toProcess \union {entry}
        BY <1>3 DEF OnBlock
    <2>2. entry \in Entries /\ entry.number = h /\ entry.from = p /\ entry.valid = valid
        BY DEF Entries
    <2> HIDE DEF entry
    <2>3. /\ toDownload' \in SUBSET Heights /\ toDownload \ {h} \subseteq toDownload'
          /\ latestQueuedTask' \in latestQueuedTask..MaxHeight
          /\ \A x \in (latestQueuedTask + 1)..latestQueuedTask' : HasBlock(x) \/ x \in toDownload'
          /\ \A x \in toDownload' :
               \/ x \in toDownload \ {h}
               \/ x > latestQueuedTask /\ x <= latestQueuedTask' /\ x < target /\ ~HasBlock(x)
          /\ toDownload' = toDownload \ {h} \/ Cardinality(toDownload') <= MAX_QUEUED_BLOCKS
          /\ toDownload' = {} => \/ latestQueuedTask' + 1 >= target
                                 \/ toDownload = {} /\ latestQueuedTask' = latestQueuedTask
        BY <2>1, Removing DEF Inv
    <2>4. /\ MaxHeight \in Nat /\ latest \in 0..MaxHeight /\ latestQueuedTask \in 0..MaxHeight
          /\ target \in 0..(MaxHeight + 1) /\ toComplete \in SUBSET Heights
          /\ toDownload \in SUBSET Heights
        BY SyncAssumption DEF Inv, TypeOK
    <2>5. TypeOK'
        <3>1. toProcess' \subseteq Entries
            BY <2>1, <2>2 DEF Inv, TypeOK
        <3>2. BelowTarget'
            BY <1>1, <2>1, <2>3, BelowKept
        <3> QED BY <1>1, <2>1, <2>3, <2>4, <3>1, <3>2 DEF Inv, TypeOK
    <2>6. NothingLost'
        <3>1. h \in Numbers(toProcess') /\ Numbers(toProcess) \subseteq Numbers(toProcess')
            BY <2>1, <2>2 DEF Numbers
        <3>2. ASSUME NEW x \in (latest + 1)..latestQueuedTask'
              PROVE  \/ HasBlock(x)
                     \/ x \in toDownload' \union toComplete' \union Numbers(toProcess')
                     \/ processing # NoBlock /\ processing.number = x
            <4>1. CASE x > latestQueuedTask
                <5>1. x \in (latestQueuedTask + 1)..latestQueuedTask'
                    BY <2>3, <2>4, <4>1
                <5> QED BY <2>3, <5>1
            <4>2. CASE x <= latestQueuedTask
                <5>1. x \in (latest + 1)..latestQueuedTask
                    BY <2>3, <2>4, <4>2
                <5>2. \/ HasBlock(x)
                      \/ x \in toDownload \union toComplete \union Numbers(toProcess)
                      \/ processing # NoBlock /\ processing.number = x
                    BY <5>1 DEF Inv, NothingLost
                <5> QED BY <2>1, <2>3, <3>1, <5>2
            <4> QED BY <2>3, <2>4, <4>1, <4>2
        <3> QED BY <1>1, <3>2 DEF NothingLost, HasBlock, Numbers
    <2>7. OnePlace'
        <3>1. ASSUME NEW x \in toDownload', x \in toComplete' PROVE FALSE
            <4>1. x \in toComplete /\ x # h /\ x \in Nat
                BY <2>1, <2>4, <3>1 DEF Heights
            <4>2. x \notin toDownload
                BY <4>1 DEF Inv, OnePlace
            <4>3. x > latestQueuedTask /\ x < target /\ ~HasBlock(x)
                BY <2>3, <4>2
            <4>4. latest + 1 < target
                BY <2>4, <4>1, <4>3, <1>3 DEF HasBlock, Inv, Fresh, Queued
            <4>5. x <= latestQueuedTask
                BY <4>1, <4>4 DEF Inv, Queued
            <4> QED BY <2>4, <4>1, <4>3, <4>5
        <3>2. \A e, f \in toProcess' : e.number = f.number => e = f
            BY <2>1, <2>2 DEF Inv, OnePlace, Numbers
        <3> QED BY <3>1, <3>2 DEF OnePlace
    <2>8. HonestValid'
        BY <1>1, <2>1, <2>2 DEF Inv, HonestValid
    <2>9. Busy' /\ Fresh' /\ Queued' /\ TasksBounded'
        <3>1. toComplete' \in SUBSET Heights /\ Cardinality(toComplete') <= MAX_UNFINISHED_JOBS + 1
            <4>1. toComplete' \in SUBSET toComplete
                BY <2>1
            <4>2. Cardinality(toComplete) <= MAX_UNFINISHED_JOBS + 1
                  /\ MAX_UNFINISHED_JOBS + 1 \in Nat
                BY SyncAssumption DEF Inv, TasksBounded
            <4> QED BY <2>4, <4>1, <4>2, BoundKept
        <3>2. \A x \in toDownload' \union toComplete' :
                 \/ x \in toDownload \union toComplete
                 \/ x > latestQueuedTask /\ x <= latestQueuedTask' /\ x < target /\ ~HasBlock(x)
            BY <2>1, <2>3
        <3>3. \/ (toDownload' \union toComplete') \ {Spare}
                    \subseteq (toDownload \union toComplete) \ {Spare}
              \/ Cardinality(toDownload') <= MAX_QUEUED_BLOCKS
            BY <2>1, <2>3
        <3> QED BY <1>1, <2>3, <3>1, <3>2, <3>3, Refilled
    <2> QED BY <2>5, <2>6, <2>7, <2>8, <2>9 DEF Inv
<1> QED BY <1>2, <1>3

\* A height that is added to the queue was not in download.
LEMMA AddedIsNew ==
    ASSUME Inv, NEW x \in toDownload \union toComplete, x > latestQueuedTask, x < target,
           ~HasBlock(x)
    PROVE  FALSE
<1>1. /\ MaxHeight \in Nat /\ latest \in 0..MaxHeight /\ latestQueuedTask \in 0..MaxHeight
      /\ target \in 0..(MaxHeight + 1) /\ x \in Nat
    BY SyncAssumption DEF Inv, TypeOK, Heights
<1>2. latest + 1 < target
    BY <1>1 DEF HasBlock
<1>3. x <= latestQueuedTask
    BY <1>2 DEF Inv, Queued
<1> QED BY <1>1, <1>3

\* download() requests a block.
LEMMA DownloadStep ==
    ASSUME Inv, NEW E \in SUBSET toComplete, NEW p \in Peers, Download(E, p)
    PROVE  Inv'
<1> DEFINE D == toDownload \union E
           t == First(D)
<1>1. /\ MaxHeight \in Nat /\ latest \in 0..MaxHeight /\ latestQueuedTask \in 0..MaxHeight
      /\ target \in 0..(MaxHeight + 1) /\ toComplete \in SUBSET Heights
      /\ toDownload \in SUBSET Heights /\ MAX_UNFINISHED_JOBS \in Nat
    BY SyncAssumption DEF Inv, TypeOK
<1>2. /\ D # {} /\ ~TooManyUnfinished(toComplete \ E)
      /\ asked' = [asked EXCEPT ![p] = t]
      /\ Grow(D \ {t}, latestQueuedTask, target)
      /\ toComplete' = (toComplete \ E) \union {t}
      /\ UNCHANGED <<isRunning, target, toProcess, latest, processing, applied, connected>>
    BY DEF Download, MayRequest, process
<1>3. D \in SUBSET Heights
    BY <1>1
<1>4. t \in D
    BY <1>2, <1>3, FirstIsFirst
<1> HIDE DEF D, t
<1>5. /\ toDownload' \in SUBSET Heights /\ D \ {t} \subseteq toDownload'
      /\ latestQueuedTask' \in latestQueuedTask..MaxHeight
      /\ \A x \in (latestQueuedTask + 1)..latestQueuedTask' : HasBlock(x) \/ x \in toDownload'
      /\ \A x \in toDownload' \ (D \ {t}) :
            x > latestQueuedTask /\ x <= latestQueuedTask' /\ x < target /\ ~HasBlock(x)
      /\ toDownload' = D \ {t} \/ Cardinality(toDownload') <= MAX_QUEUED_BLOCKS
      /\ toDownload' = {} => latestQueuedTask' + 1 >= target
    <2>1. D \ {t} \in SUBSET Heights
        BY <1>3
    <2> QED BY <1>1, <1>2, <2>1, Growing DEF Inv
<1>6. D \union toComplete = toDownload \union toComplete /\ t \in Heights /\ E \subseteq toComplete
    BY <1>3, <1>4 DEF D
<1>7. TypeOK'
    <2>1. t \in 0..MaxHeight
        BY <1>1, <1>6 DEF Heights
    <2>2. BelowTarget'
        BY <1>2, <1>4, <1>5, <1>6, BelowKept
    <2> QED BY <1>1, <1>2, <1>5, <1>6, <2>1, <2>2 DEF Inv, TypeOK
<1>8. NothingLost'
    <2>1. ASSUME NEW x \in (latest + 1)..latestQueuedTask'
          PROVE  \/ HasBlock(x)
                 \/ x \in toDownload' \union toComplete' \union Numbers(toProcess)
                 \/ processing # NoBlock /\ processing.number = x
        <3>1. CASE x > latestQueuedTask
            <4>1. x \in (latestQueuedTask + 1)..latestQueuedTask'
                BY <1>1, <1>5, <3>1
            <4> QED BY <1>5, <4>1
        <3>2. CASE x <= latestQueuedTask
            <4>1. x \in (latest + 1)..latestQueuedTask
                BY <1>1, <1>5, <3>2
            <4>2. \/ HasBlock(x)
                  \/ x \in toDownload \union toComplete \union Numbers(toProcess)
                  \/ processing # NoBlock /\ processing.number = x
                BY <4>1 DEF Inv, NothingLost
            <4> QED BY <1>2, <1>5, <4>2 DEF D
        <3> QED BY <1>1, <1>5, <3>1, <3>2
    <2> QED BY <1>2, <2>1 DEF NothingLost, HasBlock, Numbers
<1>9. OnePlace'
    <2>1. ASSUME NEW x \in toDownload', x \in toComplete' PROVE FALSE
        <3>1. x \in toDownload \union toComplete
            BY <1>2, <1>4, <1>6, <2>1
        <3>2. CASE x \in D \ {t}
            BY <1>2, <2>1, <3>2 DEF D, Inv, OnePlace
        <3>3. CASE x \notin D \ {t}
            BY <1>5, <3>1, <3>3, AddedIsNew
        <3> QED BY <3>2, <3>3
    <2> QED BY <1>2, <2>1 DEF OnePlace, Inv
<1>10. HonestValid'
    BY <1>2 DEF Inv, HonestValid
<1>11. Busy' /\ Fresh' /\ Queued' /\ TasksBounded'
    <2>1. toComplete' \in SUBSET Heights
        BY <1>1, <1>2, <1>6
    <2>2. Cardinality(toComplete') <= MAX_UNFINISHED_JOBS + 1
        <3>1. toComplete \ E \in SUBSET Heights
            BY <1>1
        <3>2. IsFiniteSet(toComplete \ E) /\ Cardinality(toComplete \ E) \in Nat
            BY <3>1, SetsFinite
        <3>3. Cardinality(toComplete \ E) <= MAX_UNFINISHED_JOBS
            BY <1>1, <1>2, <3>2 DEF TooManyUnfinished
        <3>4. Cardinality(toComplete') <= Cardinality(toComplete \ E) + 1
            <4> DEFINE C == toComplete \ E
            <4>1. IsFiniteSet(C) /\ Cardinality(C) \in Nat /\ toComplete' = C \union {t}
                BY <1>2, <3>2
            <4> HIDE DEF C
            <4>2. Cardinality(C \union {t}) = IF t \in C THEN Cardinality(C) ELSE Cardinality(C) + 1
                BY <4>1, FS_AddElement
            <4>3. Cardinality(C \union {t}) <= Cardinality(C) + 1
                BY <4>1, <4>2
            <4> QED BY <4>1, <4>3 DEF C
        <3>5. Cardinality(toComplete') \in Nat
            BY <2>1, SetsFinite
        <3> QED BY <1>1, <3>2, <3>3, <3>4, <3>5
    <2>3. \A x \in toDownload' \union toComplete' :
             \/ x \in toDownload \union toComplete
             \/ x > latestQueuedTask /\ x <= latestQueuedTask' /\ x < target /\ ~HasBlock(x)
        BY <1>2, <1>4, <1>5, <1>6
    <2>4. \/ (toDownload' \union toComplete') \ {Spare}
                \subseteq (toDownload \union toComplete) \ {Spare}
          \/ Cardinality(toDownload') <= MAX_QUEUED_BLOCKS
        BY <1>2, <1>4, <1>5, <1>6
    <2> QED BY <1>2, <1>5, <2>1, <2>2, <2>3, <2>4, Refilled
<1> QED BY <1>7, <1>8, <1>9, <1>10, <1>11 DEF Inv

\* download() requeues what has expired and requests nothing.
LEMMA DownloadQuitsStep ==
    ASSUME Inv, NEW E \in SUBSET toComplete, DownloadQuits(E)
    PROVE  Inv'
<1>1. /\ MaxHeight \in Nat /\ latestQueuedTask \in 0..MaxHeight /\ toComplete \in SUBSET Heights
      /\ toDownload \in SUBSET Heights /\ MAX_UNFINISHED_JOBS + 1 \in Nat
    BY SyncAssumption DEF Inv, TypeOK
<1>2. /\ toDownload' = toDownload \union E /\ toComplete' = toComplete \ E
      /\ UNCHANGED <<isRunning, target, latestQueuedTask, toProcess, latest, processing,
                     applied, connected, asked>>
    BY DEF DownloadQuits, process
<1>3. TypeOK'
    <2>1. BelowTarget'
        BY <1>2, BelowKept
    <2> QED BY <1>1, <1>2, <2>1 DEF Inv, TypeOK
<1>4. NothingLost'
    BY <1>2 DEF Inv, NothingLost, HasBlock, Numbers
<1>5. OnePlace'
    BY <1>2 DEF Inv, OnePlace
<1>6. HonestValid'
    BY <1>2 DEF Inv, HonestValid
<1>7. Busy' /\ Fresh' /\ Queued' /\ TasksBounded'
    <2>1. toComplete' \in SUBSET Heights /\ toDownload' \in SUBSET Heights
        BY <1>1, <1>2
    <2>2. Cardinality(toComplete') <= MAX_UNFINISHED_JOBS + 1
        <3>1. toComplete' \in SUBSET toComplete /\ Cardinality(toComplete) <= MAX_UNFINISHED_JOBS + 1
            BY <1>2 DEF Inv, TasksBounded
        <3> QED BY <1>1, <3>1, BoundKept
    <2>3. toDownload' \union toComplete' = toDownload \union toComplete
        BY <1>2
    <2>4. latestQueuedTask' \in latestQueuedTask..MaxHeight
        BY <1>1, <1>2
    <2>5. toDownload' = {} => toDownload = {} /\ latestQueuedTask' = latestQueuedTask
        BY <1>2
    <2> QED BY <1>2, <2>1, <2>2, <2>3, <2>4, <2>5, Refilled
<1> QED BY <1>3, <1>4, <1>5, <1>6, <1>7 DEF Inv

\* start() clears the queues and fills the first.
LEMMA StartStep ==
    ASSUME Inv, NEW t \in 1..(MaxHeight + 1), Start(t)
    PROVE  Inv'
<1>1. /\ MaxHeight \in Nat /\ latest \in 0..MaxHeight /\ t \in 0..(MaxHeight + 1)
      /\ MAX_UNFINISHED_JOBS \in Nat /\ MAX_QUEUED_BLOCKS \in Nat
    BY SyncAssumption DEF Inv, TypeOK
<1>2. /\ isRunning' = TRUE /\ target' = t /\ toComplete' = {} /\ toProcess' = {}
      /\ Grow({}, latest, t)
      /\ UNCHANGED <<latest, processing, applied, connected, asked>>
    BY DEF Start, process
<1>3. /\ toDownload' \in SUBSET Heights
      /\ latestQueuedTask' \in latest..MaxHeight
      /\ \A x \in (latest + 1)..latestQueuedTask' : HasBlock(x) \/ x \in toDownload'
      /\ \A x \in toDownload' : x > latest /\ x <= latestQueuedTask' /\ x < t /\ ~HasBlock(x)
      /\ toDownload' = {} \/ Cardinality(toDownload') <= MAX_QUEUED_BLOCKS
      /\ toDownload' = {} => latestQueuedTask' + 1 >= t
    <2>1. {} \in SUBSET Heights
        OBVIOUS
    <2> QED BY <1>1, <1>2, <2>1, Growing DEF Inv
<1>4. TypeOK'
    <2>1. BelowTarget'
        BY <1>2, <1>3 DEF BelowTarget
    <2> QED BY <1>1, <1>2, <1>3, <2>1 DEF Inv, TypeOK
<1>5. NothingLost'
    BY <1>2, <1>3 DEF NothingLost, HasBlock, Numbers
<1>6. OnePlace' /\ HonestValid' /\ Busy'
    BY <1>2 DEF Inv, OnePlace, HonestValid, Busy
<1>7. Fresh'
    BY <1>2, <1>3 DEF Fresh
<1>8. Queued'
    <2>1. latest + 1 < t => latest + 1 <= latestQueuedTask'
        <3> SUFFICES ASSUME latest + 1 < t, latestQueuedTask' = latest PROVE FALSE
            BY <1>1, <1>3
        <3>1. toDownload' = {}
            BY <1>1, <1>3 DEF Heights
        <3> QED BY <1>1, <1>3, <3>1
    <2> QED BY <1>2, <1>3, <2>1 DEF Queued
<1>9. TasksBounded'
    <2>1. Cardinality({}) = 0
        BY FS_EmptySet
    <2>2. Cardinality(toComplete') <= MAX_UNFINISHED_JOBS + 1
          /\ Cardinality(toDownload') <= MAX_QUEUED_BLOCKS /\ toComplete' \in SUBSET Heights
        <3>1. Cardinality(toComplete') = 0
            BY <1>2, <2>1
        <3>2. toDownload' = {} => Cardinality(toDownload') = 0
            BY <2>1
        <3> QED BY <1>1, <1>2, <1>3, <3>1, <3>2
    <2>3. Cardinality((toDownload' \union toComplete') \ {Spare'})
            <= MAX_QUEUED_BLOCKS + MAX_UNFINISHED_JOBS + 1
        BY <1>3, <2>2, BoundRefilled
    <2> QED BY <2>2, <2>3 DEF TasksBounded
<1> QED BY <1>4, <1>5, <1>6, <1>7, <1>8, <1>9 DEF Inv

\* process() takes the next block.
LEMMA TakeStep == Inv /\ Take => Inv'
<1> SUFFICES ASSUME Inv, Take PROVE Inv'
    OBVIOUS
<1> DEFINE due == {e \in toProcess : e.number = latest + 1}
<1>1. /\ processing = NoBlock /\ latest + 1 < target
      /\ toProcess' = {e \in toProcess : e.number > latest + 1}
      /\ processing' \in IF due = {} THEN {NoBlock} ELSE due
      /\ UNCHANGED <<isRunning, target, latestQueuedTask, toDownload, toComplete,
                     latest, applied, connected, asked>>
    BY DEF Take
<1>2. /\ ~applied /\ toProcess \subseteq Entries /\ MaxHeight \in Nat /\ latest \in 0..MaxHeight
      /\ latestQueuedTask \in 0..MaxHeight
    BY <1>1, SyncAssumption DEF Inv, Busy, TypeOK
<1>3. processing' # NoBlock => processing' \in due
    BY <1>1
<1>4. due # {} => processing' \in due /\ processing' # NoBlock
    BY <1>1, <1>2, NoBlockAssumption
<1>5. TypeOK'
    <2>1. BelowTarget'
        BY <1>1, BelowKept
    <2> QED BY <1>1, <1>2, <1>3, <2>1 DEF Inv, TypeOK
<1>6. NothingLost'
    <2>1. ASSUME NEW x \in (latest + 1)..latestQueuedTask
          PROVE  \/ HasBlock(x)
                 \/ x \in toDownload \union toComplete \union Numbers(toProcess')
                 \/ processing' # NoBlock /\ processing'.number = x
        <3>1. HasBlock(x) \/ x \in toDownload \union toComplete \union Numbers(toProcess)
            BY <1>1 DEF Inv, NothingLost
        <3>2. ASSUME NEW e \in toProcess, e.number = x
              PROVE  \/ x \in Numbers(toProcess')
                     \/ processing' # NoBlock /\ processing'.number = x
            <4>1. x \in Int /\ x >= latest + 1
                BY <1>2
            <4>2. CASE x = latest + 1
                BY <1>4, <3>2, <4>2
            <4>3. CASE x # latest + 1
                <5>1. e \in toProcess'
                    BY <1>1, <1>2, <3>2, <4>1, <4>3
                <5>2. e.number \in Numbers(toProcess')
                    BY <5>1 DEF Numbers
                <5> QED BY <3>2, <5>2
            <4> QED BY <4>2, <4>3
        <3> QED BY <3>1, <3>2 DEF Numbers
    <2> QED BY <1>1, <2>1 DEF NothingLost, HasBlock, Numbers
<1>7. OnePlace'
    BY <1>1 DEF Inv, OnePlace
<1>8. Busy' /\ HonestValid'
    BY <1>1, <1>2, <1>3 DEF Inv, Busy, HonestValid
<1>9. Fresh' /\ Queued' /\ TasksBounded'
    BY <1>1 DEF Inv, Fresh, Queued, TasksBounded, Spare
<1> QED BY <1>5, <1>6, <1>7, <1>8, <1>9 DEF Inv

\* The block is applied.
LEMMA ApplyStep == Inv /\ Apply => Inv'
<1> SUFFICES ASSUME Inv, Apply PROVE Inv'
    OBVIOUS
<1>1. /\ processing # NoBlock /\ ~applied /\ processing.number = latest + 1
      /\ latest' = latest + 1 /\ applied' = TRUE
      /\ UNCHANGED <<isRunning, target, latestQueuedTask, toDownload, toComplete, toProcess,
                     processing, connected, asked>>
    BY DEF Apply, queues
<1>2. /\ MaxHeight \in Nat /\ latest \in 0..MaxHeight /\ latest + 1 \in 0..MaxHeight
      /\ latestQueuedTask \in 0..MaxHeight /\ target \in 0..(MaxHeight + 1)
      /\ toDownload \in SUBSET Heights /\ toComplete \in SUBSET Heights
    <2>1. processing \in Entries
        BY <1>1 DEF Inv, TypeOK
    <2>2. processing.number \in Heights
        BY <2>1 DEF Entries
    <2> QED BY <1>1, <2>2, SyncAssumption DEF Inv, TypeOK, Heights
<1>3. TypeOK'
    <2>1. BelowTarget'
        <3>1. \A x \in toDownload \union toComplete : x < target \/ x <= latest + 1
            BY DEF Inv, TypeOK, BelowTarget
        <3> QED BY <1>1, <1>2, <3>1 DEF BelowTarget, Heights
    <2> QED BY <1>1, <1>2, <2>1 DEF Inv, TypeOK
<1>4. NothingLost'
    <2>1. ASSUME NEW x \in (latest + 1 + 1)..latestQueuedTask
          PROVE  \/ HasBlock(x)
                 \/ x \in toDownload \union toComplete \union Numbers(toProcess)
                 \/ processing # NoBlock /\ processing.number = x
        <3>1. x \in (latest + 1)..latestQueuedTask
            BY <1>2
        <3> QED BY <3>1 DEF Inv, NothingLost
    <2>2. \A x \in Int : HasBlock(x) => HasBlock(x)'
        BY <1>1, <1>2 DEF HasBlock
    <2> QED BY <1>1, <1>2, <2>1, <2>2 DEF NothingLost, Numbers
<1>5. OnePlace' /\ HonestValid' /\ Busy'
    BY <1>1 DEF Inv, OnePlace, HonestValid, Busy
<1>6. Fresh'
    BY <1>1, <1>2 DEF Inv, Fresh, Heights
<1>7. Queued'
    BY <1>1, <1>2 DEF Inv, Queued
<1>8. TasksBounded'
    <2>1. Spare = latest + 1 /\ Spare' = latest + 1
        BY <1>1 DEF Spare
    <2> QED BY <1>1, <2>1 DEF Inv, TasksBounded
<1> QED BY <1>3, <1>4, <1>5, <1>6, <1>7, <1>8 DEF Inv

LEMMA PastTheTarget ==
    ASSUME NEW q \in Nat, NEW h \in Nat, NEW t \in Nat, q + 1 >= t, h + 1 < t
    PROVE  ~(q <= h)
OBVIOUS

\* The applied block's task is dropped.
LEMMA ForgetAppliedStep == Inv /\ ForgetApplied => Inv'
<1> SUFFICES ASSUME Inv, ForgetApplied PROVE Inv'
    OBVIOUS
<1>1. /\ applied /\ RemoveTask(processing.number)
      /\ toComplete' = toComplete \ {processing.number}
      /\ processing' = NoBlock /\ applied' = FALSE
      /\ UNCHANGED <<isRunning, target, toProcess, latest, connected, asked>>
    BY DEF ForgetApplied
<1>2. processing # NoBlock /\ processing.number = latest
    BY <1>1 DEF Inv, Busy
<1>3. /\ MaxHeight \in Nat /\ latest \in 0..MaxHeight /\ latestQueuedTask \in 0..MaxHeight
      /\ target \in 0..(MaxHeight + 1) /\ toComplete \in SUBSET Heights
      /\ toDownload \in SUBSET Heights /\ MAX_UNFINISHED_JOBS + 1 \in Nat
      /\ MAX_QUEUED_BLOCKS + MAX_UNFINISHED_JOBS + 1 \in Nat
    BY SyncAssumption DEF Inv, TypeOK
<1>4. latest \in Heights
    <2>1. processing \in Entries
        BY <1>2 DEF Inv, TypeOK
    <2> QED BY <1>2, <2>1 DEF Entries
<1>5. /\ toDownload' \in SUBSET Heights /\ toDownload \ {latest} \subseteq toDownload'
      /\ latestQueuedTask' \in latestQueuedTask..MaxHeight
      /\ \A x \in (latestQueuedTask + 1)..latestQueuedTask' : HasBlock(x) \/ x \in toDownload'
      /\ \A x \in toDownload' :
           \/ x \in toDownload \ {latest}
           \/ x > latestQueuedTask /\ x <= latestQueuedTask' /\ x < target /\ ~HasBlock(x)
      /\ toDownload' = toDownload \ {latest} \/ Cardinality(toDownload') <= MAX_QUEUED_BLOCKS
      /\ toDownload' = {} => \/ latestQueuedTask' + 1 >= target
                             \/ toDownload = {} /\ latestQueuedTask' = latestQueuedTask
    BY <1>1, <1>2, <1>4, Removing DEF Inv
<1>6. TypeOK'
    <2>1. toComplete' \in SUBSET Heights /\ latestQueuedTask' \in 0..MaxHeight
        BY <1>1, <1>3, <1>5
    <2>2. BelowTarget'
        BY <1>1, <1>2, <1>5, BelowKept
    <2> QED BY <1>1, <1>5, <2>1, <2>2 DEF Inv, TypeOK
<1>7. NothingLost'
    <2>1. ASSUME NEW x \in (latest + 1)..latestQueuedTask'
          PROVE  HasBlock(x) \/ x \in toDownload' \union toComplete' \union Numbers(toProcess)
        <3>1. CASE x > latestQueuedTask
            <4>1. x \in (latestQueuedTask + 1)..latestQueuedTask'
                BY <1>3, <1>5, <3>1
            <4> QED BY <1>5, <4>1
        <3>2. CASE x <= latestQueuedTask
            <4>1. x \in (latest + 1)..latestQueuedTask /\ x # latest
                BY <1>3, <1>5, <3>2
            <4>2. HasBlock(x) \/ x \in toDownload \union toComplete \union Numbers(toProcess)
                BY <1>2, <4>1 DEF Inv, NothingLost
            <4> QED BY <1>1, <1>2, <1>5, <4>1, <4>2
        <3> QED BY <1>3, <1>5, <3>1, <3>2
    <2> QED BY <1>1, <2>1 DEF NothingLost, HasBlock, Numbers
<1>8. OnePlace'
    <2>1. ASSUME NEW x \in toDownload', x \in toComplete' PROVE FALSE
        <3>1. x \in toComplete /\ x \notin toDownload
            BY <1>1, <2>1 DEF Inv, OnePlace
        <3> QED BY <1>5, <2>1, <3>1, AddedIsNew
    <2> QED BY <1>1, <2>1 DEF OnePlace, Inv
<1>9. Busy' /\ HonestValid'
    BY <1>1 DEF Inv, Busy, HonestValid
<1>10. \A x \in toDownload' \union toComplete' : x > latest
    <2>1. \A x \in (toDownload \union toComplete) \ {latest} : x > latest
        BY DEF Inv, Fresh
    <2>2. \A x \in toDownload' : ~HasBlock(x) => x > latest
        BY <1>3, <1>5 DEF HasBlock, Heights
    <2> QED BY <1>1, <1>2, <1>5, <2>1, <2>2
<1>11. Fresh'
    BY <1>1, <1>10 DEF Fresh
<1>12. Queued'
    <2>1. toDownload' = {} => latestQueuedTask' + 1 >= target
        BY <1>5 DEF Inv, Queued
    <2>2. ASSUME latest + 1 < target, NEW x \in toDownload' \union toComplete'
          PROVE  x <= latestQueuedTask'
        <3>1. CASE x \in toDownload \union toComplete
            <4>1. x <= latestQueuedTask /\ x \in Nat
                BY <1>3, <2>2, <3>1 DEF Inv, Queued, Heights
            <4> QED BY <1>3, <1>5, <4>1
        <3> QED BY <1>1, <1>5, <2>2, <3>1
    <2>3. latest + 1 < target => latest + 1 <= latestQueuedTask'
        <3> SUFFICES ASSUME latest + 1 < target PROVE latest + 1 <= latestQueuedTask'
            OBVIOUS
        <3>0. latestQueuedTask' \in Nat /\ latest \in Nat /\ target \in Nat
            BY <1>3, <1>5
        <3> SUFFICES ASSUME latestQueuedTask' <= latest PROVE FALSE
            BY <3>0
        <3>1. \A x \in toDownload' : x > latest /\ x <= latestQueuedTask' /\ x \in Nat
            BY <1>5, <1>10, <2>2 DEF Heights
        <3>2. toDownload' = {}
            BY <1>3, <1>5, <3>1
        <3>3. latestQueuedTask' + 1 >= target
            BY <2>1, <3>2
        <3> QED BY <3>0, <3>3, PastTheTarget
    <2> QED BY <1>1, <2>1, <2>2, <2>3 DEF Queued
<1>13. TasksBounded'
    <2>1. Spare = latest /\ Spare' = latest + 1
        BY <1>1 DEF Spare
    <2>2. Cardinality(toComplete') <= MAX_UNFINISHED_JOBS + 1 /\ toComplete' \in SUBSET Heights
        <3>1. toComplete' \in SUBSET toComplete /\ Cardinality(toComplete) <= MAX_UNFINISHED_JOBS + 1
            BY <1>1 DEF Inv, TasksBounded
        <3> QED BY <1>3, <3>1, BoundKept
    <2>3. Cardinality((toDownload' \union toComplete') \ {latest + 1})
            <= MAX_QUEUED_BLOCKS + MAX_UNFINISHED_JOBS + 1
        <3>1. CASE Cardinality(toDownload') <= MAX_QUEUED_BLOCKS
            BY <1>5, <2>2, <3>1, BoundRefilled
        <3>2. CASE toDownload' = toDownload \ {latest}
            <4> DEFINE S == (toDownload \union toComplete) \ {latest}
                       T == (toDownload' \union toComplete') \ {latest + 1}
            <4>1. S \in SUBSET Heights /\ T \in SUBSET S
                BY <1>1, <1>2, <1>3, <3>2
            <4>2. Cardinality(S) <= MAX_QUEUED_BLOCKS + MAX_UNFINISHED_JOBS + 1
                BY <2>1 DEF Inv, TasksBounded
            <4> HIDE DEF S, T
            <4>3. Cardinality(T) <= MAX_QUEUED_BLOCKS + MAX_UNFINISHED_JOBS + 1
                BY <1>3, <4>1, <4>2, BoundKept
            <4> QED BY <4>3 DEF T
        <3> QED BY <1>5, <3>1, <3>2
    <2> QED BY <2>1, <2>2, <2>3 DEF TasksBounded
<1> QED BY <1>6, <1>7, <1>8, <1>9, <1>11, <1>12, <1>13 DEF Inv

\* The block is invalid; its height is queued again.
LEMMA RejectInvalidStep == Inv /\ RejectInvalid => Inv'
<1> SUFFICES ASSUME Inv, RejectInvalid PROVE Inv'
    OBVIOUS
<1> DEFINE n == processing.number
<1>1. /\ processing # NoBlock /\ ~applied
      /\ toDownload' = toDownload \union {n} /\ toComplete' = toComplete \ {n}
      /\ processing' = NoBlock
      /\ connected' = connected \ {processing.from}
      /\ asked' = [asked EXCEPT ![processing.from] = 0]
      /\ UNCHANGED <<isRunning, target, latestQueuedTask, toProcess, latest, applied>>
    BY DEF RejectInvalid
<1>2. n = latest + 1 /\ n \in Heights
    <2>1. processing \in Entries
        BY <1>1 DEF Inv, TypeOK
    <2> QED BY <1>1, <2>1 DEF Inv, Busy, Entries
<1>3. /\ MaxHeight \in Nat /\ latest \in 0..MaxHeight
      /\ toComplete \in SUBSET Heights /\ toDownload \in SUBSET Heights
      /\ MAX_UNFINISHED_JOBS + 1 \in Nat /\ MAX_QUEUED_BLOCKS + MAX_UNFINISHED_JOBS + 1 \in Nat
    BY SyncAssumption DEF Inv, TypeOK
<1> HIDE DEF n
<1>4. TypeOK'
    <2>1. asked' \in [Peers -> 0..MaxHeight]
        <3>1. asked \in [Peers -> 0..MaxHeight] /\ 0 \in 0..MaxHeight
            BY <1>3 DEF Inv, TypeOK
        <3> QED BY <1>1, <3>1
    <2>2. BelowTarget'
        <3>1. \A x \in toDownload \union toComplete : x < target \/ x <= latest + 1
            BY DEF Inv, TypeOK, BelowTarget
        <3>2. n <= latest + 1
            BY <1>2, <1>3
        <3> QED BY <1>1, <3>1, <3>2 DEF BelowTarget
    <2> QED BY <1>1, <1>2, <1>3, <2>1, <2>2 DEF Inv, TypeOK
<1>5. NothingLost'
    <2>1. ASSUME NEW x \in (latest + 1)..latestQueuedTask
          PROVE  HasBlock(x) \/ x \in toDownload' \union toComplete' \union Numbers(toProcess)
        <3>1. \/ HasBlock(x)
              \/ x \in toDownload \union toComplete \union Numbers(toProcess)
              \/ n = x
            BY DEF Inv, NothingLost, n
        <3> QED BY <1>1, <3>1
    <2> QED BY <1>1, <2>1 DEF NothingLost, HasBlock, Numbers
<1>6. OnePlace'
    BY <1>1 DEF Inv, OnePlace
<1>7. Busy' /\ HonestValid'
    BY <1>1 DEF Inv, Busy, HonestValid
<1>8. Fresh'
    BY <1>1, <1>2, <1>3 DEF Inv, Fresh
<1>9. Queued'
    BY <1>1, <1>2 DEF Inv, Queued
<1>10. TasksBounded'
    <2>1. Spare = n /\ Spare' = n
        BY <1>1, <1>2 DEF Spare
    <2>2. Cardinality(toComplete') <= MAX_UNFINISHED_JOBS + 1
        <3>1. toComplete' \in SUBSET toComplete /\ Cardinality(toComplete) <= MAX_UNFINISHED_JOBS + 1
            BY <1>1 DEF Inv, TasksBounded
        <3> QED BY <1>3, <3>1, BoundKept
    <2> DEFINE S == (toDownload \union toComplete) \ {n}
               T == (toDownload' \union toComplete') \ {n}
    <2>3. S \in SUBSET Heights /\ T \in SUBSET S
        BY <1>1, <1>3
    <2>4. Cardinality(S) <= MAX_QUEUED_BLOCKS + MAX_UNFINISHED_JOBS + 1
        BY <2>1 DEF Inv, TasksBounded
    <2> HIDE DEF S, T
    <2>5. Cardinality(T) <= MAX_QUEUED_BLOCKS + MAX_UNFINISHED_JOBS + 1
        BY <1>3, <2>3, <2>4, BoundKept
    <2> QED BY <2>1, <2>2, <2>5 DEF T, TasksBounded
<1> QED BY <1>4, <1>5, <1>6, <1>7, <1>8, <1>9, <1>10 DEF Inv

----------------------------------------------------------------------------
LEMMA InitInv == Init => Inv
<1> SUFFICES ASSUME Init PROVE Inv
    OBVIOUS
<1>1. TypeOK
    <2>1. 0 \in 0..MaxHeight /\ 0 \in 0..(MaxHeight + 1)
        BY SyncAssumption
    <2>2. asked \in [Peers -> 0..MaxHeight]
        BY <2>1 DEF Init
    <2> QED BY <2>1, <2>2 DEF Init, TypeOK, BelowTarget
<1>2. NothingLost /\ OnePlace /\ HonestValid
    BY DEF Init, NothingLost, OnePlace, HonestValid
<1>3. Busy /\ Fresh /\ Queued
    BY DEF Init, Busy, Fresh, Queued
<1>4. TasksBounded
    <2>1. Cardinality({}) = 0 /\ ({} \union {}) \ {Spare} = {}
        BY FS_EmptySet
    <2> QED BY <2>1, SyncAssumption DEF Init, TasksBounded
<1> QED BY <1>1, <1>2, <1>3, <1>4 DEF Inv

LEMMA NextInv == Inv /\ [Next]_vars => Inv'
<1> SUFFICES ASSUME Inv, [Next]_vars PROVE Inv'
    OBVIOUS
<1>1. ASSUME NEW t \in 1..(MaxHeight + 1), Start(t) PROVE Inv'
    BY <1>1, StartStep
<1>2. CASE Stop \/ TargetReached
    <2>1. UNCHANGED <<target, queues, process>> /\ TypeOK'
        BY <1>2 DEF Stop, TargetReached, Inv, TypeOK, BelowTarget, queues, process
    <2> QED BY <2>1, QueuesUntouched
<1>3. ASSUME NEW p \in Peers, Answer(p) PROVE Inv'
    <2>1. asked[p] \in Heights
        BY <1>3, SyncAssumption DEF Answer, Inv, TypeOK, Heights
    <2> QED BY <1>3, <2>1, OnBlockStep DEF Answer
<1>4. ASSUME NEW p \in Peers, Disconnect(p) \/ Connect(p) PROVE Inv'
    <2>1. UNCHANGED <<target, queues, process>>
        BY <1>4 DEF Disconnect, Connect
    <2>2. asked' \in [Peers -> 0..MaxHeight] /\ connected' \subseteq Peers /\ isRunning' = isRunning
        BY <1>4, SyncAssumption DEF Disconnect, Connect, Inv, TypeOK
    <2>3. TypeOK'
        BY <2>1, <2>2 DEF Inv, TypeOK, BelowTarget, queues, process
    <2> QED BY <2>1, <2>3, QueuesUntouched
<1>5. ASSUME NEW p \in Peers, NEW h \in Heights, NEW valid \in BOOLEAN, FaultyBlock(p, h, valid)
      PROVE  Inv'
    BY <1>5, OnBlockStep DEF FaultyBlock
<1>6. ASSUME NEW E \in SUBSET toComplete, DownloadQuits(E) PROVE Inv'
    BY <1>6, DownloadQuitsStep
<1>7. ASSUME NEW E \in SUBSET toComplete, NEW p \in Peers, Download(E, p) PROVE Inv'
    BY <1>7, DownloadStep
<1>8. CASE Take \/ Apply \/ ForgetApplied \/ RejectInvalid
    BY <1>8, TakeStep, ApplyStep, ForgetAppliedStep, RejectInvalidStep
<1>9. CASE UNCHANGED vars
    <2>1. UNCHANGED <<target, queues, process>> /\ TypeOK'
        BY <1>9 DEF vars, Inv, TypeOK, BelowTarget, queues, process
    <2> QED BY <2>1, QueuesUntouched
<1> QED BY <1>1, <1>2, <1>3, <1>4, <1>5, <1>6, <1>7, <1>8, <1>9 DEF Next, Process

LEMMA SyncInv == Spec => []Inv
BY InitInv, NextInv, PTL DEF Spec

\* The variables of SemuxSync keep their types, every queued or requested height is one
\* of Heights, and none is at or above the target but for a next block queued again.
THEOREM SyncTypeOK == Spec => []TypeOK
<1>1. Inv => TypeOK
    BY DEF Inv
<1> QED BY <1>1, SyncInv, PTL

\* No height between the chain and the queue position of SemuxSync is ever lost,
\* for any peers, limits, expiries, bad blocks and restarts of the sync.
THEOREM SyncNothingLost == Spec => []NothingLost
<1>1. Inv => NothingLost
    BY DEF Inv
<1> QED BY <1>1, SyncInv, PTL

\* No height is both to download and in download in SemuxSync.
THEOREM SyncOnePlace == Spec => []OnePlace
<1>1. Inv => OnePlace
    BY DEF Inv
<1> QED BY <1>1, SyncInv, PTL

\* The limits of SemuxSync's download and completion queues hold.
THEOREM SyncQueuesBounded == Spec => []QueuesBounded
<1>1. Inv => QueuesBounded
    <2> SUFFICES ASSUME Inv PROVE QueuesBounded
        OBVIOUS
    <2> DEFINE S == (toDownload \union toComplete) \ {Spare}
    <2>1. S \in SUBSET Heights /\ toDownload \in SUBSET Heights
        BY DEF Inv, TypeOK
    <2>2. toDownload \in SUBSET (S \union {Spare})
        OBVIOUS
    <2>3. Cardinality(S) <= MAX_QUEUED_BLOCKS + MAX_UNFINISHED_JOBS + 1
        BY DEF Inv, TasksBounded
    <2> HIDE DEF S
    <2>4. IsFiniteSet(S) /\ Cardinality(S) \in Nat /\ Cardinality(toDownload) \in Nat
        BY <2>1, SetsFinite
    <2>5. /\ IsFiniteSet(S \union {Spare})
          /\ Cardinality(S \union {Spare}) = IF Spare \in S THEN Cardinality(S) ELSE Cardinality(S) + 1
        BY <2>4, FS_AddElement
    <2>6. Cardinality(toDownload) <= Cardinality(S \union {Spare})
        BY <2>2, <2>5, FS_Subset
    <2>7. Cardinality(toDownload) <= MAX_QUEUED_BLOCKS + MAX_UNFINISHED_JOBS + 2
        BY <2>3, <2>4, <2>5, <2>6, SyncAssumption
    <2> QED BY <2>7 DEF QueuesBounded, Inv, TasksBounded
<1> QED BY <1>1, SyncInv, PTL

\* process() never disconnects a peer that sends valid blocks: what it rejects was
\* the next block when it was taken, and still is.
THEOREM SyncHonestNeverBlamed == Spec => HonestNeverBlamed
<1>1. Inv => (RejectInvalid => processing.from \notin Honest)
    BY DEF Inv, RejectInvalid, Busy, HonestValid
<1>2. Inv /\ [Next]_vars => [RejectInvalid => processing.from \notin Honest]_vars
    BY <1>1
<1> QED BY <1>2, SyncInv, PTL DEF Spec, HonestNeverBlamed
====
