---- MODULE ForkActivation ----
(***************************************************************************)
(* A validator-activated fork on one node: blocks signal it in their       *)
(* headers, BlockchainImpl counts the signals of a window with a memory of *)
(* the previous count, records the activation, and answers whether the     *)
(* fork is active at a height; SemuxBft signals it until then.             *)
(***************************************************************************)
EXTENDS Integers, Sequences, FiniteSets

CONSTANTS ActivationBlocks,        \* signals needed
          ActivationBlocksLookup,  \* among so many blocks
          ActivationDeadline,      \* last block at which the fork can be activated
          Checkpoint,              \* height built into the configuration, or 0
          MaxHeight                \* bound: length of the chain

ASSUME ForkAssumption ==
    /\ ActivationBlocks \in Nat \ {0} /\ ActivationBlocksLookup \in Nat \ {0}
    /\ ActivationDeadline \in Nat /\ Checkpoint \in Nat /\ MaxHeight \in Nat

VARIABLES signals,        \* which blocks of the chain, from 1, signal the fork
          activatedAt,    \* activatedForks of the chain: a height, or 0
          stored,         \* the same, on disk
          memory,         \* forkActivationMemoryCache, by height
          engineHeight, engineActivated   \* height and activatedForks of SemuxBft

engine == <<engineHeight, engineActivated>>
vars == <<signals, activatedAt, stored, memory, engine>>

Latest == Len(signals)

Init ==
    /\ signals = <<>>
    /\ activatedAt = 0 /\ stored = 0
    /\ memory = [h \in {} |-> 0]
    /\ engineHeight = 0 /\ engineActivated = FALSE

----------------------------------------------------------------------------
\* forkActivated(height): the window is what signals below the height.
LowerBound(h) ==
    IF h - ActivationBlocksLookup >= 1 THEN h - ActivationBlocksLookup ELSE 1

Signal(i) == IF signals[i] THEN 1 ELSE 0

Count(h) == Cardinality({i \in LowerBound(h)..(h - 1) : signals[i]})

\* Mutants: the lowest block leaves a window that still grows; it never leaves.
SlideAlways(h) ==
    memory[h - 1].activatedBlocks
        - (IF memory[h - 1].lowerBoundActivated THEN 1 ELSE 0)
        + Signal(h - 1)
SlideNever(h) == memory[h - 1].activatedBlocks + Signal(h - 1)

\* The count of the previous height, moved by one block.
Slide(h) ==
    memory[h - 1].activatedBlocks
        - (IF memory[h - 1].lowerBoundActivated /\ LowerBound(h) > 1 THEN 1 ELSE 0)
        + Signal(h - 1)

ActivatedBlocks(h) ==
    IF h \in DOMAIN memory THEN memory[h].activatedBlocks
    ELSE IF h - 1 \in DOMAIN memory THEN Slide(h)
    ELSE Count(h)

Counts(h) == h > 1 /\ activatedAt = 0 /\ Checkpoint = 0

\* Mutant: one signal more than needed.
ForkActivatedLate(h) ==
    /\ h > 1
    /\ IF activatedAt # 0 THEN h >= activatedAt
       ELSE IF Checkpoint # 0 THEN Checkpoint <= h
       ELSE ActivatedBlocks(h) > ActivationBlocks

ForkActivated(h) ==
    /\ h > 1
    /\ IF activatedAt # 0 THEN h >= activatedAt
       ELSE IF Checkpoint # 0 THEN Checkpoint <= h
       ELSE ActivatedBlocks(h) >= ActivationBlocks

\* The memory after the question about height h.
Memorize(h) ==
    memory' = IF Counts(h)
              THEN [x \in DOMAIN memory \union {h} |->
                      IF x # h \/ h \in DOMAIN memory THEN memory[x]
                      ELSE [lowerBoundActivated |-> signals[LowerBound(h)],
                            activatedBlocks |-> ActivatedBlocks(h)]]
              ELSE memory

\* isPrimary asks about the engine's height, which may lag behind the chain.
AskForkActivated(h) ==
    /\ Memorize(h)
    /\ UNCHANGED <<signals, activatedAt, stored, engine>>

\* The cache keeps two entries, and drops others when it likes.
Evict(h) ==
    /\ h \in DOMAIN memory
    /\ memory' = [x \in DOMAIN memory \ {h} |-> memory[x]]
    /\ UNCHANGED <<signals, activatedAt, stored, engine>>

----------------------------------------------------------------------------
\* addBlock: activateForks for the new height, then the writes of the block.
MayActivate(number, activated) == activated = 0 /\ number <= ActivationDeadline

AddBlock(signal) ==
    LET number == Latest + 1 IN
    /\ number <= MaxHeight
    /\ IF MayActivate(number, activatedAt)
       THEN /\ Memorize(number)
            /\ activatedAt' = IF ForkActivated(number) THEN number ELSE 0
            /\ stored' = activatedAt'
       ELSE UNCHANGED <<activatedAt, stored, memory>>
    /\ signals' = Append(signals, signal)
    /\ UNCHANGED engine

\* openDb: the activation is read back; the memory starts empty.
Restarts(record) ==
    /\ stored' = record
    /\ activatedAt' = record
    /\ memory' = [h \in {} |-> 0]
    /\ engineHeight' = 0 /\ engineActivated' = FALSE
    /\ UNCHANGED signals

Crash == Restarts(stored)

\* A crash after the activation is recorded, before the block is.
CrashInAddBlock ==
    /\ Latest < MaxHeight
    /\ MayActivate(Latest + 1, activatedAt)
    /\ ForkActivated(Latest + 1)
    /\ Restarts(Latest + 1)

----------------------------------------------------------------------------
\* Mutant: only what the chain has recorded counts.
EnterNewHeightUnasked ==
    /\ engineHeight' = Latest + 1
    /\ engineActivated' = (stored # 0)
    /\ UNCHANGED <<signals, activatedAt, stored, memory>>

\* enterNewHeight of the engine, which activates the fork for itself before the
\* block of that height is added.
EnterNewHeight ==
    LET height == Latest + 1 IN
    /\ engineHeight' = height
    /\ IF MayActivate(height, stored)
       THEN /\ Memorize(height)
            /\ engineActivated' = ForkActivated(height)
       ELSE /\ engineActivated' = (stored # 0)
            /\ UNCHANGED memory
    /\ UNCHANGED <<signals, activatedAt, stored>>

\* What the engine puts into the block it proposes.
SignalingUniformDistribution == ~engineActivated /\ engineHeight <= ActivationDeadline

Next ==
    \/ \E h \in 0..(Latest + 1) : AskForkActivated(h)
    \/ \E h \in DOMAIN memory : Evict(h)
    \/ \E signal \in BOOLEAN : AddBlock(signal)
    \/ Crash \/ CrashInAddBlock
    \/ EnterNewHeight

Spec == Init /\ [][Next]_vars

----------------------------------------------------------------------------
TypeOK ==
    /\ signals \in Seq(BOOLEAN) /\ Latest <= MaxHeight
    /\ activatedAt \in 0..MaxHeight /\ stored \in 0..MaxHeight
    /\ DOMAIN memory \subseteq 2..(Latest + 1)
    /\ \A h \in DOMAIN memory :
        memory[h] \in [lowerBoundActivated : BOOLEAN, activatedBlocks : 0..ActivationBlocksLookup]
    /\ engineHeight \in 0..(Latest + 1) /\ engineActivated \in BOOLEAN

\* However heights were asked about, entries evicted and the node restarted, what the
\* cache memoizes for a height is the count over its window (BlockchainImpl.java:734-752).
MemoryExact ==
    \A h \in DOMAIN memory :
        /\ memory[h].activatedBlocks = Count(h)
        /\ memory[h].lowerBoundActivated = signals[LowerBound(h)]

\* A height has the fork if its window, or that of an earlier height, had enough signals
\* by the deadline, "the last block at which this block can be activated"
\* (ValidatorActivatedFork.java:49); or if the configuration says so.
Reached(h) ==
    IF Checkpoint # 0 THEN Checkpoint <= h
    ELSE \E a \in 2..h : a <= ActivationDeadline /\ Count(a) >= ActivationBlocks

\* The answer about a height depends on the blocks below it alone, not on what this
\* node remembers, recorded, asked before or lost in a crash: nodes with the same
\* chain agree on the primary validator (SemuxBft.java:723).  A fork activated by the
\* deadline stays active after it.  Of a window that fills only after the deadline nothing
\* is said: forkActivated does not look at the deadline and answers that the fork is active.
AnswersByChain ==
    \A h \in 2..(Latest + 1) :
        /\ Reached(h) => ForkActivated(h)
        /\ ForkActivated(h) /\ h <= ActivationDeadline => Reached(h)

\* The engine signals in the blocks it proposes exactly until the fork is active or
\* can no longer be, also at the height that activates it (SemuxBft.java:805).
SignalsUntilActivated ==
    engineHeight = Latest + 1 =>
        (SignalingUniformDistribution <=>
            engineHeight <= ActivationDeadline /\ ~ForkActivated(engineHeight))
====
