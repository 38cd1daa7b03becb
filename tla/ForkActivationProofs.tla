---- MODULE ForkActivationProofs ----
(***************************************************************************)
(* The memory of signal counts is exact, and whether a fork is active at a *)
(* height depends on the blocks below it alone.                            *)
(***************************************************************************)
EXTENDS ForkActivation, FiniteSetTheorems, TLAPS

\* The types the proof needs, without the bound on the counts, which MemoryExact gives.
Types ==
    /\ signals \in Seq(BOOLEAN) /\ Latest <= MaxHeight
    /\ activatedAt \in 0..MaxHeight /\ stored \in 0..MaxHeight
    /\ DOMAIN memory \subseteq 2..(Latest + 1)
    /\ engineHeight \in 0..(Latest + 1) /\ engineActivated \in BOOLEAN

Entries ==
    \A h \in DOMAIN memory :
        memory[h] = [lowerBoundActivated |-> signals[LowerBound(h)],
                     activatedBlocks |-> Count(h)]

\* A recorded activation is the first height with enough signals, by the deadline; a
\* chain without a record has had none.
First(a) ==
    /\ a >= 2 /\ a <= ActivationDeadline
    /\ IF Checkpoint # 0 THEN Checkpoint <= a /\ \A h \in 2..(a - 1) : h < Checkpoint
       ELSE Count(a) >= ActivationBlocks /\ \A h \in 2..(a - 1) : Count(h) < ActivationBlocks

Recorded ==
    /\ activatedAt = stored
    /\ stored # 0 => stored <= Latest + 1 /\ First(stored)
    /\ stored = 0 =>
        \A h \in 2..Latest : h <= ActivationDeadline =>
            IF Checkpoint # 0 THEN h < Checkpoint ELSE Count(h) < ActivationBlocks

\* What the engine found when it entered the height of the next block.
EngineKnows ==
    engineHeight = Latest + 1 =>
        (engineActivated <=> stored # 0 \/ (engineHeight <= ActivationDeadline
                                            /\ engineHeight > 1 /\ Reached(engineHeight)))

Inv == Types /\ Entries /\ Recorded /\ EngineKnows
-----------------------------------------------------------------------------
Window(h) == {i \in LowerBound(h)..(h - 1) : signals[i]}

LEMMA WindowFinite ==
    ASSUME NEW h \in Nat
    PROVE  /\ LowerBound(h) \in Nat /\ LowerBound(h) >= 1
           /\ IsFiniteSet(Window(h)) /\ Count(h) \in Nat
           /\ h > 1 => LowerBound(h) < h
           /\ Count(h) <= ActivationBlocksLookup
<1>1. LowerBound(h) \in Nat /\ LowerBound(h) >= 1 /\ (h > 1 => LowerBound(h) < h)
    BY ForkAssumption DEF LowerBound
<1>2. IsFiniteSet(LowerBound(h)..(h - 1))
    <2>1. LowerBound(h) \in Int /\ h - 1 \in Int
        BY <1>1
    <2> QED BY <2>1, FS_Interval
<1>3. Window(h) \subseteq LowerBound(h)..(h - 1)
    BY DEF Window
<1>4. IsFiniteSet(Window(h)) /\ Cardinality(Window(h)) \in Nat
      /\ Cardinality(Window(h)) <= Cardinality(LowerBound(h)..(h - 1))
    BY <1>2, <1>3, FS_Subset, FS_CardinalityType
<1>5. Cardinality(LowerBound(h)..(h - 1)) <= ActivationBlocksLookup
    <2>1. Cardinality(LowerBound(h)..(h - 1)) =
            IF LowerBound(h) > h - 1 THEN 0 ELSE (h - 1) - LowerBound(h) + 1
        <3>1. LowerBound(h) \in Int /\ h - 1 \in Int
            BY <1>1
        <3> QED BY <3>1, FS_Interval
    <2> QED BY <2>1, <1>1, ForkAssumption DEF LowerBound
<1>6. Count(h) = Cardinality(Window(h))
    BY DEF Count, Window
<1>7. Cardinality(LowerBound(h)..(h - 1)) \in Nat
    BY <1>2, FS_CardinalityType
<1> QED BY <1>1, <1>4, <1>5, <1>6, <1>7, ForkAssumption

\* The count of a height from that of the height before, as the memory computes it.
LEMMA CountSlides ==
    ASSUME NEW h \in Nat, h > 2, signals \in Seq(BOOLEAN), h <= Latest + 1
    PROVE  Count(h) = Count(h - 1)
              - (IF signals[LowerBound(h - 1)] /\ LowerBound(h) > 1 THEN 1 ELSE 0)
              + Signal(h - 1)
<1> DEFINE W == Window(h - 1)
           x == LowerBound(h - 1)
           M == IF LowerBound(h) > 1 THEN W \ {x} ELSE W
<1>1. /\ x \in Nat /\ x >= 1 /\ x < h - 1 /\ IsFiniteSet(W) /\ Cardinality(W) = Count(h - 1)
      /\ Count(h - 1) \in Nat /\ h - 1 \in Nat
    BY WindowFinite DEF Window, Count
<1>2. /\ LowerBound(h) > 1 => LowerBound(h) = x + 1
      /\ ~(LowerBound(h) > 1) => LowerBound(h) = x
    BY ForkAssumption DEF LowerBound
<1>3. \A i \in 1..(h - 1) : signals[i] \in BOOLEAN
    BY DEF Latest
<1>4. Window(h) = IF signals[h - 1] THEN M \union {h - 1} ELSE M
    <2>1. ASSUME NEW i PROVE i \in M <=> i \in LowerBound(h)..(h - 2) /\ signals[i]
        <3>1. i \in W <=> i \in x..(h - 2) /\ signals[i]
            BY <1>1 DEF Window
        <3>2. CASE LowerBound(h) > 1
            BY <3>1, <3>2, <1>1, <1>2
        <3>3. CASE ~(LowerBound(h) > 1)
            BY <3>1, <3>3, <1>1, <1>2
        <3> QED BY <3>2, <3>3
    <2>2. LowerBound(h) \in Nat /\ LowerBound(h) <= h - 1
        BY <1>1, <1>2
    <2>3. ASSUME NEW i PROVE i \in Window(h) <=> i \in M \/ (i = h - 1 /\ signals[i])
        <3>1. i \in LowerBound(h)..(h - 1) <=> i \in LowerBound(h)..(h - 2) \/ i = h - 1
            BY <2>2
        <3> QED BY <3>1, <2>1 DEF Window
    <2> QED BY <2>3
<1>5. IsFiniteSet(M) /\ h - 1 \notin M
    <2>1. h - 1 \notin W
        BY <1>1 DEF Window
    <2>2. IsFiniteSet(W \ {x})
        BY <1>1, FS_RemoveElement
    <2> QED BY <2>1, <2>2, <1>1
<1>6. Cardinality(M) = Cardinality(W)
         - (IF signals[x] /\ LowerBound(h) > 1 THEN 1 ELSE 0)
    <2>1. x \in W <=> signals[x]
        BY <1>1 DEF Window
    <2>2. Cardinality(W \ {x}) = IF x \in W THEN Cardinality(W) - 1 ELSE Cardinality(W)
        BY <1>1, FS_RemoveElement
    <2>3. Cardinality(W) \in Nat
        BY <1>1
    <2> QED BY <2>1, <2>2, <2>3
<1>7. Cardinality(Window(h)) = Cardinality(M) + Signal(h - 1)
    <2>1. Cardinality(M \union {h - 1}) = Cardinality(M) + 1
        BY <1>5, FS_AddElement
    <2>2. Cardinality(M) \in Nat
        BY <1>5, FS_CardinalityType
    <2> QED BY <1>4, <2>1, <2>2 DEF Signal
<1> QED BY <1>1, <1>6, <1>7 DEF Count, Window

\* Given exact entries, the question about a height is answered by its count.
LEMMA Exact ==
    ASSUME Types, Entries, NEW h \in 2..(Latest + 1)
    PROVE  ActivatedBlocks(h) = Count(h)
<1>1. CASE h \in DOMAIN memory
    BY <1>1 DEF Entries, ActivatedBlocks
<1>2. CASE h \notin DOMAIN memory /\ h - 1 \in DOMAIN memory
    <2>1. h > 2 /\ h \in Nat /\ h <= Latest + 1
        BY <1>2 DEF Types, Latest
    <2>2. memory[h - 1] = [lowerBoundActivated |-> signals[LowerBound(h - 1)],
                           activatedBlocks |-> Count(h - 1)]
        BY <1>2 DEF Entries
    <2>3. Count(h) = Count(h - 1)
              - (IF signals[LowerBound(h - 1)] /\ LowerBound(h) > 1 THEN 1 ELSE 0)
              + Signal(h - 1)
        BY <2>1, CountSlides DEF Types
    <2> QED BY <1>2, <2>2, <2>3 DEF ActivatedBlocks, Slide
<1>3. CASE h \notin DOMAIN memory /\ h - 1 \notin DOMAIN memory
    BY <1>3 DEF ActivatedBlocks
<1> QED BY <1>1, <1>2, <1>3

LEMMA CheckpointType == Checkpoint \in Nat /\ ActivationDeadline \in Nat /\ MaxHeight \in Nat
                        /\ ActivationBlocks \in Nat
BY ForkAssumption

\* What forkActivated answers: as Reached, but a full window counts after the deadline
\* too, for as long as it is full.
Answer(h) ==
    IF Checkpoint # 0 THEN Checkpoint <= h
    ELSE \E a \in 2..h : (a = h \/ a <= ActivationDeadline) /\ Count(a) >= ActivationBlocks

LEMMA AnswerReached ==
    ASSUME NEW h \in Nat, h > 1
    PROVE  /\ Reached(h) => Answer(h)
           /\ h <= ActivationDeadline => (Answer(h) <=> Reached(h))
BY DEF Answer, Reached

\* What forkActivated answers, whatever is recorded and memoized.
LEMMA Answers ==
    ASSUME Inv, NEW h \in 0..(Latest + 1)
    PROVE  ForkActivated(h) <=> h > 1 /\ Answer(h)
<1>1. CASE h <= 1
    BY <1>1 DEF ForkActivated
<1>2. CASE h > 1 /\ activatedAt # 0
    <2>1. stored = activatedAt /\ First(activatedAt) /\ activatedAt \in Nat
        BY <1>2 DEF Inv, Recorded, Types
    <2>2. CASE Checkpoint # 0
        BY <1>2, <2>1, <2>2, CheckpointType DEF First, ForkActivated, Answer
    <2>3. CASE Checkpoint = 0
        <3>1. CASE h >= activatedAt
            <4>1. activatedAt \in 2..h
                BY <1>2, <2>1, <3>1 DEF First
            <4>2. Answer(h)
                BY <2>1, <2>3, <4>1 DEF First, Answer
            <4> QED BY <1>2, <3>1, <4>2 DEF ForkActivated
        <3>2. CASE h < activatedAt
            <4>1. \A a \in 2..h : Count(a) < ActivationBlocks
                BY <2>1, <2>3, <3>2 DEF First
            <4>2. \A a \in 2..h : Count(a) \in Nat
                BY WindowFinite
            <4>3. ~Answer(h)
                BY <2>3, <4>1, <4>2, CheckpointType DEF Answer
            <4> QED BY <1>2, <2>1, <3>2, <4>3 DEF ForkActivated
        <3> QED BY <2>1, <3>1, <3>2
    <2> QED BY <2>2, <2>3
<1>3. CASE h > 1 /\ activatedAt = 0 /\ Checkpoint # 0
    BY <1>3 DEF ForkActivated, Answer
<1>4. CASE h > 1 /\ activatedAt = 0 /\ Checkpoint = 0
    <2>1. h \in 2..(Latest + 1)
        BY <1>4
    <2>2. ForkActivated(h) <=> Count(h) >= ActivationBlocks
        BY <1>4, <2>1, Exact DEF Inv, ForkActivated
    <2>3. ASSUME NEW a \in 2..h, a # h, a <= ActivationDeadline
          PROVE  ~(Count(a) >= ActivationBlocks)
        <3>1. a \in 2..Latest /\ a \in Nat
            <4>1. Latest \in Nat
                BY DEF Inv, Types, Latest
            <4> QED BY <2>1, <2>3, <4>1
        <3>2. Count(a) < ActivationBlocks
            BY <1>4, <2>3, <3>1 DEF Inv, Recorded
        <3>3. Count(a) \in Nat
            BY <3>1, WindowFinite
        <3> QED BY <3>2, <3>3, CheckpointType
    <2>4. Answer(h) <=> Count(h) >= ActivationBlocks
        <3>1. h \in 2..h
            BY <2>1
        <3> QED BY <1>4, <2>3, <3>1 DEF Answer
    <2> QED BY <1>4, <2>2, <2>4
<1> QED BY <1>1, <1>2, <1>3, <1>4 DEF Inv, Types

\* A question leaves the memory exact.
LEMMA MemorizeKeeps ==
    ASSUME Types, Entries, NEW h \in 0..(Latest + 1), Memorize(h)
    PROVE  /\ DOMAIN memory' \subseteq 2..(Latest + 1)
           /\ \A x \in DOMAIN memory' :
                memory'[x] = [lowerBoundActivated |-> signals[LowerBound(x)],
                              activatedBlocks |-> Count(x)]
<1>1. CASE Counts(h)
    <2>1. h \in 2..(Latest + 1)
        BY <1>1 DEF Counts
    <2>2. ActivatedBlocks(h) = Count(h)
        BY <2>1, Exact
    <2>3. DOMAIN memory' = DOMAIN memory \union {h}
        BY <1>1 DEF Memorize
    <2>4. ASSUME NEW x \in DOMAIN memory'
          PROVE  memory'[x] = [lowerBoundActivated |-> signals[LowerBound(x)],
                               activatedBlocks |-> Count(x)]
        <3>1. CASE x \in DOMAIN memory
            BY <1>1, <2>3, <3>1 DEF Memorize, Entries
        <3>2. CASE x \notin DOMAIN memory
            BY <1>1, <2>2, <2>3, <2>4, <3>2 DEF Memorize
        <3> QED BY <3>1, <3>2
    <2> QED BY <2>1, <2>3, <2>4 DEF Types
<1>2. CASE ~Counts(h)
    BY <1>2 DEF Memorize, Types, Entries
<1> QED BY <1>1, <1>2

\* A block added on top changes no window below it.
LEMMA AppendKeeps ==
    ASSUME Types, NEW s \in BOOLEAN, signals' = Append(signals, s)
    PROVE  /\ signals' \in Seq(BOOLEAN) /\ Latest' = Latest + 1 /\ Latest \in Nat
           /\ \A h \in 2..(Latest + 1) :
                Count(h)' = Count(h) /\ signals'[LowerBound(h)] = signals[LowerBound(h)]
<1>1. signals' \in Seq(BOOLEAN) /\ Len(signals') = Len(signals) + 1 /\ Len(signals) \in Nat
    BY DEF Types
<1>2. \A i \in 1..Len(signals) : signals'[i] = signals[i]
    BY DEF Types
<1>3. ASSUME NEW h \in 2..(Latest + 1)
      PROVE  Count(h)' = Count(h) /\ signals'[LowerBound(h)] = signals[LowerBound(h)]
    <2>1. h \in Nat /\ h > 1 /\ h <= Len(signals) + 1
        BY <1>1 DEF Latest
    <2>2. LowerBound(h) \in Nat /\ LowerBound(h) >= 1 /\ LowerBound(h) < h
        BY <2>1, WindowFinite
    <2>3. LowerBound(h)..(h - 1) \subseteq 1..Len(signals) /\ LowerBound(h) \in 1..Len(signals)
        BY <1>1, <2>1, <2>2
    <2>4. {i \in LowerBound(h)..(h - 1) : signals'[i]} = {i \in LowerBound(h)..(h - 1) : signals[i]}
        BY <1>2, <2>3
    <2> QED BY <1>2, <2>3, <2>4 DEF Count
<1> QED BY <1>1, <1>3 DEF Latest

\* The height whose block is being added is the first that may be recorded.
LEMMA NextIsFirst ==
    ASSUME Inv, MayActivate(Latest + 1, activatedAt), ForkActivated(Latest + 1)
    PROVE  First(Latest + 1)
<1>1. Latest \in Nat /\ activatedAt = 0 /\ stored = 0 /\ Latest + 1 <= ActivationDeadline
      /\ Latest + 1 > 1
    BY DEF Inv, Recorded, MayActivate, ForkActivated, Types, Latest
<1>2. \A h \in 2..Latest :
        IF Checkpoint # 0 THEN h < Checkpoint ELSE Count(h) < ActivationBlocks
    BY <1>1, CheckpointType DEF Inv, Recorded
<1>3. Checkpoint = 0 => Count(Latest + 1) >= ActivationBlocks
    <2>1. Latest + 1 \in 2..(Latest + 1)
        BY <1>1
    <2>2. ActivatedBlocks(Latest + 1) = Count(Latest + 1)
        BY <2>1, Exact DEF Inv
    <2> QED BY <1>1, <2>2 DEF ForkActivated
<1>4. Checkpoint # 0 => Checkpoint <= Latest + 1
    BY <1>1 DEF ForkActivated
<1>5. (Latest + 1) - 1 = Latest
    BY <1>1
<1> QED BY <1>1, <1>2, <1>3, <1>4, <1>5 DEF First
-----------------------------------------------------------------------------
LEMMA InitInv == Init => Inv
<1> SUFFICES ASSUME Init PROVE Inv
    OBVIOUS
<1>1. signals = <<>> /\ Latest = 0 /\ DOMAIN memory = {}
    BY DEF Init, Latest
<1>2. Types
    <2>1. 0 \in 0..MaxHeight /\ 0 <= MaxHeight
        BY CheckpointType
    <2>2. signals \in Seq(BOOLEAN)
        BY <1>1
    <2>4. engineActivated \in BOOLEAN
        BY Zenon DEF Init
    <2>3. activatedAt = 0 /\ stored = 0 /\ engineHeight = 0
        BY DEF Init
    <2> QED BY <1>1, <2>1, <2>2, <2>3, <2>4 DEF Types
<1>3. Entries
    BY <1>1 DEF Entries
<1>4. Recorded
    BY <1>1 DEF Init, Recorded
<1>5. EngineKnows
    BY <1>1 DEF Init, EngineKnows
<1> QED BY <1>2, <1>3, <1>4, <1>5 DEF Inv

LEMMA AskStep ==
    ASSUME Inv, NEW h \in 0..(Latest + 1), AskForkActivated(h)
    PROVE  Inv'
<1>1. Memorize(h) /\ UNCHANGED <<signals, activatedAt, stored, engineHeight, engineActivated>>
    BY DEF AskForkActivated, engine
<1>2. Types' /\ Entries'
    BY <1>1, MemorizeKeeps DEF Inv, Types, Entries, Latest, Count
<1>3. Recorded' /\ EngineKnows'
    BY <1>1 DEF Inv, Recorded, EngineKnows, Latest, First, Count, Reached
<1> QED BY <1>2, <1>3 DEF Inv

LEMMA EvictStep ==
    ASSUME Inv, NEW h \in DOMAIN memory, Evict(h)
    PROVE  Inv'
<1>1. /\ memory' = [x \in DOMAIN memory \ {h} |-> memory[x]]
      /\ UNCHANGED <<signals, activatedAt, stored, engineHeight, engineActivated>>
    BY DEF Evict, engine
<1>2. Types' /\ Entries'
    BY <1>1 DEF Inv, Types, Entries, Latest, Count
<1>3. Recorded' /\ EngineKnows'
    BY <1>1 DEF Inv, Recorded, EngineKnows, Latest, First, Count, Reached
<1> QED BY <1>2, <1>3 DEF Inv

LEMMA AddBlockStep ==
    ASSUME Inv, NEW s \in BOOLEAN, AddBlock(s)
    PROVE  Inv'
<1> DEFINE number == Latest + 1
<1>1. /\ number <= MaxHeight /\ signals' = Append(signals, s)
      /\ UNCHANGED <<engineHeight, engineActivated>>
      /\ IF MayActivate(number, activatedAt)
         THEN /\ Memorize(number)
              /\ activatedAt' = IF ForkActivated(number) THEN number ELSE 0
              /\ stored' = activatedAt'
         ELSE UNCHANGED <<activatedAt, stored, memory>>
    BY DEF AddBlock, engine
<1>2. /\ signals' \in Seq(BOOLEAN) /\ Latest' = number /\ Latest \in Nat
      /\ \A h \in 2..number :
            Count(h)' = Count(h) /\ signals'[LowerBound(h)] = signals[LowerBound(h)]
    BY <1>1, AppendKeeps DEF Inv
<1>3. /\ DOMAIN memory' \subseteq 2..number
      /\ \A x \in DOMAIN memory' :
            memory'[x] = [lowerBoundActivated |-> signals[LowerBound(x)],
                          activatedBlocks |-> Count(x)]
    <2>1. CASE MayActivate(number, activatedAt)
        <3>1. number \in 0..(Latest + 1)
            BY <1>2
        <3> QED BY <1>1, <2>1, <3>1, MemorizeKeeps DEF Inv
    <2>2. CASE ~MayActivate(number, activatedAt)
        BY <1>1, <2>2 DEF Inv, Types, Entries
    <2> QED BY <2>1, <2>2
<1>4. Types'
    <2>1. activatedAt' \in 0..MaxHeight /\ stored' \in 0..MaxHeight
        BY <1>1, <1>2, CheckpointType DEF Inv, Types
    <2>2. DOMAIN memory' \subseteq 2..(Latest' + 1)
        BY <1>2, <1>3
    <2>3. engineHeight' \in 0..(Latest' + 1) /\ engineActivated' \in BOOLEAN
        BY <1>1, <1>2 DEF Inv, Types
    <2> QED BY <1>1, <1>2, <2>1, <2>2, <2>3 DEF Types
<1>5. Entries'
    <2>1. ASSUME NEW x \in DOMAIN memory'
          PROVE  memory'[x] = [lowerBoundActivated |-> signals'[LowerBound(x)],
                               activatedBlocks |-> Count(x)']
        BY <1>2, <1>3
    <2> QED BY <2>1 DEF Entries
<1>6. Recorded'
    <2>1. CASE MayActivate(number, activatedAt) /\ ForkActivated(number)
        <3> PICK n \in Nat : n = number
            BY <1>2
        <3>1. First(n)
            BY <2>1, NextIsFirst
        <3>2. First(n)'
            BY <1>2, <3>1 DEF First
        <3>3. stored' = n /\ activatedAt' = n /\ n <= Latest' + 1 /\ n # 0
            BY <1>1, <1>2, <2>1
        <3>4. First(stored)'
            BY <3>2, <3>3 DEF First, Count
        <3> QED BY <3>3, <3>4 DEF Recorded
    <2>2. CASE MayActivate(number, activatedAt) /\ ~ForkActivated(number)
        <3>1. stored' = 0 /\ activatedAt' = 0 /\ activatedAt = 0 /\ stored = 0
            BY <1>1, <2>2 DEF MayActivate, Inv, Recorded
        <3>2. ASSUME NEW h \in 2..number, h <= ActivationDeadline
              PROVE  IF Checkpoint # 0 THEN h < Checkpoint ELSE Count(h) < ActivationBlocks
            <4>1. CASE h = number
                <5>1. h \in 2..(Latest + 1) /\ h > 1
                    BY <1>2, <4>1
                <5>2. Count(h) \in Nat
                    BY <5>1, WindowFinite
                <5>3. ActivatedBlocks(h) = Count(h)
                    BY <5>1, Exact DEF Inv
                <5> QED BY <2>2, <3>1, <4>1, <5>1, <5>2, <5>3, CheckpointType DEF ForkActivated
            <4>2. CASE h # number
                <5>1. h \in 2..Latest
                    BY <1>2, <4>2
                <5> QED BY <3>1, <3>2, <5>1 DEF Inv, Recorded
            <4> QED BY <4>1, <4>2
        <3>3. \A h \in 2..Latest' : h <= ActivationDeadline =>
                IF Checkpoint # 0 THEN h < Checkpoint ELSE Count(h)' < ActivationBlocks
            BY <1>2, <3>2
        <3> QED BY <3>1, <3>3 DEF Recorded
    <2>3. CASE ~MayActivate(number, activatedAt)
        <3>1. UNCHANGED <<stored, activatedAt>>
            BY <1>1, <2>3
        <3>2. CASE stored # 0
            <4>1. stored \in Nat /\ stored <= Latest + 1 /\ First(stored)
                BY <3>2 DEF Inv, Recorded, Types
            <4>2. First(stored)'
                BY <1>2, <3>1, <4>1 DEF First
            <4>3. stored' <= Latest' + 1
                BY <1>2, <3>1, <4>1
            <4> QED BY <3>1, <3>2, <4>2, <4>3 DEF Inv, Recorded
        <3>3. CASE stored = 0
            <4>1. number > ActivationDeadline
                BY <1>2, <2>3, <3>3, CheckpointType DEF MayActivate, Inv, Recorded
            <4>2. ASSUME NEW h \in 2..Latest', h <= ActivationDeadline
                  PROVE  IF Checkpoint # 0 THEN h < Checkpoint ELSE Count(h)' < ActivationBlocks
                <5>1. h \in 2..Latest /\ h \in 2..number
                    BY <1>2, <4>1, <4>2, CheckpointType
                <5> QED BY <1>2, <3>3, <4>2, <5>1 DEF Inv, Recorded
            <4> QED BY <3>1, <3>3, <4>2 DEF Inv, Recorded
        <3> QED BY <3>2, <3>3
    <2> QED BY <2>1, <2>2, <2>3
<1>7. EngineKnows'
    <2>1. engineHeight \in 0..number
        BY DEF Inv, Types
    <2>2. engineHeight' # Latest' + 1
        BY <1>1, <1>2, <2>1
    <2> QED BY <2>2 DEF EngineKnows
<1> QED BY <1>4, <1>5, <1>6, <1>7 DEF Inv

LEMMA RestartStep ==
    ASSUME Inv, NEW r, Restarts(r),
           r = stored \/ (r = Latest + 1 /\ r <= MaxHeight /\ First(r))
    PROVE  Inv'
<1>1. /\ stored' = r /\ activatedAt' = r /\ DOMAIN memory' = {}
      /\ engineHeight' = 0 /\ engineActivated' = FALSE /\ signals' = signals
    BY DEF Restarts
<1>2. Latest \in Nat /\ Latest' = Latest
    BY <1>1 DEF Inv, Types, Latest
<1>3. Types' /\ Entries' /\ EngineKnows'
    <2>1. r \in 0..MaxHeight
        BY <1>2, CheckpointType DEF Inv, Types
    <2>2. engineHeight' # Latest' + 1
        BY <1>1, <1>2
    <2>3. engineHeight' \in 0..(Latest' + 1)
        BY <1>1, <1>2
    <2>7. engineActivated' \in BOOLEAN
        BY <1>1, Zenon
    <2>4. signals' \in Seq(BOOLEAN) /\ Latest' <= MaxHeight
        BY <1>1, <1>2 DEF Inv, Types
    <2>5. Types'
        BY <1>1, <2>1, <2>3, <2>4, <2>7 DEF Types
    <2>6. Entries'
        BY <1>1 DEF Entries
    <2> QED BY <2>2, <2>5, <2>6 DEF EngineKnows
<1>4. r # 0 => r <= Latest + 1 /\ First(r)
    BY <1>2 DEF Inv, Recorded
<1>5. r = 0 => r = stored
    BY <1>2
<1>6. Recorded'
    BY <1>1, <1>2, <1>4, <1>5 DEF Inv, Recorded, First, Count
<1> QED BY <1>3, <1>6 DEF Inv

LEMMA EnterStep ==
    ASSUME Inv, EnterNewHeight
    PROVE  Inv'
<1> DEFINE height == Latest + 1
<1>1. /\ engineHeight' = height /\ UNCHANGED <<signals, activatedAt, stored>>
      /\ IF MayActivate(height, stored)
         THEN Memorize(height) /\ engineActivated' = ForkActivated(height)
         ELSE engineActivated' = (stored # 0) /\ UNCHANGED memory
    BY DEF EnterNewHeight
<1>2. Latest \in Nat /\ height \in 0..(Latest + 1) /\ Latest' = Latest
    BY <1>1 DEF Inv, Types, Latest
<1>3. /\ DOMAIN memory' \subseteq 2..(Latest + 1)
      /\ \A x \in DOMAIN memory' :
            memory'[x] = [lowerBoundActivated |-> signals[LowerBound(x)],
                          activatedBlocks |-> Count(x)]
    <2>1. CASE MayActivate(height, stored)
        BY <1>1, <1>2, <2>1, MemorizeKeeps DEF Inv
    <2>2. CASE ~MayActivate(height, stored)
        BY <1>1, <2>2 DEF Inv, Types, Entries
    <2> QED BY <2>1, <2>2
<1>4. engineActivated' \in BOOLEAN
    BY <1>1 DEF ForkActivated
<1>5. Types' /\ Entries'
    BY <1>1, <1>2, <1>3, <1>4 DEF Inv, Types, Entries, Count
<1>6. Recorded'
    BY <1>1, <1>2 DEF Inv, Recorded, First, Count
<1>7. engineActivated' <=> stored # 0 \/ (height <= ActivationDeadline /\ height > 1
                                          /\ Reached(height))
    <2>1. ForkActivated(height) <=> height > 1 /\ Answer(height)
        BY <1>2, Answers
    <2>2. height > 1 /\ height <= ActivationDeadline => (Answer(height) <=> Reached(height))
        BY <1>2, AnswerReached
    <2> QED BY <1>1, <2>1, <2>2 DEF MayActivate
<1>8. EngineKnows'
    <2>1. Reached(height)' <=> Reached(height)
        BY <1>1, <1>2 DEF Reached, Count
    <2> QED BY <1>1, <1>2, <1>7, <2>1 DEF EngineKnows
<1> QED BY <1>5, <1>6, <1>8 DEF Inv

LEMMA NextInv == Inv /\ [Next]_vars => Inv'
<1> SUFFICES ASSUME Inv, [Next]_vars PROVE Inv'
    OBVIOUS
<1>1. ASSUME NEW h \in 0..(Latest + 1), AskForkActivated(h) PROVE Inv'
    BY <1>1, AskStep
<1>2. ASSUME NEW h \in DOMAIN memory, Evict(h) PROVE Inv'
    BY <1>2, EvictStep
<1>3. ASSUME NEW s \in BOOLEAN, AddBlock(s) PROVE Inv'
    BY <1>3, AddBlockStep
<1>4. CASE Crash
    BY <1>4, RestartStep DEF Crash
<1>5. CASE CrashInAddBlock
    <2>1. First(Latest + 1)
        BY <1>5, NextIsFirst DEF CrashInAddBlock
    <2>2. Latest + 1 <= MaxHeight
        BY <1>5, CheckpointType DEF CrashInAddBlock, Inv, Types, Latest
    <2> QED BY <1>5, <2>1, <2>2, RestartStep DEF CrashInAddBlock
<1>6. CASE EnterNewHeight
    BY <1>6, EnterStep
<1>7. CASE UNCHANGED vars
    BY <1>7 DEF vars, engine, Inv, Types, Entries, Recorded, EngineKnows, Latest, First, Count,
                Reached
<1> QED BY <1>1, <1>2, <1>3, <1>4, <1>5, <1>6, <1>7 DEF Next

LEMMA ForkInv == Spec => []Inv
BY InitInv, NextInv, PTL DEF Spec

\* For any window, threshold, deadline and built-in height, what BlockchainImpl
\* memoizes for a height is the count of signals in its window.
THEOREM ForkMemoryExact == Spec => []MemoryExact
<1>1. Inv => MemoryExact
    BY DEF Inv, Entries, MemoryExact
<1> QED BY <1>1, ForkInv, PTL

\* For any window, threshold, deadline and built-in height, forkActivated answers by the
\* blocks of the chain alone: exactly up to the deadline, and with the fork active ever
\* after if it was active by then.
THEOREM ForkAnswersByChain == Spec => []AnswersByChain
<1>1. ASSUME Inv, NEW h \in 2..(Latest + 1)
      PROVE  /\ Reached(h) => ForkActivated(h)
             /\ ForkActivated(h) /\ h <= ActivationDeadline => Reached(h)
    <2>1. h \in Nat /\ h > 1 /\ h \in 0..(Latest + 1)
        BY <1>1 DEF Inv, Types, Latest
    <2>2. ForkActivated(h) <=> Answer(h)
        BY <1>1, <2>1, Answers
    <2> QED BY <2>1, <2>2, AnswerReached
<1>2. Inv => AnswersByChain
    BY <1>1 DEF AnswersByChain
<1> QED BY <1>2, ForkInv, PTL

\* What the code answers about every height, that of a window which fills only after the
\* deadline included, where it departs from the comment on the deadline: also this depends
\* on the chain alone, so that nodes with the same chain still agree.
THEOREM ForkAnswersLate ==
    Spec => [](\A h \in 2..(Latest + 1) :
                ForkActivated(h) <=>
                    Reached(h) \/ (Checkpoint = 0 /\ Count(h) >= ActivationBlocks))
<1>1. ASSUME Inv, NEW h \in 2..(Latest + 1)
      PROVE  ForkActivated(h) <=>
                Reached(h) \/ (Checkpoint = 0 /\ Count(h) >= ActivationBlocks)
    <2>1. h \in Nat /\ h > 1 /\ h \in 0..(Latest + 1) /\ h \in 2..h
        BY <1>1 DEF Inv, Types, Latest
    <2>2. ForkActivated(h) <=> Answer(h)
        BY <1>1, <2>1, Answers
    <2>3. Answer(h) <=> Reached(h) \/ (Checkpoint = 0 /\ Count(h) >= ActivationBlocks)
        BY <2>1 DEF Answer, Reached
    <2> QED BY <2>2, <2>3
<1>2. Inv => \A h \in 2..(Latest + 1) :
                ForkActivated(h) <=>
                    Reached(h) \/ (Checkpoint = 0 /\ Count(h) >= ActivationBlocks)
    BY <1>1
<1> QED BY <1>2, ForkInv, PTL

\* The engine signals exactly until the fork is active or can no longer be.
THEOREM ForkSignalsUntilActivated == Spec => []SignalsUntilActivated
<1>1. ASSUME Inv, engineHeight = Latest + 1
      PROVE  SignalingUniformDistribution <=>
                engineHeight <= ActivationDeadline /\ ~ForkActivated(engineHeight)
    <2>1. engineHeight \in 0..(Latest + 1)
        BY <1>1 DEF Inv, Types
    <2>2. ForkActivated(engineHeight) <=> engineHeight > 1 /\ Answer(engineHeight)
        BY <1>1, <2>1, Answers
    <2>5. engineHeight > 1 /\ engineHeight <= ActivationDeadline =>
            (Answer(engineHeight) <=> Reached(engineHeight))
        BY <2>1, AnswerReached
    <2>3. engineActivated <=> stored # 0 \/ (engineHeight <= ActivationDeadline
                                             /\ engineHeight > 1 /\ Reached(engineHeight))
        BY <1>1 DEF Inv, EngineKnows
    <2>4. stored # 0 /\ engineHeight <= ActivationDeadline => ForkActivated(engineHeight)
        <3> SUFFICES ASSUME stored # 0 PROVE ForkActivated(engineHeight)
            OBVIOUS
        <3>1. activatedAt = stored /\ stored \in Nat /\ stored >= 2 /\ stored <= Latest + 1
            BY <1>1 DEF Inv, Recorded, First, Types
        <3> QED BY <1>1, <2>1, <3>1 DEF ForkActivated
    <2> QED BY <2>2, <2>3, <2>4, <2>5 DEF SignalingUniformDistribution
<1>2. Inv => SignalsUntilActivated
    BY <1>1 DEF SignalsUntilActivated
<1> QED BY <1>2, ForkInv, PTL

\* The state of the activation keeps its types; the counts are within the window.
THEOREM ForkTypeOK == Spec => []TypeOK
<1>1. ASSUME Inv PROVE TypeOK
    <2>1. ASSUME NEW h \in DOMAIN memory
          PROVE  memory[h] \in [lowerBoundActivated : BOOLEAN,
                                activatedBlocks : 0..ActivationBlocksLookup]
        <3>1. h \in 2..(Latest + 1) /\ h \in Nat /\ Latest \in Nat
            BY <1>1, <2>1 DEF Inv, Types, Latest
        <3>2. LowerBound(h) \in Nat /\ LowerBound(h) >= 1 /\ LowerBound(h) < h
              /\ Count(h) \in Nat /\ Count(h) <= ActivationBlocksLookup
            BY <3>1, WindowFinite
        <3>3. Count(h) \in 0..ActivationBlocksLookup
            BY <3>2, ForkAssumption
        <3>4. signals[LowerBound(h)] \in BOOLEAN
            BY <1>1, <3>1, <3>2 DEF Inv, Types, Latest
        <3> QED BY <1>1, <3>3, <3>4 DEF Inv, Entries
    <2> QED BY <1>1, <2>1 DEF Inv, Types, TypeOK
<1> QED BY <1>1, ForkInv, PTL
====
