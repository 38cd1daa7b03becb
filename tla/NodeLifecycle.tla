---- MODULE NodeLifecycle ----
(***************************************************************************)
(* The threads of one node that touch its chain: the kernel, which starts  *)
(* and stops the others; the consensus thread, which runs the BFT event    *)
(* loop; and the processing task of the sync, which the consensus thread   *)
(* starts and waits for, but cancels without waiting.  The process may die *)
(* at any moment and start again on what is on disk.                       *)
(***************************************************************************)
EXTENDS ChainCommit

CONSTANTS MaxCrashes    \* bound: how often the process dies

VARIABLES kernel,       \* the kernel's state, and where it is in start and stop
          cons,         \* where the consensus thread is
          task,         \* where the processing task of the sync is
          status,       \* SemuxBft.status
          isRunning,    \* SemuxSync.isRunning
          scheduled,    \* whether the processing task is scheduled
          target,       \* SemuxSync.target
          height,       \* SemuxBft.height
          stopQueued,   \* whether the STOP event is queued
          job,          \* the block each thread has executed, and the overlay it got
          lock,         \* who holds the write lock of the state
          open,         \* whether the databases are open
          overlapped,   \* history: heights applied by two threads at the same time
          crashes

engine == <<cons, status, height, stopQueued>>
sync == <<task, isRunning, scheduled, target>>
vars == <<commit, kernel, engine, sync, job, overlapped, lock, open, crashes>>

Threads == {"cons", "sync"}

ASSUME NodeAssumption == Nobody \notin Threads \cup {"kernel"} /\ MaxCrashes \in Nat

NoJob == [height |-> None, overlay |-> NoUpdates]

NodeInit ==
    /\ Init
    /\ kernel = "down" /\ cons = "none" /\ task = "idle"
    /\ status = "STOPPED" /\ isRunning = FALSE /\ scheduled = FALSE
    /\ target = 0 /\ height = 0 /\ stopQueued = FALSE
    /\ job = [t \in Threads |-> NoJob] /\ overlapped = {}
    /\ lock = Nobody /\ open = FALSE
    /\ crashes = 0

-----------------------------------------------------------------------------
(* Kernel.start and Kernel.stop. *)

\* The databases are opened; a genesis is written by the kernel's own thread.
Boot ==
    /\ kernel = "down"
    /\ open' = TRUE
    /\ OpenDb
    /\ IF disk.latest = None
       THEN kernel' = "opening" /\ lock' = "kernel" /\ UNCHANGED cons
       ELSE kernel' = "running" /\ cons' = "new" /\ UNCHANGED lock
    /\ UNCHANGED <<status, height, stopQueued, sync, job, overlapped, crashes>>

GenesisAdded ==
    /\ kernel = "opening"
    /\ EndWriting
    /\ kernel' = "running" /\ cons' = "new" /\ lock' = Nobody
    /\ UNCHANGED <<status, height, stopQueued, sync, job, overlapped, open, crashes>>

\* Steps of stop(), each from one place to the next.
KernelGoes(from, to) ==
    /\ kernel = from /\ kernel' = to
    /\ UNCHANGED <<commit, cons, height, task, scheduled, target, job, overlapped, crashes>>

StopSync == /\ KernelGoes("running", "stopping")
            /\ isRunning' = FALSE
            /\ UNCHANGED <<status, stopQueued, lock, open>>

\* SemuxBft.stop: it does nothing unless the engine was started.
ReadStatus == /\ KernelGoes("stopping", IF status = "STOPPED" THEN "joining" ELSE "stopConsensus")
              /\ isRunning' = (isRunning /\ status # "SYNCING")
              /\ UNCHANGED <<status, stopQueued, lock, open>>

SetStopped == /\ KernelGoes("stopConsensus", "offerStop")
              /\ status' = "STOPPED"
              /\ UNCHANGED <<isRunning, stopQueued, lock, open>>

OfferStop == /\ KernelGoes("offerStop", "joining")
             /\ stopQueued' = TRUE
             /\ UNCHANGED <<isRunning, status, lock, open>>

Join == /\ KernelGoes("joining", "closing")
        /\ cons = "done"
        /\ UNCHANGED <<isRunning, status, stopQueued, lock, open>>

\* Mutant: the state lock is not taken.
CloseDbUnlocked == /\ KernelGoes("closing", "stopped")
                   /\ open' = FALSE
                   /\ UNCHANGED <<isRunning, status, stopQueued, lock>>

\* Under the write lock of the state.
CloseDb == /\ KernelGoes("closing", "stopped")
           /\ lock = Nobody
           /\ open' = FALSE
           /\ UNCHANGED <<isRunning, status, stopQueued, lock>>

Stop == ReadStatus \/ SetStopped \/ OfferStop \/ Join \/ CloseDb

\* The process ends, after it stopped or by a crash.
Exit ==
    /\ kernel # "down" /\ kernel' = "down"
    /\ kernel # "stopped" => crashes < MaxCrashes
    /\ crashes' = IF kernel = "stopped" THEN crashes ELSE crashes + 1
    /\ Die
    /\ cons' = "none" /\ task' = "idle" /\ status' = "STOPPED"
    /\ isRunning' = FALSE /\ scheduled' = FALSE /\ target' = 0
    /\ height' = 0 /\ stopQueued' = FALSE
    /\ job' = [t \in Threads |-> NoJob] /\ lock' = Nobody /\ open' = FALSE
    /\ UNCHANGED overlapped

-----------------------------------------------------------------------------
(* A block is applied, by the consensus thread or by the sync's task. *)

Other(t) == IF t = "cons" THEN "sync" ELSE "cons"

\* The block is executed, in an overlay of the thread's own.
Execute(t, h) ==
    /\ Executable(h)
    /\ job' = [job EXCEPT ![t] = [height |-> h, overlay |-> Overlay(h)]]
    /\ overlapped' = IF job[Other(t)] = NoJob THEN overlapped
                     ELSE overlapped \cup {h, job[Other(t)].height}

place(t) == IF t = "cons" THEN cons ELSE task
MoveTo(t, p) == IF t = "cons" THEN cons' = p /\ UNCHANGED task ELSE task' = p /\ UNCHANGED cons
Idle(t) == IF t = "cons" THEN "loop" ELSE "idle"

\* What the steps below leave alone.
ApplyFrame ==
    UNCHANGED <<kernel, status, height, stopQueued, isRunning, target, overlapped, open, crashes>>

\* What the block leaves in the thread's overlay is committed to the chain's state.
CommitOverlay(t) ==
    /\ place(t) = "executed" /\ MoveTo(t, "committed")
    /\ Merge(job[t].overlay)
    /\ UNCHANGED <<scheduled, job, lock>> /\ ApplyFrame

TakeLock(t) ==
    /\ place(t) = "committed" /\ MoveTo(t, "writing")
    /\ lock = Nobody /\ lock' = t
    /\ BeginWriting(job[t].height)
    /\ UNCHANGED <<scheduled, job>> /\ ApplyFrame

Write ==
    /\ lock # Nobody /\ open
    /\ Flush \/ PutNext
    /\ UNCHANGED <<cons, task, scheduled, job, lock>> /\ ApplyFrame

\* All is written, or addBlock threw; the lock is released in any case.
ReleaseLock(t) ==
    /\ place(t) = "writing" /\ MoveTo(t, Idle(t))
    /\ open /\ EndWriting
    /\ lock' = Nobody /\ job' = [job EXCEPT ![t] = NoJob]
    /\ UNCHANGED scheduled /\ ApplyFrame

Apply(t) == CommitOverlay(t) \/ TakeLock(t) \/ ReleaseLock(t)

\* Mutant: the lock is not released in a finally block.
WriteFailsLocked ==
    /\ task = "writing" /\ ~open
    /\ task' = "idle" /\ scheduled' = FALSE
    /\ writer' = NoWriter /\ job' = [job EXCEPT !["sync"] = NoJob]
    /\ UNCHANGED <<cons, disk, updates, latestBlock, torn, lock>> /\ ApplyFrame

\* A closed database throws, which ends the periodic task.
WriteFails ==
    /\ task = "writing" /\ ~open
    /\ task' = "idle" /\ scheduled' = FALSE
    /\ writer' = NoWriter /\ lock' = Nobody /\ job' = [job EXCEPT !["sync"] = NoJob]
    /\ UNCHANGED <<cons, disk, updates, latestBlock, torn>> /\ ApplyFrame

-----------------------------------------------------------------------------
(* The consensus thread: SemuxBft.start, eventLoop, enterNewHeight and sync. *)

ConsGoes(from, to) ==
    /\ cons = from /\ cons' = to
    /\ UNCHANGED <<commit, kernel, task, target, lock, open, crashes>>

SyncUnchanged == UNCHANGED <<isRunning, scheduled>>

Start == /\ ConsGoes("new", IF status = "STOPPED" THEN "enter" ELSE "done")
         /\ status' = "RUNNING"
         /\ SyncUnchanged /\ UNCHANGED <<height, stopQueued, job, overlapped>>

\* enterNewHeight reads the chain first and clears the events last.
EnterNewHeight == /\ ConsGoes("enter", "clear")
                  /\ height' = latestBlock + 1
                  /\ SyncUnchanged /\ UNCHANGED <<status, stopQueued, job, overlapped>>

ClearEvents == /\ ConsGoes("clear", "loop")
               /\ stopQueued' = FALSE
               /\ SyncUnchanged /\ UNCHANGED <<status, height, job, overlapped>>

\* Mutant: the loop relies on the STOP event alone.
LoopForever == /\ ConsGoes("loop", "take")
               /\ SyncUnchanged /\ UNCHANGED <<status, height, stopQueued, job, overlapped>>

LoopCondition == /\ ConsGoes("loop", IF status = "STOPPED" THEN "done" ELSE "take")
                 /\ SyncUnchanged /\ UNCHANGED <<status, height, stopQueued, job, overlapped>>

\* The event that take() returns is the STOP event, or another one, which timer or
\* network may bring at any moment; without the status RUNNING it is dropped.
TakeStop == /\ ConsGoes("take", IF status = "RUNNING" THEN "done" ELSE "loop")
            /\ stopQueued /\ stopQueued' = FALSE
            /\ SyncUnchanged /\ UNCHANGED <<status, height, job, overlapped>>

\* A timeout in FINALIZE, after the block was added or its results were not the block's.
OnTimeout == /\ ConsGoes("take", "enter")
             /\ status = "RUNNING" /\ (height <= latestBlock \/ ~Executable(height))
             /\ SyncUnchanged /\ UNCHANGED <<status, height, stopQueued, job, overlapped>>

\* Mutant: applyBlock does not compare the number with the chain's.
EnterFinalizeUnchecked == /\ ConsGoes("take", "executed")
                          /\ status = "RUNNING" /\ height <= MaxHeight
                          /\ Execute("cons", height)
                          /\ SyncUnchanged /\ UNCHANGED <<status, height, stopQueued>>

\* The block of this height is approved: applyBlock checks its number and executes it.
EnterFinalize == /\ ConsGoes("take", "executed")
                 /\ status = "RUNNING" /\ height = latestBlock + 1 /\ height <= MaxHeight
                 /\ Execute("cons", height)
                 /\ SyncUnchanged /\ UNCHANGED <<status, height, stopQueued>>

\* Another number throws, different results end it; both go on with the loop, as do
\* the events that leave height and status alone.
OtherEvent == /\ ConsGoes("take", "loop")
              /\ SyncUnchanged /\ UNCHANGED <<status, height, stopQueued, job, overlapped>>

\* Others are ahead: sync(), in the steps its flags are read and written in.
OnNewHeight == /\ ConsGoes("take", "sync")
               /\ status = "RUNNING" /\ height > latestBlock
               /\ height < MaxHeight + 1
               /\ SyncUnchanged /\ UNCHANGED <<status, height, stopQueued, job, overlapped>>

CheckRunning == /\ ConsGoes("sync", IF status = "RUNNING" THEN "pause" ELSE "loop")
                /\ SyncUnchanged /\ UNCHANGED <<status, height, stopQueued, job, overlapped>>

Pause == /\ ConsGoes("pause", "startSync")
         /\ status' = "SYNCING" /\ stopQueued' = FALSE
         /\ SyncUnchanged /\ UNCHANGED <<height, job, overlapped>>

StartSync == /\ cons = "startSync" /\ cons' = "waiting"
             /\ isRunning' = TRUE /\ scheduled' = TRUE
             /\ target' \in height + 1 .. MaxHeight + 1
             /\ UNCHANGED <<commit, kernel, task, status, height, stopQueued, job, overlapped, lock, open, crashes>>

\* Mutant: start() of the sync returns at once.
CancelTaskEarly == /\ ConsGoes("waiting", "resume")
                   /\ scheduled' = FALSE
                   /\ UNCHANGED <<isRunning, status, height, stopQueued, job, overlapped>>

\* The sync is over; its task is cancelled, but not what it is doing.
CancelTask == /\ ConsGoes("waiting", "resume")
              /\ ~isRunning /\ scheduled' = FALSE
              /\ UNCHANGED <<isRunning, status, height, stopQueued, job, overlapped>>

CheckStopped == /\ ConsGoes("resume", IF status # "STOPPED" THEN "restore" ELSE "loop")
                /\ SyncUnchanged /\ UNCHANGED <<status, height, stopQueued, job, overlapped>>

Restore == /\ ConsGoes("restore", "enter")
           /\ status' = "RUNNING"
           /\ SyncUnchanged /\ UNCHANGED <<height, stopQueued, job, overlapped>>

Consensus ==
    \/ Start \/ EnterNewHeight \/ ClearEvents \/ LoopCondition \/ TakeStop
    \/ CheckRunning \/ Pause \/ StartSync \/ CancelTask \/ CheckStopped \/ Restore
Events == OtherEvent \/ OnTimeout \/ EnterFinalize \/ OnNewHeight

-----------------------------------------------------------------------------
(* The processing task of the sync. *)

TaskRuns == task = "idle" /\ scheduled /\ isRunning

TargetReached ==
    /\ TaskRuns
    /\ latestBlock + 1 >= target
    /\ isRunning' = FALSE
    /\ UNCHANGED <<commit, kernel, engine, task, scheduled, target, job, overlapped, lock, open, crashes>>

\* The next block has come and is valid.  A block whose header is there was never asked
\* for, one whose transactions are indexed or fail is rejected.
Process ==
    /\ TaskRuns
    /\ latestBlock + 1 < target
    /\ LET h == latestBlock + 1 IN
       /\ ~HasBlock(h) /\ ~HasTransaction(h)
       /\ Execute("sync", h)
    /\ task' = "executed"
    /\ UNCHANGED <<commit, kernel, engine, isRunning, scheduled, target, lock, open, crashes>>

-----------------------------------------------------------------------------

Next ==
    \/ Boot \/ GenesisAdded \/ StopSync \/ Stop \/ Exit
    \/ \E t \in Threads : Apply(t)
    \/ Write \/ WriteFails
    \/ Consensus \/ Events
    \/ TargetReached \/ Process

Spec == NodeInit /\ [][Next]_vars

\* Every thread goes on when it can; events, blocks, stops and crashes need not come.
FairSpec ==
    /\ Spec
    /\ WF_vars(Stop) /\ WF_vars(Consensus) /\ WF_vars(Write) /\ WF_vars(WriteFails)
    /\ \A t \in Threads : WF_vars(Apply(t))
    /\ WF_vars(TargetReached)

-----------------------------------------------------------------------------
(* Properties. *)

\* Both threads are applying a block.
Overlap == job["cons"] # NoJob /\ job["sync"] # NoJob

\* Heights that need not be exact: the process died while they were written, or two
\* threads applied them.
Spoiled == torn \cup overlapped

TypeOK ==
    /\ latestBlock \in Heights \cup {None} /\ disk.latest \in Heights \cup {None}
    /\ disk.count \in [Keys -> Nat] /\ DOMAIN updates \subseteq Keys
    /\ writer.height \in Heights \cup {None} /\ writer.keys \subseteq Keys
    /\ lock \in Threads \cup {"kernel", Nobody}
    /\ status \in {"STOPPED", "RUNNING", "SYNCING"}
    /\ (lock = Nobody) = ~Writing

\* The order of the flush and of addBlock's puts: whatever the latest block number on disk
\* covers is on disk in full, at every moment, also after crashes.
AddedIsComplete == \A h \in 0..disk.latest \ overlapped : Complete(h)

\* Between two applications of a block, no balance, index or statistic counts a block twice
\* or counts one that is not on the chain, except where the process died in the middle.
ExactUnlessTorn == ~Writing => Exact(Spoiled)

\* A crash in the middle of a block has the block written again, on top of what the first
\* attempt left.  However flushes, puts, crashes and restarts fall, also of the genesis, no
\* balance, index or statistic counts a block more often than it was begun: once, and once
\* more for every crash if one tore it (the heights of two threads at once excepted).
TornOncePerCrash ==
    \A h \in Heights \ overlapped :
        LET begun == IF h \in torn THEN 1 + crashes ELSE 1 IN
        /\ \A k \in Keys : /\ Times(disk.state[k], h) <= begun * StateTimes(k)[h]
                           /\ Times(Listed(k), h) <= begun * ListTimes(k)[h]
        /\ Times(disk.forged, h) <= begun * RewardTimes[h]
        /\ Times(disk.turns, h) <= begun * RewardTimes[h]

\* Kernel.stop never closes the databases in the middle of a block: an orderly stop
\* leaves nothing torn.
ClosedExact == kernel = "stopped" => Exact(Spoiled)

\* sync() pauses the consensus while blocks are synced.  The engine and the sync's task,
\* which is not waited for, apply blocks at the same time only around a kernel's stop.
AloneUnlessStopping == Overlap => kernel \notin {"running", "stopped"}

\* The nonce protects senders from every crash, replay and overlap: a block's
\* transactions are never executed twice on an account.
SenderOnce ==
    \A h \in Heights : \A k \in Keys \cap {Sender(h)} :
        \A i, j \in DOMAIN disk.state[k] : disk.state[k][i] = h /\ disk.state[k][j] = h => i = j

\* An engine that is stopped while it waits for an event or comes back to its loop
\* leaves it, though clearTimerAndEvents may discard the STOP event.
StopHeard == (status = "STOPPED" /\ cons \in {"loop", "take"}) ~> (cons \in {"done", "none"})

\* Kernel.stop comes to its end: the consensus thread is "fully stopped" (Kernel.java:338).
StopEnds == (kernel = "stopping") ~> (kernel \in {"stopped", "down"})
====
