-------------------------------- MODULE Pipe --------------------------------
(***************************************************************************)
(* One device of the pipe driver, src/kernel_standalone/pipe/main.c, in    *)
(* the configuration the file compiles: DO_COPY, DO_MUTEX, DO_WAITQUEUE    *)
(* and DO_WAKEUP.                                                          *)
(*                                                                         *)
(* A process opens the device, issues read and write calls one at a time,  *)
(* and releases it.  pc[p] is where p is in the driver; every step between *)
(* taking and freeing the mutex is a step of its own, so that mutual       *)
(* exclusion is something to check and not something the model grants.     *)
(*                                                                         *)
(* Bytes are numbered in the order in which the driver accepted them; 0    *)
(* stands for memory that holds no accepted byte.                          *)
(***************************************************************************)
EXTENDS Integers, Sequences, FiniteSets

CONSTANTS
  Proc,           \* processes that use the device
  NoProc,         \* the mutex has no owner
  Size,           \* pipe_size, the length of the buffer
  Modes,          \* the f_mode values each process opens the device with
  MaxCount,       \* bound: the largest count a user passes to read or write
  MaxSent,        \* bound: no write call starts that could go beyond this byte
  Interruptible,  \* processes a signal may reach while they are in a call
  Faulty          \* processes whose user buffer may be unmapped in the middle

ASSUME NoProcAssumption == NoProc \notin Proc

ASSUME SizeAssumption == Size \in Nat \ {0}

ASSUME ModesAssumption == Modes \in [Proc -> SUBSET ((SUBSET {"R", "W"}) \ {{}})]

ASSUME BoundsAssumption == MaxCount \in Nat /\ MaxSent \in Nat

VARIABLES
  \* struct my_pipe_t
  data, read_pos, write_pos,
  queue,          \* queue["read"] is read_queue, queue["write"] write_queue:
                  \* the processes that will block in, or sleep in, schedule()
  mutex, readers, writers,
  \* the processes
  pc,
  mode,           \* file->f_mode, {} when the device is not open
  op,             \* the call in progress, "none" outside of one
  work,           \* count, then work_size, then what is left of it
  size,           \* work_size
  sig,            \* signal_pending()
  \* history
  moved,          \* how many bytes the call in progress has moved
  ret,            \* what the last call returned, until the next one
  sent,           \* number of bytes accepted so far
  out             \* the bytes delivered so far, in order of delivery

pipeVars == <<data, read_pos, write_pos>>
tellVars == <<size, moved, ret>>
vars == <<data, read_pos, write_pos, queue, mutex, readers, writers,
          pc, mode, op, work, sig, sent, out, tellVars>>

Pcs == {"closed", "open", "idle", "release", "lock", "loop", "cond", "prep",
        "recheck", "lastcheck", "sched", "eintr", "chunk1", "chunk2", "done",
        "wake"}

Index == 0 .. Size - 1
MinOf(a, b) == IF a <= b THEN a ELSE b
Goto(p, l) == pc' = [pc EXCEPT ![p] = l]

\* The error that a call returns, negated, when a signal ends its wait.
ERESTARTSYS == 512

\* Back to user mode, where a pending signal is delivered; the variables of the
\* call are gone.
Return(p, value) ==
  /\ Goto(p, "idle")
  /\ sig' = [sig EXCEPT ![p] = FALSE]
  /\ op' = [op EXCEPT ![p] = "none"]
  /\ work' = [work EXCEPT ![p] = 0]
  /\ size' = [size EXCEPT ![p] = 0]
  /\ moved' = [moved EXCEPT ![p] = 0]
  /\ ret' = [ret EXCEPT ![p] = value]

-----------------------------------------------------------------------------
(* The helpers of the driver.                                              *)

\* Mutant of pipe_room: the slot that tells a full buffer from an empty one is
\* counted as room.
RoomOffByOne ==
  IF read_pos <= write_pos THEN Size - write_pos + read_pos
                           ELSE read_pos - write_pos

pipe_room ==
  IF read_pos <= write_pos THEN Size - write_pos + read_pos - 1
                           ELSE read_pos - write_pos - 1

pipe_data ==
  IF read_pos <= write_pos THEN write_pos - read_pos
                           ELSE Size - read_pos + write_pos

\* mutex_lock sleeps until the mutex is free.
pipe_lock(p) == mutex = NoProc /\ mutex' = p

\* mutex_unlock frees the mutex whoever owns it: the kernel looks at the owner
\* only in a build with CONFIG_DEBUG_MUTEXES.
pipe_unlock == mutex' = NoProc

pipe_wake_readers == queue' = [queue EXCEPT !["read"] = {}]

pipe_wake_writers == queue' = [queue EXCEPT !["write"] = {}]

pipe_reader_should_i_wake_up == pipe_data > 0 \/ writers = 0

pipe_writer_should_i_wake_up == pipe_room > 0

ShouldWakeUp(p) ==
  IF op[p] = "read" THEN pipe_reader_should_i_wake_up
                    ELSE pipe_writer_should_i_wake_up

\* Mutant of Advance: tests > where the code tests =.
AdvanceLate(pos, k) == IF pos + k > Size THEN 0 ELSE pos + k

\* The position after k more bytes: back to 0 at the end of the buffer.
Advance(pos, k) == IF pos + k = Size THEN 0 ELSE pos + k

-----------------------------------------------------------------------------
(* open and release.                                                       *)

Init ==
  /\ data = [i \in Index |-> 0]
  /\ read_pos = 0
  /\ write_pos = 0
  /\ queue = [o \in {"read", "write"} |-> {}]
  /\ mutex = NoProc
  /\ readers = 0
  /\ writers = 0
  /\ pc = [p \in Proc |-> "closed"]
  /\ mode = [p \in Proc |-> {}]
  /\ op = [p \in Proc |-> "none"]
  /\ work = [p \in Proc |-> 0]
  /\ sig = [p \in Proc |-> FALSE]
  /\ size = [p \in Proc |-> 0]
  /\ moved = [p \in Proc |-> 0]
  /\ ret = [p \in Proc |-> 0]
  /\ sent = 0
  /\ out = <<>>

OpenLock(p) ==
  /\ pc[p] = "closed"
  /\ \E m \in Modes[p] : mode' = [mode EXCEPT ![p] = m]
  /\ pipe_lock(p)
  /\ Goto(p, "open")
  /\ UNCHANGED <<pipeVars, queue, readers, writers, op, work, sig, sent, out, tellVars>>

\* Mutant of OpenCount: a file opened for both counts as a reader only.
OpenCountElse(p) ==
  /\ pc[p] = "open"
  /\ readers' = IF "R" \in mode[p] THEN readers + 1 ELSE readers
  /\ writers' = IF mode[p] = {"W"} THEN writers + 1 ELSE writers
  /\ pipe_unlock
  /\ Goto(p, "idle")
  /\ UNCHANGED <<pipeVars, queue, mode, op, work, sig, sent, out, tellVars>>

OpenCount(p) ==
  /\ pc[p] = "open"
  /\ readers' = IF "R" \in mode[p] THEN readers + 1 ELSE readers
  /\ writers' = IF "W" \in mode[p] THEN writers + 1 ELSE writers
  /\ pipe_unlock
  /\ Goto(p, "idle")
  /\ UNCHANGED <<pipeVars, queue, mode, op, work, sig, sent, out, tellVars>>

ReleaseLock(p) ==
  /\ pc[p] = "idle"
  /\ pipe_lock(p)
  /\ Goto(p, "release")
  /\ ret' = [ret EXCEPT ![p] = 0]
  /\ UNCHANGED <<pipeVars, queue, readers, writers, mode, op, work, sig, sent,
                 out, size, moved>>

\* Mutant of ReleaseCount: the last writer leaves without waking the readers.
ReleaseQuietly(p) ==
  /\ pc[p] = "release"
  /\ readers' = IF "R" \in mode[p] THEN readers - 1 ELSE readers
  /\ writers' = IF "W" \in mode[p] THEN writers - 1 ELSE writers
  /\ pipe_unlock
  /\ mode' = [mode EXCEPT ![p] = {}]
  /\ Goto(p, "closed")
  /\ UNCHANGED <<pipeVars, queue, op, work, sig, sent, out, tellVars>>

ReleaseCount(p) ==
  /\ pc[p] = "release"
  /\ readers' = IF "R" \in mode[p] THEN readers - 1 ELSE readers
  /\ writers' = IF "W" \in mode[p] THEN writers - 1 ELSE writers
  /\ IF "W" \in mode[p] /\ writers' = 0
       THEN pipe_wake_readers
       ELSE UNCHANGED queue
  /\ pipe_unlock
  /\ mode' = [mode EXCEPT ![p] = {}]
  /\ Goto(p, "closed")
  /\ UNCHANGED <<pipeVars, op, work, sig, sent, out, tellVars>>

-----------------------------------------------------------------------------
(* The start of read and write, and their loops.                           *)

ReadCall(p) ==
  /\ pc[p] = "idle" /\ "R" \in mode[p]
  /\ op' = [op EXCEPT ![p] = "read"]
  /\ \E count \in 0 .. MaxCount : work' = [work EXCEPT ![p] = count]
  /\ Goto(p, "lock")
  /\ ret' = [ret EXCEPT ![p] = 0]
  /\ UNCHANGED <<pipeVars, queue, mutex, readers, writers, mode, sig, sent, out, size, moved>>

WriteCall(p) ==
  /\ pc[p] = "idle" /\ "W" \in mode[p]
  /\ op' = [op EXCEPT ![p] = "write"]
  /\ \E count \in 0 .. MaxCount : /\ sent + count <= MaxSent
                                  /\ work' = [work EXCEPT ![p] = count]
  /\ Goto(p, "lock")
  /\ ret' = [ret EXCEPT ![p] = 0]
  /\ UNCHANGED <<pipeVars, queue, mutex, readers, writers, mode, sig, sent, out, size, moved>>

Enter(p) ==
  /\ pc[p] = "lock"
  /\ pipe_lock(p)
  /\ Goto(p, "loop")
  /\ UNCHANGED <<pipeVars, queue, readers, writers, mode, op, work, sig, sent,
                 out, tellVars>>

\* pipe_wait_read and pipe_wait_write free the mutex, then wait_event starts
\* with a test of its condition.
pipe_wait(p) == pipe_unlock /\ Goto(p, "cond") /\ UNCHANGED <<op, work, sig, tellVars>>

ReadLoop(p) ==
  /\ pc[p] = "loop" /\ op[p] = "read"
  /\ \/ /\ pipe_data = 0 /\ writers > 0
        /\ pipe_wait(p)
     \/ /\ pipe_data = 0 /\ writers = 0      \* EOF
        /\ pipe_unlock
        /\ Return(p, 0)
     \/ /\ pipe_data > 0
        /\ size' = [size EXCEPT ![p] = MinOf(pipe_data, work[p])]
        /\ work' = [work EXCEPT ![p] = MinOf(pipe_data, work[p])]
        /\ Goto(p, "chunk1")
        /\ UNCHANGED <<mutex, op, sig, moved, ret>>
  /\ UNCHANGED <<pipeVars, queue, readers, writers, mode, sent, out>>

WriteLoop(p) ==
  /\ pc[p] = "loop" /\ op[p] = "write"
  /\ \/ /\ pipe_room = 0
        /\ pipe_wait(p)
     \/ /\ pipe_room > 0
        /\ size' = [size EXCEPT ![p] = MinOf(pipe_room, work[p])]
        /\ work' = [work EXCEPT ![p] = MinOf(pipe_room, work[p])]
        /\ Goto(p, "chunk1")
        /\ UNCHANGED <<mutex, op, sig, moved, ret>>
  /\ UNCHANGED <<pipeVars, queue, readers, writers, mode, sent, out>>

-----------------------------------------------------------------------------
(* wait_event_interruptible, with the condition that returns true with the *)
(* mutex held and false with the mutex free.                               *)

\* Mutant of WaitOver: the condition returns true without the mutex.
WaitOverUnlocked(p) ==
  /\ pc[p] \in {"cond", "recheck", "lastcheck"}
  /\ ShouldWakeUp(p)
  /\ mutex = NoProc
  /\ queue' = [queue EXCEPT ![op[p]] = @ \ {p}]
  /\ Goto(p, "loop")
  /\ UNCHANGED <<pipeVars, mutex, readers, writers, mode, op, work, sig, sent,
                 out, tellVars>>

\* The condition holds: finish_wait takes p off the queue, and the loop of the
\* caller goes on with the mutex.
WaitOver(p) ==
  /\ pc[p] \in {"cond", "recheck", "lastcheck"}
  /\ ShouldWakeUp(p)
  /\ pipe_lock(p)
  /\ queue' = [queue EXCEPT ![op[p]] = @ \ {p}]
  /\ Goto(p, "loop")
  /\ UNCHANGED <<pipeVars, readers, writers, mode, op, work, sig, sent, out, tellVars>>

\* The condition fails.  Taking the mutex inside the condition may block, and
\* that leaves the task runnable: schedule() then returns at once.
WaitOn(p) ==
  /\ pc[p] \in {"cond", "recheck", "lastcheck"}
  /\ ~ ShouldWakeUp(p)
  /\ mutex = NoProc
  /\ Goto(p, CASE pc[p] = "cond"      -> "prep"
               [] pc[p] = "recheck"   -> "sched"
               [] pc[p] = "lastcheck" -> "eintr")
  /\ \E stay \in {{}, {p}} : queue' = [queue EXCEPT ![op[p]] = @ \ stay]
  /\ UNCHANGED <<pipeVars, mutex, readers, writers, mode, op, work, sig, sent,
                 out, tellVars>>

\* Mutant of Prepare: sleeps without testing the condition again.
PrepareNoRecheck(p) ==
  /\ pc[p] = "prep"
  /\ Goto(p, "sched")
  /\ queue' = [queue EXCEPT ![op[p]] = @ \cup {p}]
  /\ UNCHANGED <<pipeVars, mutex, readers, writers, mode, op, work, sig, sent,
                 out, tellVars>>

\* Mutant of Prepare: wait_event in the place of wait_event_interruptible.
PrepareUninterruptible(p) ==
  /\ pc[p] = "prep"
  /\ Goto(p, "recheck")
  /\ queue' = [queue EXCEPT ![op[p]] = @ \cup {p}]
  /\ UNCHANGED <<pipeVars, mutex, readers, writers, mode, op, work, sig, sent,
                 out, tellVars>>

\* prepare_to_wait_event puts p on the queue, unless a signal is pending.
Prepare(p) ==
  /\ pc[p] = "prep"
  /\ IF sig[p]
       THEN Goto(p, "lastcheck") /\ UNCHANGED queue
       ELSE /\ Goto(p, "recheck")
            /\ queue' = [queue EXCEPT ![op[p]] = @ \cup {p}]
  /\ UNCHANGED <<pipeVars, mutex, readers, writers, mode, op, work, sig, sent,
                 out, tellVars>>

\* schedule() returns once p has been woken.
Scheduled(p) ==
  /\ pc[p] = "sched"
  /\ p \notin queue[op[p]]
  /\ Goto(p, "prep")
  /\ UNCHANGED <<pipeVars, queue, mutex, readers, writers, mode, op, work, sig,
                 sent, out, tellVars>>

\* A signal is sent to p, which wakes it if it sleeps interruptibly.
Signal(p) ==
  /\ p \in Interruptible
  /\ pc[p] \in {"cond", "prep", "recheck", "sched"}
  /\ ~ sig[p]
  /\ sig' = [sig EXCEPT ![p] = TRUE]
  /\ queue' = [queue EXCEPT ![op[p]] = @ \ {p}]
  /\ UNCHANGED <<pipeVars, mutex, readers, writers, pc, mode, op, work, sent,
                 out, tellVars>>

\* wait_event returned -ERESTARTSYS, and the caller unlocks before it returns.
Interrupted(p) ==
  /\ pc[p] = "eintr"
  /\ pipe_unlock
  /\ Return(p, -ERESTARTSYS)
  /\ UNCHANGED <<pipeVars, queue, readers, writers, mode, sent, out>>

-----------------------------------------------------------------------------
(* Copying, in one chunk or in two when the bytes wrap around the end.     *)

\* The size of the chunk that a reader copies next.
ReadChunk(p) ==
  IF pc[p] = "chunk1" /\ read_pos > write_pos
    THEN MinOf(work[p], Size - read_pos)
    ELSE work[p]

\* Mutant of WriteChunk: does not split at the end of the buffer.
WriteChunkWhole(p) == work[p]

\* The size of the chunk that a writer copies next.
WriteChunk(p) ==
  IF pc[p] = "chunk1" /\ read_pos <= write_pos
    THEN MinOf(work[p], Size - write_pos)
    ELSE work[p]

\* The k bytes at read_pos go to the user.
pipe_copy_to_user(k) ==
  /\ out' = out \o [i \in 1 .. k |-> data[read_pos + i - 1]]
  /\ read_pos' = Advance(read_pos, k)

\* The next k bytes come from the user.
pipe_copy_from_user(k) ==
  /\ data' = [i \in Index |-> IF i \in write_pos .. write_pos + k - 1
                                THEN sent + 1 + i - write_pos
                                ELSE data[i]]
  /\ write_pos' = Advance(write_pos, k)
  /\ sent' = sent + k

\* Mutant of AfterChunk: the second chunk is forgotten.
AfterFirstChunk(p, k) ==
  /\ work' = [work EXCEPT ![p] = @ - k]
  /\ moved' = [moved EXCEPT ![p] = @ + k]
  /\ Goto(p, "done")

\* What is left of work_size after a chunk of k bytes.
AfterChunk(p, k) ==
  /\ work' = [work EXCEPT ![p] = @ - k]
  /\ moved' = [moved EXCEPT ![p] = @ + k]
  /\ Goto(p, IF k < work[p] THEN "chunk2" ELSE "done")

CopyOut(p) ==
  /\ pc[p] \in {"chunk1", "chunk2"} /\ op[p] = "read"
  /\ pipe_copy_to_user(ReadChunk(p))
  /\ AfterChunk(p, ReadChunk(p))
  /\ UNCHANGED <<data, write_pos, queue, mutex, readers, writers, mode, op, sig,
                 sent, size, ret>>

\* Mutant of CopyIn: the mutex is free between the two chunks.
CopyInDropsLock(p) ==
  /\ pc[p] \in {"chunk1", "chunk2"} /\ op[p] = "write"
  /\ pipe_copy_from_user(WriteChunk(p))
  /\ AfterChunk(p, WriteChunk(p))
  /\ mutex' = IF WriteChunk(p) < work[p] THEN NoProc ELSE mutex
  /\ UNCHANGED <<read_pos, queue, readers, writers, mode, op, sig, out, size, ret>>

CopyIn(p) ==
  /\ pc[p] \in {"chunk1", "chunk2"} /\ op[p] = "write"
  /\ pipe_copy_from_user(WriteChunk(p))
  /\ AfterChunk(p, WriteChunk(p))
  /\ UNCHANGED <<read_pos, queue, mutex, readers, writers, mode, op, sig, out, size, ret>>

\* copy_to_user fails: the position stays, the mutex is freed, nobody is woken,
\* and the call returns the number of bytes of the chunk that were not copied.
FaultOut(p) ==
  /\ p \in Faulty
  /\ pc[p] \in {"chunk1", "chunk2"} /\ op[p] = "read"
  /\ \E k \in 0 .. ReadChunk(p) - 1 : Return(p, ReadChunk(p) - k)
  /\ pipe_unlock
  /\ UNCHANGED <<pipeVars, queue, readers, writers, mode, sent, out>>

\* Mutant of FaultIn: write_pos moves although the copy failed.
FaultInAdvances(p) ==
  /\ p \in Faulty
  /\ pc[p] \in {"chunk1", "chunk2"} /\ op[p] = "write"
  /\ WriteChunk(p) > 0
  /\ write_pos' = Advance(write_pos, WriteChunk(p))
  /\ pipe_unlock
  /\ Return(p, WriteChunk(p))
  /\ UNCHANGED <<data, read_pos, queue, readers, writers, mode, sent, out>>

\* copy_from_user fails after k bytes, which are in the buffer all the same.  The
\* number that were not copied is what the call returns.
FaultIn(p) ==
  /\ p \in Faulty
  /\ pc[p] \in {"chunk1", "chunk2"} /\ op[p] = "write"
  /\ \E k \in 0 .. WriteChunk(p) - 1 :
       /\ data' = [i \in Index |-> IF i \in write_pos .. write_pos + k - 1
                                     THEN 0 ELSE data[i]]
       /\ Return(p, WriteChunk(p) - k)
  /\ pipe_unlock
  /\ UNCHANGED <<read_pos, write_pos, queue, readers, writers, mode, sent, out>>

Done(p) ==
  /\ pc[p] = "done"
  /\ pipe_unlock
  /\ Goto(p, "wake")
  /\ UNCHANGED <<pipeVars, queue, readers, writers, mode, op, work, sig, sent,
                 out, tellVars>>

\* Mutant of Wake: each side wakes its own queue.
WakeOwnSide(p) ==
  /\ pc[p] = "wake"
  /\ IF op[p] = "read" THEN pipe_wake_readers ELSE pipe_wake_writers
  /\ Return(p, size[p])
  /\ UNCHANGED <<pipeVars, mutex, readers, writers, mode, sent, out>>

\* The other side is woken after the mutex has been freed.
Wake(p) ==
  /\ pc[p] = "wake"
  /\ IF op[p] = "read" THEN pipe_wake_writers ELSE pipe_wake_readers
  /\ Return(p, size[p])
  /\ UNCHANGED <<pipeVars, mutex, readers, writers, mode, sent, out>>

-----------------------------------------------------------------------------

\* The calls a user program makes, in any order and for as long as it likes.
User(p) == OpenLock(p) \/ ReleaseLock(p) \/ ReadCall(p) \/ WriteCall(p)

\* The steps of the driver that wait for the mutex.
Lock(p) == Enter(p) \/ WaitOver(p) \/ WaitOn(p)

\* The steps of the driver that wait for nothing, or for a wake-up.
Run(p) ==
  \/ OpenCount(p) \/ ReleaseCount(p)
  \/ ReadLoop(p) \/ WriteLoop(p)
  \/ Prepare(p) \/ Scheduled(p) \/ Interrupted(p)
  \/ CopyOut(p) \/ CopyIn(p) \/ Done(p) \/ Wake(p)

\* What the environment may do to a call in progress.
Disturb(p) == Signal(p) \/ FaultOut(p) \/ FaultIn(p)

Next == \E p \in Proc : User(p) \/ Lock(p) \/ Run(p) \/ Disturb(p)

Spec == Init /\ [][Next]_vars

\* The scheduler runs every runnable process, and the kernel's mutex hands
\* itself over to a waiter that has been passed over: nobody waits for ever for
\* a mutex that is freed again and again.
Fairness == \A p \in Proc : WF_vars(Run(p)) /\ SF_vars(Lock(p))

FairSpec == Spec /\ Fairness

-----------------------------------------------------------------------------
(* Properties.                                                             *)

\* The types of the fields of struct my_pipe_t, of the state of the processes and
\* of the history of the bytes.
FieldsOK ==
  /\ data \in [Index -> Nat]
  /\ read_pos \in Index
  /\ write_pos \in Index
  /\ queue \in [{"read", "write"} -> SUBSET Proc]
  /\ mutex \in Proc \cup {NoProc}
  /\ readers \in Int
  /\ writers \in Int
  /\ pc \in [Proc -> Pcs]
  /\ mode \in [Proc -> SUBSET {"R", "W"}]
  /\ op \in [Proc -> {"read", "write", "none"}]
  /\ work \in [Proc -> Nat]
  /\ sig \in [Proc -> BOOLEAN]
  /\ sent \in Nat
  /\ out \in Seq(Nat)

\* The sizes the driver computes with and returns are ints.
SizesOK ==
  /\ size \in [Proc -> Int]
  /\ moved \in [Proc -> Int]
  /\ ret \in [Proc -> Int]

\* Every variable of the driver and of its processes has its type.
TypeOK == FieldsOK /\ SizesOK

\* The places between pipe_lock and pipe_unlock.
Critical == {"open", "release", "loop", "chunk1", "chunk2", "done"}

\* "we protect the pipe here using a mutex" (the notes at the top of the file):
\* whoever is between pipe_lock and pipe_unlock owns the mutex, so that there
\* is never more than one such process.
MutualExclusion == \A p \in Proc : pc[p] \in Critical => mutex = p

\* The bytes in the buffer from read_pos up to write_pos, around the end.
Slot(j) == IF read_pos + j <= Size THEN read_pos + j - 1
                                   ELSE read_pos + j - 1 - Size
Unread == [j \in 1 .. pipe_data |-> data[Slot(j)]]

\* The pipe is a pipe: what the readers got, followed by what is in the buffer,
\* is what the writers put there, in that order, with nothing lost, repeated or
\* overwritten, across wrap-arounds and failed copies.
Fifo == out \o Unread = [i \in 1 .. sent |-> i]

\* BUG_ON(write_pos > size) and BUG_ON(read_pos > size) never fire: the chunk a
\* process is about to copy ends inside the buffer, inside the room there is
\* (for a writer) and inside the data there is (for a reader).
BugOnNeverFires ==
  \A p \in Proc : pc[p] \in {"chunk1", "chunk2"} =>
    IF op[p] = "read"
      THEN read_pos + ReadChunk(p) <= Size /\ work[p] <= pipe_data
      ELSE write_pos + WriteChunk(p) <= Size /\ work[p] <= pipe_room

\* A call that copies in two chunks does so as one: between its two chunks no
\* other process moves read_pos or write_pos.
ChunksOfOneCall ==
  [][\A p \in Proc : pc[p] = "chunk2" /\ pc'[p] = "chunk2"
                       => UNCHANGED pipeVars]_vars

\* read returns 0 for end of file only when every accepted byte has been
\* delivered and no process has the device open for writing: the count of
\* writers the driver keeps is not behind the files that are open.
EofMeansNoWriter ==
  [][\A p \in Proc :
       pc[p] = "loop" /\ op[p] = "read" /\ pc'[p] = "idle"
         => /\ Len(out) = sent
            /\ \A q \in Proc : "W" \in mode[q] => pc[q] = "open"]_vars

\* What read and write return is what they did: the number of bytes that were
\* moved, over both chunks; 0 for end of file; -ERESTARTSYS when a signal came
\* before any byte was moved.  A failed copy is the exception: it returns the
\* bytes of one chunk that were not copied, whatever the call moved before.
CountsReturned ==
  [][\A p \in Proc : op[p] # "none" /\ op'[p] = "none" =>
       IF pc[p] \in {"chunk1", "chunk2"}
         THEN ret'[p] \in 1 .. work[p]
         ELSE \/ ret'[p] = moved[p]
              \/ ret'[p] = -ERESTARTSYS /\ moved[p] = 0]_vars

\* "put the reader to sleep until the writer decides to write something or
\* disconnect" (exercise.md): a process sleeps on a queue only while what it
\* waits for has not happened, or while a process that made it happen is still
\* on its way to waking the queue.  A note at the top of the file says that closing
\* the last writer does not make the readers wake up and return EOF; pipe_release,
\* which wakes them, has made it out of date.
NoLostWakeup ==
  \A p \in Proc :
    pc[p] = "sched" /\ p \in queue[op[p]] /\ ShouldWakeUp(p) =>
      \E q \in Proc : /\ op[q] \notin {op[p], "none"}
                      /\ pc[q] \in {"chunk2", "done", "wake"}

\* Every read call returns, unless the pipe is found empty, with a writer
\* connected, again and again.
ReadReturns ==
  \A p \in Proc : []<>(op[p] # "read")
                  \/ []<>(pipe_data = 0 /\ writers > 0)

\* Every write call returns, unless the pipe is found full again and again.
WriteReturns ==
  \A p \in Proc : []<>(op[p] # "write") \/ []<>(pipe_room = 0)

\* A call that a signal reaches while it waits returns.
SignalledReturns == \A p \in Proc : sig[p] ~> op[p] = "none"

\* The abstract pipe: a bounded channel of bytes.
Channel == INSTANCE BoundedChannel
             WITH Capacity <- Size - 1, chan <- Unread

\* The ring buffer with its two positions implements the bounded channel.
ImplementsChannel == Channel!Spec

=============================================================================
