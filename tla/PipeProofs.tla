----------------------------- MODULE PipeProofs -----------------------------
(***************************************************************************)
(* Proofs about one device of the pipe driver, for every set of processes, *)
(* every buffer size and every bound on the calls.                         *)
(***************************************************************************)
EXTENDS Pipe, Segments

\* Without signals nobody leaves wait_event with -ERESTARTSYS.
NoSignal == \A p \in Proc : sig[p] = FALSE /\ pc[p] \notin {"lastcheck", "eintr"}

\* A call is in progress exactly in the places between its start and its return.
OpInv ==
  \A p \in Proc : op[p] = "none" <=> pc[p] \in {"closed", "open", "idle", "release"}

\* The slots from read_pos to write_pos hold the accepted bytes that have not
\* been delivered, and what was delivered is a prefix of what was accepted.
RingInv ==
  /\ sent = Len(out) + pipe_data
  /\ \A i \in 1 .. Len(out) : out[i] = i
  /\ \A i \in Index :
       /\ read_pos <= i /\ (i < write_pos \/ write_pos < read_pos)
            => data[i] = Len(out) + 1 + i - read_pos
       /\ write_pos < read_pos /\ i < write_pos
            => data[i] = Len(out) + 1 + i + Size - read_pos

\* What a process still has to copy is there, or fits; a second chunk starts at
\* the beginning of the buffer.
CopyInv ==
  \A p \in Proc :
    /\ pc[p] \in {"chunk1", "chunk2"} =>
         IF op[p] = "read" THEN work[p] <= pipe_data ELSE work[p] <= pipe_room
    /\ pc[p] = "chunk2" =>
         IF op[p] = "read" THEN read_pos = 0 ELSE write_pos = 0

\* The inductive invariant.
IInv ==
  FieldsOK /\ NoSignal /\ OpInv /\ MutualExclusion /\ RingInv /\ CopyInv

\* The ring is untouched by most steps.
LEMMA RingUnchanged ==
  ASSUME RingInv, UNCHANGED <<data, read_pos, write_pos, sent, out>>
  PROVE  RingInv'
  BY Zenon DEF RingInv, pipe_data

\* The state pipe_ctor sets up satisfies the invariant.
LEMMA InitIInv == Init => IInv
  BY SizeAssumption, NoProcAssumption
     DEF Init, IInv, FieldsOK, NoSignal, OpInv, MutualExclusion, RingInv, CopyInv,
         Index, Pcs, Critical, pipe_data, pipe_room

\* pipe_open taking the mutex keeps the invariant.
LEMMA OpenLockIInv ==
  ASSUME IInv, NEW p \in Proc, OpenLock(p)
  PROVE  IInv'
  <1>1. RingInv'
    BY Zenon, RingUnchanged DEF OpenLock, pipeVars, IInv
  <1>2. FieldsOK'
    <2>1. PICK m \in Modes[p] : mode' = [mode EXCEPT ![p] = m]
      BY Zenon DEF OpenLock
    <2>2. m \in SUBSET {"R", "W"}
      BY Zenon, ModesAssumption
    <2>3. mode' \in [Proc -> SUBSET {"R", "W"}]
      BY Zenon, <2>1, <2>2 DEF IInv, FieldsOK
    <2>4. QED
      BY Zenon, <2>3 DEF OpenLock, pipe_lock, Goto, pipeVars, IInv, FieldsOK, Pcs
  <1>3. NoSignal' /\ OpInv' /\ MutualExclusion' /\ CopyInv'
    BY NoProcAssumption DEF OpenLock, pipe_lock, Goto, pipeVars, IInv, FieldsOK, Pcs,
       NoSignal, OpInv, MutualExclusion, CopyInv, Critical, pipe_data, pipe_room
  <1>4. QED
    BY Zenon, <1>1, <1>2, <1>3 DEF IInv

\* pipe_open counting the file and freeing the mutex keeps the invariant.
LEMMA OpenCountIInv ==
  ASSUME IInv, NEW p \in Proc, OpenCount(p)
  PROVE  IInv'
  <1>1. RingInv'
    BY Zenon, RingUnchanged DEF OpenCount, pipeVars, IInv
  <1>2. FieldsOK'
    BY ModesAssumption DEF OpenCount, pipe_unlock, Goto, pipeVars, IInv, FieldsOK, Pcs, NoSignal
  <1>3. NoSignal' /\ OpInv' /\ MutualExclusion' /\ CopyInv'
    BY NoProcAssumption DEF OpenCount, pipe_unlock, Goto, pipeVars, IInv, FieldsOK, Pcs,
       NoSignal, OpInv, MutualExclusion, CopyInv, Critical, pipe_data, pipe_room
  <1>4. QED
    BY Zenon, <1>1, <1>2, <1>3 DEF IInv

\* pipe_release taking the mutex keeps the invariant.
LEMMA ReleaseLockIInv ==
  ASSUME IInv, NEW p \in Proc, ReleaseLock(p)
  PROVE  IInv'
  <1>1. RingInv'
    BY Zenon, RingUnchanged DEF ReleaseLock, pipeVars, IInv
  <1>2. FieldsOK'
    BY Zenon, ModesAssumption DEF ReleaseLock, pipe_lock, Goto, pipeVars, IInv, FieldsOK, Pcs,
       NoSignal
  <1>3. NoSignal' /\ OpInv' /\ MutualExclusion' /\ CopyInv'
    BY NoProcAssumption DEF ReleaseLock, pipe_lock, Goto, pipeVars, IInv, FieldsOK, Pcs,
       NoSignal, OpInv, MutualExclusion, CopyInv, Critical, pipe_data, pipe_room
  <1>4. QED
    BY Zenon, <1>1, <1>2, <1>3 DEF IInv

\* pipe_release counting the file out keeps the invariant.
LEMMA ReleaseCountIInv ==
  ASSUME IInv, NEW p \in Proc, ReleaseCount(p)
  PROVE  IInv'
  <1>1. RingInv'
    BY Zenon, RingUnchanged DEF ReleaseCount, pipeVars, IInv
  <1>2. FieldsOK'
    BY ModesAssumption DEF ReleaseCount, pipe_unlock, Goto, pipeVars, pipe_wake_readers,
       IInv, FieldsOK, Pcs, NoSignal
  <1>3. NoSignal' /\ OpInv' /\ MutualExclusion' /\ CopyInv'
    BY NoProcAssumption DEF ReleaseCount, pipe_unlock, Goto, pipeVars, pipe_wake_readers,
       IInv, FieldsOK, Pcs, NoSignal, OpInv, MutualExclusion, CopyInv, Critical, pipe_data,
          pipe_room
  <1>4. QED
    BY Zenon, <1>1, <1>2, <1>3 DEF IInv

\* The start of pipe_read keeps the invariant.
LEMMA ReadCallIInv ==
  ASSUME IInv, NEW p \in Proc, ReadCall(p)
  PROVE  IInv'
  <1>1. RingInv'
    BY Zenon, RingUnchanged DEF ReadCall, pipeVars, IInv
  <1>2. FieldsOK'
    BY ModesAssumption DEF ReadCall, Goto, pipeVars, IInv, FieldsOK, Pcs, NoSignal
  <1>3. NoSignal' /\ OpInv' /\ MutualExclusion' /\ CopyInv'
    BY NoProcAssumption DEF ReadCall, Goto, pipeVars, IInv, FieldsOK, Pcs,
       NoSignal, OpInv, MutualExclusion, CopyInv, Critical, pipe_data, pipe_room
  <1>4. QED
    BY Zenon, <1>1, <1>2, <1>3 DEF IInv

\* The start of pipe_write keeps the invariant.
LEMMA WriteCallIInv ==
  ASSUME IInv, NEW p \in Proc, WriteCall(p)
  PROVE  IInv'
  <1>1. RingInv'
    BY Zenon, RingUnchanged DEF WriteCall, pipeVars, IInv
  <1>2. FieldsOK'
    BY ModesAssumption DEF WriteCall, Goto, pipeVars, IInv, FieldsOK, Pcs, NoSignal
  <1>3. NoSignal' /\ OpInv' /\ MutualExclusion' /\ CopyInv'
    BY NoProcAssumption DEF WriteCall, Goto, pipeVars, IInv, FieldsOK, Pcs,
       NoSignal, OpInv, MutualExclusion, CopyInv, Critical, pipe_data, pipe_room
  <1>4. QED
    BY Zenon, <1>1, <1>2, <1>3 DEF IInv

\* A call that takes the mutex keeps the invariant: nobody else is inside.
LEMMA EnterIInv ==
  ASSUME IInv, NEW p \in Proc, Enter(p)
  PROVE  IInv'
  <1>1. RingInv'
    BY Zenon, RingUnchanged DEF Enter, pipeVars, IInv
  <1>2. FieldsOK'
    BY Zenon, ModesAssumption DEF Enter, pipe_lock, Goto, pipeVars, IInv, FieldsOK, Pcs, NoSignal
  <1>3. NoSignal' /\ OpInv' /\ MutualExclusion' /\ CopyInv'
    BY NoProcAssumption DEF Enter, pipe_lock, Goto, pipeVars, IInv, FieldsOK, Pcs,
       NoSignal, OpInv, MutualExclusion, CopyInv, Critical, pipe_data, pipe_room
  <1>4. QED
    BY Zenon, <1>1, <1>2, <1>3 DEF IInv

\* A wait that ends with its condition true ends with the mutex held.
LEMMA WaitOverIInv ==
  ASSUME IInv, NEW p \in Proc, WaitOver(p)
  PROVE  IInv'
  <1>1. RingInv'
    BY Zenon, RingUnchanged DEF WaitOver, pipeVars, IInv
  <1>2. FieldsOK'
    BY Zenon, ModesAssumption
       DEF WaitOver, pipe_lock, Goto, pipeVars, IInv, FieldsOK, Pcs, NoSignal
  <1>3. NoSignal' /\ OpInv' /\ MutualExclusion' /\ CopyInv'
    BY NoProcAssumption DEF WaitOver, pipe_lock, Goto, pipeVars, IInv, FieldsOK, Pcs,
       NoSignal, OpInv, MutualExclusion, CopyInv, Critical, pipe_data, pipe_room
  <1>4. QED
    BY Zenon, <1>1, <1>2, <1>3 DEF IInv

\* A wait whose condition is false goes on with the mutex free.
LEMMA WaitOnIInv ==
  ASSUME IInv, NEW p \in Proc, WaitOn(p)
  PROVE  IInv'
  <1>1. RingInv'
    BY Zenon, RingUnchanged DEF WaitOn, pipeVars, IInv
  <1>2. PICK l \in {"prep", "sched"} : pc' = [pc EXCEPT ![p] = l]
    BY Zenon DEF WaitOn, Goto, IInv, NoSignal
  <1>3. queue' \in [{"read", "write"} -> SUBSET Proc]
    <2>1. PICK stay \in {{}, {p}} :
            queue' = [queue EXCEPT ![op[p]] = @ \ stay]
      BY Zenon DEF WaitOn
    <2>2. op[p] \in {"read", "write"}
      BY Zenon DEF WaitOn, IInv, FieldsOK, OpInv
    <2>3. QED
      BY Zenon, <2>1, <2>2 DEF IInv, FieldsOK
  <1>4. FieldsOK'
    BY Zenon, <1>2, <1>3 DEF WaitOn, pipeVars, IInv, FieldsOK, Pcs
  <1>5. NoSignal' /\ OpInv' /\ MutualExclusion' /\ CopyInv'
    BY <1>2, NoProcAssumption DEF WaitOn, pipeVars, IInv, FieldsOK, Pcs,
       NoSignal, OpInv, MutualExclusion, CopyInv, Critical, pipe_data, pipe_room
  <1>6. QED
    BY Zenon, <1>1, <1>4, <1>5 DEF IInv

\* prepare_to_wait_event keeps the invariant; no signal is pending.
LEMMA PrepareIInv ==
  ASSUME IInv, NEW p \in Proc, Prepare(p)
  PROVE  IInv'
  <1>1. RingInv'
    BY Zenon, RingUnchanged DEF Prepare, pipeVars, IInv
  <1>2. /\ pc' = [pc EXCEPT ![p] = "recheck"]
        /\ queue' = [queue EXCEPT ![op[p]] = @ \cup {p}]
    BY Zenon DEF Prepare, Goto, IInv, NoSignal
  <1>3. op[p] \in {"read", "write"}
    BY Zenon DEF Prepare, IInv, FieldsOK, OpInv
  <1>4. FieldsOK'
    BY Zenon, <1>2, <1>3 DEF Prepare, pipeVars, IInv, FieldsOK, Pcs
  <1>5. NoSignal' /\ OpInv' /\ MutualExclusion' /\ CopyInv'
    BY <1>2, NoProcAssumption DEF Prepare, pipeVars, IInv, FieldsOK, Pcs,
       NoSignal, OpInv, MutualExclusion, CopyInv, Critical, pipe_data, pipe_room
  <1>6. QED
    BY Zenon, <1>1, <1>4, <1>5 DEF IInv

\* The return of schedule() keeps the invariant.
LEMMA ScheduledIInv ==
  ASSUME IInv, NEW p \in Proc, Scheduled(p)
  PROVE  IInv'
  <1>1. RingInv'
    BY Zenon, RingUnchanged DEF Scheduled, pipeVars, IInv
  <1>2. FieldsOK'
    BY Zenon, ModesAssumption DEF Scheduled, Goto, pipeVars, IInv, FieldsOK, Pcs, NoSignal
  <1>3. NoSignal' /\ OpInv' /\ MutualExclusion' /\ CopyInv'
    BY NoProcAssumption DEF Scheduled, Goto, pipeVars, IInv, FieldsOK, Pcs,
       NoSignal, OpInv, MutualExclusion, CopyInv, Critical, pipe_data, pipe_room
  <1>4. QED
    BY Zenon, <1>1, <1>2, <1>3 DEF IInv

\* Freeing the mutex after the copy keeps the invariant.
LEMMA DoneIInv ==
  ASSUME IInv, NEW p \in Proc, Done(p)
  PROVE  IInv'
  <1>1. RingInv'
    BY Zenon, RingUnchanged DEF Done, pipeVars, IInv
  <1>2. FieldsOK'
    BY Zenon, ModesAssumption DEF Done, pipe_unlock, Goto, pipeVars, IInv, FieldsOK, Pcs,
       NoSignal
  <1>3. NoSignal' /\ OpInv' /\ MutualExclusion' /\ CopyInv'
    BY NoProcAssumption DEF Done, pipe_unlock, Goto, pipeVars, IInv, FieldsOK, Pcs,
       NoSignal, OpInv, MutualExclusion, CopyInv, Critical, pipe_data, pipe_room
  <1>4. QED
    BY Zenon, <1>1, <1>2, <1>3 DEF IInv

\* Waking the other side and returning keeps the invariant.
LEMMA WakeIInv ==
  ASSUME IInv, NEW p \in Proc, Wake(p)
  PROVE  IInv'
  <1>1. RingInv'
    BY Zenon, RingUnchanged DEF Wake, pipeVars, IInv
  <1>2. FieldsOK'
    BY ModesAssumption DEF Wake, Return, Goto, pipeVars, pipe_wake_readers,
       pipe_wake_writers, IInv, FieldsOK, Pcs, NoSignal
  <1>3. NoSignal' /\ OpInv' /\ MutualExclusion' /\ CopyInv'
    BY NoProcAssumption DEF Wake, Return, Goto, pipeVars, pipe_wake_readers,
       pipe_wake_writers, IInv, FieldsOK, Pcs, NoSignal, OpInv, MutualExclusion, CopyInv,
          Critical, pipe_data, pipe_room
  <1>4. QED
    BY Zenon, <1>1, <1>2, <1>3 DEF IInv

\* A failed copy_to_user leaves the ring as it is.
LEMMA FaultOutIInv ==
  ASSUME IInv, NEW p \in Proc, FaultOut(p)
  PROVE  IInv'
  <1>1. RingInv'
    BY Zenon, RingUnchanged DEF FaultOut, pipeVars, IInv
  <1>2. FieldsOK'
    <2>1. PICK v : Return(p, v)
      BY Zenon DEF FaultOut
    <2>2. QED
      BY Zenon, <2>1 DEF FaultOut, pipe_unlock, Return, Goto, pipeVars, IInv, FieldsOK, Pcs
  <1>3. NoSignal' /\ OpInv' /\ MutualExclusion' /\ CopyInv'
    BY NoProcAssumption DEF FaultOut, pipe_unlock, Return, Goto, pipeVars, IInv, FieldsOK, Pcs,
       NoSignal, OpInv, MutualExclusion, CopyInv, Critical, pipe_data, pipe_room
  <1>4. QED
    BY Zenon, <1>1, <1>2, <1>3 DEF IInv

\* The loop of pipe_read: a work_size is at most the data there is.
LEMMA ReadLoopIInv ==
  ASSUME IInv, NEW p \in Proc, ReadLoop(p)
  PROVE  IInv'
  <1>1. RingInv'
    BY Zenon, RingUnchanged DEF ReadLoop, pipeVars, IInv
  <1>2. pipe_data \in Nat /\ work[p] \in Nat
    BY SizeAssumption DEF IInv, FieldsOK, pipe_data, Index
  <1>3. CASE pipe_wait(p)
    <2>1. FieldsOK'
      BY Zenon, <1>3 DEF ReadLoop, pipe_wait, pipe_unlock, Goto, pipeVars, IInv, FieldsOK,
         Pcs
    <2>2. NoSignal' /\ OpInv'
      BY <1>3 DEF ReadLoop, pipe_wait, pipe_unlock, Goto,
         pipeVars, IInv, FieldsOK, Pcs, NoSignal, OpInv
    <2>3. MutualExclusion' /\ CopyInv'
      BY <1>3, NoProcAssumption DEF ReadLoop, pipe_wait, pipe_unlock, Goto,
         pipeVars, IInv, FieldsOK, Pcs, MutualExclusion, Critical,
         CopyInv, pipe_data, pipe_room
    <2>4. QED
      BY Zenon, <1>1, <2>1, <2>2, <2>3 DEF IInv
  <1>4. CASE pipe_unlock /\ Return(p, 0)
    <2>1. FieldsOK'
      BY Zenon, <1>4 DEF ReadLoop, Return, pipe_unlock, Goto, pipeVars, IInv, FieldsOK, Pcs
    <2>2. NoSignal' /\ OpInv'
      BY <1>4 DEF ReadLoop, Return, pipe_unlock, Goto,
         pipeVars, IInv, FieldsOK, Pcs, NoSignal, OpInv
    <2>3. MutualExclusion' /\ CopyInv'
      BY <1>4, NoProcAssumption DEF ReadLoop, Return, pipe_unlock, Goto,
         pipeVars, IInv, FieldsOK, Pcs, MutualExclusion, Critical,
         CopyInv, pipe_data, pipe_room
    <2>4. QED
      BY Zenon, <1>1, <2>1, <2>2, <2>3 DEF IInv
  <1>5. CASE /\ work' = [work EXCEPT ![p] = MinOf(pipe_data, work[p])]
             /\ Goto(p, "chunk1")
             /\ UNCHANGED <<mutex, op, sig>>
    <2>1. FieldsOK'
      BY Zenon, <1>2, <1>5 DEF ReadLoop, Goto, pipeVars, IInv, FieldsOK, Pcs, MinOf
    <2>2. NoSignal' /\ OpInv'
      BY Zenon, <1>2, <1>5 DEF ReadLoop, Goto,
         pipeVars, IInv, FieldsOK, Pcs, NoSignal, OpInv
    <2>3. MutualExclusion' /\ CopyInv'
      BY <1>2, <1>5, NoProcAssumption DEF ReadLoop, Goto,
         pipeVars, IInv, FieldsOK, Pcs, MutualExclusion, Critical,
         CopyInv, pipe_data, pipe_room, MinOf
    <2>4. QED
      BY Zenon, <1>1, <2>1, <2>2, <2>3 DEF IInv
  <1>6. QED
    BY Zenon, <1>3, <1>4, <1>5 DEF ReadLoop

\* The loop of pipe_write: a work_size is at most the room there is.
LEMMA WriteLoopIInv ==
  ASSUME IInv, NEW p \in Proc, WriteLoop(p)
  PROVE  IInv'
  <1>1. RingInv'
    BY Zenon, RingUnchanged DEF WriteLoop, pipeVars, IInv
  <1>2. pipe_room \in Nat /\ work[p] \in Nat
    BY SizeAssumption DEF IInv, FieldsOK, pipe_room, Index
  <1>3. CASE pipe_wait(p)
    <2>1. FieldsOK'
      BY Zenon, <1>3 DEF WriteLoop, pipe_wait, pipe_unlock, Goto, pipeVars, IInv, FieldsOK,
         Pcs
    <2>2. NoSignal' /\ OpInv'
      BY Zenon, <1>3 DEF WriteLoop, pipe_wait, pipe_unlock, Goto,
         pipeVars, IInv, FieldsOK, Pcs, NoSignal, OpInv
    <2>3. MutualExclusion' /\ CopyInv'
      BY Zenon, <1>3, NoProcAssumption DEF WriteLoop, pipe_wait, pipe_unlock, Goto,
         pipeVars, IInv, FieldsOK, Pcs, MutualExclusion, Critical,
         CopyInv, pipe_data, pipe_room
    <2>4. QED
      BY Zenon, <1>1, <2>1, <2>2, <2>3 DEF IInv
  <1>4. CASE /\ work' = [work EXCEPT ![p] = MinOf(pipe_room, work[p])]
             /\ Goto(p, "chunk1")
             /\ UNCHANGED <<mutex, op, sig>>
    <2>1. FieldsOK'
      BY Zenon, <1>2, <1>4 DEF WriteLoop, Goto, pipeVars, IInv, FieldsOK, Pcs, MinOf
    <2>2. NoSignal' /\ OpInv'
      BY Zenon, <1>2, <1>4 DEF WriteLoop, Goto,
         pipeVars, IInv, FieldsOK, Pcs, NoSignal, OpInv
    <2>3. MutualExclusion' /\ CopyInv'
      BY SMTT(30), <1>2, <1>4, NoProcAssumption DEF WriteLoop, Goto,
         pipeVars, IInv, FieldsOK, Pcs, MutualExclusion, Critical,
         CopyInv, pipe_data, pipe_room, MinOf
    <2>4. QED
      BY Zenon, <1>1, <2>1, <2>2, <2>3 DEF IInv
  <1>5. QED
    BY Zenon, <1>3, <1>4 DEF WriteLoop

\* The chunk a reader copies next is in the buffer, is data, and leaves
\* something for a second chunk only if it ends where the buffer ends.
LEMMA ReadChunkFits ==
  ASSUME IInv, NEW p \in Proc, pc[p] \in {"chunk1", "chunk2"}, op[p] = "read"
  PROVE  /\ ReadChunk(p) \in 0 .. work[p]
         /\ read_pos + ReadChunk(p) <= Size
         /\ ReadChunk(p) <= pipe_data
         /\ read_pos <= write_pos => read_pos + ReadChunk(p) <= write_pos
         /\ ReadChunk(p) < work[p] => read_pos + ReadChunk(p) = Size
  <1>1. /\ work[p] \in Nat /\ Size \in Nat \ {0}
        /\ read_pos \in 0 .. Size - 1 /\ write_pos \in 0 .. Size - 1
    BY Zenon, SizeAssumption DEF IInv, FieldsOK, Index
  <1>2. work[p] <= pipe_data /\ (pc[p] = "chunk2" => read_pos = 0)
    BY Zenon DEF IInv, CopyInv
  <1>3. CASE read_pos <= write_pos
    <2>1. pipe_data = write_pos - read_pos
      BY Zenon, <1>3 DEF pipe_data
    <2>2. ReadChunk(p) = work[p]
      BY <1>1, <1>3 DEF ReadChunk
    <2>3. QED
      BY <1>1, <1>2, <1>3, <2>1, <2>2
  <1>4. CASE ~ (read_pos <= write_pos)
    <2>1. pipe_data = Size - read_pos + write_pos
      BY Zenon, <1>4 DEF pipe_data
    <2>2. pc[p] = "chunk1"
      BY <1>1, <1>2, <1>4
    <2>3. \/ work[p] <= Size - read_pos /\ ReadChunk(p) = work[p]
          \/ work[p] > Size - read_pos /\ ReadChunk(p) = Size - read_pos
      BY <1>1, <1>4, <2>2 DEF ReadChunk, MinOf
    <2>4. QED
      BY <1>1, <1>2, <1>4, <2>1, <2>3
  <1>5. QED
    BY Zenon, <1>3, <1>4

\* The chunk a writer copies next is in the buffer, fits in the room, and leaves
\* something for a second chunk only if it ends where the buffer ends.
LEMMA WriteChunkFits ==
  ASSUME IInv, NEW p \in Proc, pc[p] \in {"chunk1", "chunk2"}, op[p] = "write"
  PROVE  /\ WriteChunk(p) \in 0 .. work[p]
         /\ write_pos + WriteChunk(p) <= Size
         /\ WriteChunk(p) <= pipe_room
         /\ write_pos < read_pos => write_pos + WriteChunk(p) < read_pos
         /\ WriteChunk(p) < work[p] => write_pos + WriteChunk(p) = Size
  <1>1. /\ work[p] \in Nat /\ Size \in Nat \ {0}
        /\ read_pos \in 0 .. Size - 1 /\ write_pos \in 0 .. Size - 1
    BY Zenon, SizeAssumption DEF IInv, FieldsOK, Index
  <1>2. work[p] <= pipe_room /\ (pc[p] = "chunk2" => write_pos = 0)
    BY Zenon DEF IInv, CopyInv
  <1>3. CASE pc[p] = "chunk1" /\ read_pos <= write_pos
    <2>1. pipe_room = Size - write_pos + read_pos - 1
      BY Zenon, <1>3 DEF pipe_room
    <2>2. \/ work[p] <= Size - write_pos /\ WriteChunk(p) = work[p]
          \/ work[p] > Size - write_pos /\ WriteChunk(p) = Size - write_pos
      BY <1>1, <1>3 DEF WriteChunk, MinOf
    <2>3. QED
      BY <1>1, <1>2, <1>3, <2>1, <2>2
  <1>4. CASE ~ (pc[p] = "chunk1" /\ read_pos <= write_pos)
    <2>1. WriteChunk(p) = work[p]
      BY Zenon, <1>4 DEF WriteChunk
    <2>2. CASE read_pos <= write_pos
      <3>1. write_pos = 0 /\ pipe_room = Size - write_pos + read_pos - 1
        BY Zenon, <1>2, <1>4, <2>2 DEF pipe_room
      <3>2. QED
        BY <1>1, <1>2, <2>1, <2>2, <3>1
    <2>3. CASE ~ (read_pos <= write_pos)
      <3>1. pipe_room = read_pos - write_pos - 1
        BY Zenon, <2>3 DEF pipe_room
      <3>2. QED
        BY <1>1, <1>2, <2>1, <2>3, <3>1
    <2>4. QED
      BY Zenon, <2>2, <2>3
  <1>5. QED
    BY Zenon, <1>3, <1>4

\* A chunk that goes to the user is the oldest part of the ring.
LEMMA CopyOutIInv ==
  ASSUME IInv, NEW p \in Proc, CopyOut(p)
  PROVE  IInv'
  <1> DEFINE k == ReadChunk(p)
             got == [i \in 1 .. k |-> data[read_pos + i - 1]]
  <1>0. /\ pc[p] \in {"chunk1", "chunk2"} /\ op[p] = "read"
        /\ out' = out \o got
        /\ read_pos' = Advance(read_pos, k)
        /\ work' = [work EXCEPT ![p] = @ - k]
        /\ pc' = [pc EXCEPT ![p] = IF k < work[p] THEN "chunk2" ELSE "done"]
        /\ UNCHANGED <<data, write_pos, queue, mutex, readers, writers, mode, op,
                       sig, sent>>
    BY Zenon DEF CopyOut, pipe_copy_to_user, AfterChunk, Goto
  <1>1. /\ k \in 0 .. work[p]
        /\ read_pos + k <= Size
        /\ k <= pipe_data
        /\ read_pos <= write_pos => read_pos + k <= write_pos
        /\ k < work[p] => read_pos + k = Size
    BY Zenon, <1>0, ReadChunkFits
  <1>2. /\ Size \in Nat \ {0} /\ read_pos \in 0 .. Size - 1
        /\ write_pos \in 0 .. Size - 1 /\ work[p] \in Nat /\ k \in Nat
        /\ out \in Seq(Nat) /\ data \in [0 .. Size - 1 -> Nat] /\ sent \in Nat
    BY SMTT(30), <1>1, SizeAssumption DEF IInv, FieldsOK, Index
  <1> HIDE DEF k
  <1>3. read_pos' \in 0 .. Size - 1
    BY <1>0, <1>1, <1>2 DEF Advance
  <1>4. pipe_data' = pipe_data - k
    BY <1>0, <1>1, <1>2 DEF Advance, pipe_data
  <1>5. got \in Seq(Nat) /\ Len(got) = k
    BY <1>1, <1>2
  <1>6. out' \in Seq(Nat) /\ Len(out') = Len(out) + k
    BY <1>0, <1>2, <1>5
  <1>7. FieldsOK'
    <2>1. work' \in [Proc -> Nat]
      BY SMTT(30), <1>0, <1>1, <1>2 DEF IInv, FieldsOK
    <2>2. pc' \in [Proc -> Pcs]
      BY Zenon, <1>0 DEF IInv, FieldsOK, Pcs
    <2>3. QED
      BY Zenon, <1>0, <1>3, <1>6, <2>1, <2>2 DEF IInv, FieldsOK, Index
  <1>8. RingInv'
    <2>0. /\ Len(out) \in Nat
          /\ \A i \in Index :
               /\ read_pos <= i /\ (i < write_pos \/ write_pos < read_pos)
                    => data[i] = Len(out) + 1 + i - read_pos
               /\ write_pos < read_pos /\ i < write_pos
                    => data[i] = Len(out) + 1 + i + Size - read_pos
      BY <1>2 DEF IInv, RingInv
    <2>0a. /\ read_pos + k <= Size
           /\ read_pos <= write_pos => read_pos + k <= write_pos
      BY Zenon, <1>1
    <2>1. sent' = Len(out') + pipe_data'
      <3>1. sent = Len(out) + pipe_data /\ sent' = sent
        BY Zenon, <1>0 DEF IInv, RingInv
      <3>2. pipe_data \in Int
        BY <1>2 DEF pipe_data
      <3>3. QED
        BY <1>2, <1>4, <1>6, <2>0, <3>1, <3>2
    <2>2. ASSUME NEW i \in 1 .. Len(out')
          PROVE  out'[i] = i
      <3>1. CASE i <= Len(out)
        BY <1>0, <1>2, <1>5, <1>6, <2>2, <3>1 DEF IInv, RingInv
      <3>2. CASE i > Len(out)
        <4>1. out'[i] = got[i - Len(out)] /\ i - Len(out) \in 1 .. k
          BY SMTT(30), <1>0, <1>2, <1>5, <1>6, <2>2, <3>2
        <4>2. PICK j \in 1 .. k : j = i - Len(out)
          BY Zenon, <4>1
        <4>3. PICK m \in Index : m = read_pos + j - 1
          <5>1. read_pos + j - 1 \in 0 .. Size - 1
            BY <1>2, <2>0a, <4>2
          <5>2. QED
            BY Zenon, <5>1 DEF Index
        <4>4. got[j] = data[m]
          BY Zenon, <4>2, <4>3
        <4>5. read_pos <= m /\ (m < write_pos \/ write_pos < read_pos)
          BY <1>2, <2>0a, <4>2, <4>3
        <4>6. data[m] = Len(out) + 1 + m - read_pos
          BY Zenon, <2>0, <4>5
        <4>7. Len(out) + 1 + m - read_pos = i
          BY <1>2, <2>0, <2>2, <4>2, <4>3
        <4>8. QED
          BY Zenon, <4>1, <4>2, <4>4, <4>6, <4>7
      <3>3. QED
        BY <1>2, <1>6, <2>2, <3>1, <3>2
    <2>3. ASSUME NEW i \in Index
          PROVE  /\ read_pos' <= i /\ (i < write_pos' \/ write_pos' < read_pos')
                      => data'[i] = Len(out') + 1 + i - read_pos'
                 /\ write_pos' < read_pos' /\ i < write_pos'
                      => data'[i] = Len(out') + 1 + i + Size - read_pos'
      <3>1. data'[i] = data[i] /\ i \in 0 .. Size - 1
        BY Zenon, <1>0, <2>3 DEF Index
      <3>2. CASE read_pos + k = Size
        <4>1. read_pos' = 0 /\ write_pos < read_pos /\ write_pos' = write_pos
          BY <1>0, <1>1, <1>2, <3>2 DEF Advance
        <4>2. i < write_pos => data[i] = Len(out) + 1 + i + Size - read_pos
          BY Zenon, <2>0, <2>3, <4>1
        <4>3. PICK n \in Nat : n = Len(out)
          BY Zenon, <2>0
        <4>4. Len(out') = n + (Size - read_pos)
          <5>1. k = Size - read_pos
            BY <1>2, <3>2
          <5>2. Len(out') = n + k
            BY Zenon, <1>6, <4>3
          <5>3. QED
            BY Zenon, <5>1, <5>2
        <4>5. i < write_pos => data'[i] = Len(out') + 1 + i - read_pos'
          BY <1>2, <3>1, <4>1, <4>2, <4>3, <4>4
        <4>6. QED
          BY <1>2, <3>1, <4>1, <4>5
      <3>3. CASE read_pos + k # Size
        BY SMTT(30), <1>0, <1>1, <1>2, <1>6, <2>0, <2>3, <3>1, <3>3 DEF Advance
      <3>4. QED
        BY Zenon, <3>2, <3>3
    <2>4. QED
      BY Zenon, <2>1, <2>2, <2>3 DEF RingInv
  <1>9. NoSignal' /\ OpInv' /\ MutualExclusion'
    BY Zenon, <1>0 DEF IInv, FieldsOK, NoSignal, OpInv, MutualExclusion, Critical, Pcs
  <1>10. CopyInv'
    <2>1. \A q \in Proc \ {p} : pc'[q] \notin {"chunk1", "chunk2"}
      BY Zenon, <1>0, NoProcAssumption DEF IInv, FieldsOK, MutualExclusion, Critical
    <2>2. pc'[p] = "chunk2" => /\ k < work[p] /\ read_pos' = 0
                               /\ work'[p] = work[p] - k
      BY Zenon, <1>0, <1>1, <1>2 DEF IInv, FieldsOK, Advance
    <2>3. pc'[p] # "chunk1" /\ op'[p] = "read" /\ work[p] <= pipe_data
      BY Zenon, <1>0 DEF IInv, FieldsOK, CopyInv
    <2>4. pipe_data \in Int /\ work[p] \in Int /\ k \in Int
      BY <1>2 DEF pipe_data
    <2>5. pc'[p] = "chunk2" => work'[p] <= pipe_data'
      BY <1>4, <2>2, <2>3, <2>4
    <2>6. QED
      BY Zenon, <2>1, <2>2, <2>3, <2>5 DEF CopyInv
  <1>11. QED
    BY Zenon, <1>7, <1>8, <1>9, <1>10 DEF IInv

\* A chunk from the user goes after the newest byte, over no unread one.
LEMMA CopyInIInv ==
  ASSUME IInv, NEW p \in Proc, CopyIn(p)
  PROVE  IInv'
  <1> DEFINE k == WriteChunk(p)
  <1>0. /\ pc[p] \in {"chunk1", "chunk2"} /\ op[p] = "write"
        /\ data' = [i \in Index |-> IF i \in write_pos .. write_pos + k - 1
                                      THEN sent + 1 + i - write_pos
                                      ELSE data[i]]
        /\ write_pos' = Advance(write_pos, k)
        /\ sent' = sent + k
        /\ work' = [work EXCEPT ![p] = @ - k]
        /\ pc' = [pc EXCEPT ![p] = IF k < work[p] THEN "chunk2" ELSE "done"]
        /\ UNCHANGED <<read_pos, queue, mutex, readers, writers, mode, op, sig,
                       out>>
    BY Zenon DEF CopyIn, pipe_copy_from_user, AfterChunk, Goto
  <1>1. /\ k \in 0 .. work[p]
        /\ write_pos + k <= Size
        /\ k <= pipe_room
        /\ write_pos < read_pos => write_pos + k < read_pos
        /\ k < work[p] => write_pos + k = Size
    BY Zenon, <1>0, WriteChunkFits
  <1>2. /\ Size \in Nat \ {0} /\ read_pos \in 0 .. Size - 1
        /\ write_pos \in 0 .. Size - 1 /\ work[p] \in Nat /\ k \in Nat
        /\ out \in Seq(Nat) /\ data \in [0 .. Size - 1 -> Nat] /\ sent \in Nat
        /\ Len(out) \in Nat
    BY <1>1, SizeAssumption DEF IInv, FieldsOK, Index
  <1> HIDE DEF k
  <1>3. write_pos' \in 0 .. Size - 1
    BY <1>0, <1>1, <1>2 DEF Advance
  <1>4. pipe_data' = pipe_data + k /\ pipe_room' = pipe_room - k
    BY <1>0, <1>1, <1>2 DEF Advance, pipe_data, pipe_room
  <1>5. data' \in [Index -> Nat]
    BY <1>0, <1>1, <1>2 DEF Index
  <1>6. FieldsOK'
    <2>1. work' \in [Proc -> Nat] /\ sent' \in Nat
      BY SMTT(30), <1>0, <1>1, <1>2 DEF IInv, FieldsOK
    <2>2. pc' \in [Proc -> Pcs]
      BY Zenon, <1>0 DEF IInv, FieldsOK, Pcs
    <2>3. QED
      BY Zenon, <1>0, <1>3, <1>5, <2>1, <2>2 DEF IInv, FieldsOK, Index
  <1>7. RingInv'
    <2>1. sent' = Len(out') + pipe_data'
      <3>1. sent = Len(out) + pipe_data /\ sent' = sent + k /\ Len(out') = Len(out)
        BY Zenon, <1>0 DEF IInv, RingInv
      <3>2. pipe_data \in Int
        BY <1>2 DEF pipe_data
      <3>3. QED
        BY <1>2, <1>4, <3>1, <3>2
    <2>2. \A i \in 1 .. Len(out') : out'[i] = i
      BY Zenon, <1>0 DEF IInv, RingInv
    <2>3. ASSUME NEW i \in Index
          PROVE  /\ read_pos' <= i /\ (i < write_pos' \/ write_pos' < read_pos')
                      => data'[i] = Len(out') + 1 + i - read_pos'
                 /\ write_pos' < read_pos' /\ i < write_pos'
                      => data'[i] = Len(out') + 1 + i + Size - read_pos'
      <3>1. sent = Len(out) + pipe_data
        BY Zenon DEF IInv, RingInv
      <3>2. CASE i \in write_pos .. write_pos + k - 1
        <4>1. data'[i] = sent + 1 + i - write_pos
          BY Zenon, <1>0, <3>2
        <4>2. /\ i \in 0 .. Size - 1 /\ write_pos <= i /\ i < write_pos + k
              /\ read_pos' = read_pos /\ Len(out') = Len(out)
          BY <1>0, <1>2, <2>3, <3>2 DEF Index
        <4>3. \/ write_pos + k = Size /\ write_pos' = 0
              \/ write_pos + k < Size /\ write_pos' = write_pos + k
          BY <1>0, <1>1, <1>2 DEF Advance
        <4>4. CASE read_pos <= write_pos
          <5>1. pipe_data = write_pos - read_pos
            BY Zenon, <4>4 DEF pipe_data
          <5>2. QED
            BY SMTT(30), <1>2, <3>1, <4>1, <4>2, <4>3, <4>4, <5>1
        <4>5. CASE write_pos < read_pos
          <5>1. pipe_data = Size - read_pos + write_pos
            BY <1>2, <4>5 DEF pipe_data
          <5>2. write_pos + k < read_pos
            BY Zenon, <1>1, <4>5
          <5>3. QED
            BY <1>2, <3>1, <4>1, <4>2, <4>3, <4>5, <5>1, <5>2
        <4>6. QED
          BY <1>2, <4>4, <4>5
      <3>3. CASE i \notin write_pos .. write_pos + k - 1
        <4>1. data'[i] = data[i]
          BY Zenon, <1>0, <3>3
        <4>2. QED
          <5>1. /\ read_pos <= i /\ (i < write_pos \/ write_pos < read_pos)
                     => data[i] = Len(out) + 1 + i - read_pos
                /\ write_pos < read_pos /\ i < write_pos
                     => data[i] = Len(out) + 1 + i + Size - read_pos
            BY Zenon, <2>3 DEF IInv, RingInv
          <5>2. i \in 0 .. Size - 1
            BY Zenon, <2>3 DEF Index
          <5>2a. /\ i < write_pos \/ write_pos + k <= i
                 /\ read_pos' = read_pos /\ Len(out') = Len(out)
            BY <1>0, <1>2, <3>3, <5>2
          <5>2b. write_pos < read_pos => write_pos + k < read_pos
            BY Zenon, <1>1
          <5>3. CASE write_pos + k = Size
            <6>1. write_pos' = 0 /\ read_pos <= write_pos
              BY <1>0, <1>2, <5>2b, <5>3 DEF Advance
            <6>2. QED
              BY <1>2, <4>1, <5>1, <5>2, <5>2a, <5>3, <6>1
          <5>4. CASE write_pos + k # Size
            <6>1. write_pos' = write_pos + k
              BY Zenon, <1>0, <5>4 DEF Advance
            <6>2. QED
              BY <1>2, <4>1, <5>1, <5>2, <5>2a, <5>2b, <6>1
          <5>5. QED
            BY Zenon, <5>3, <5>4
      <3>4. QED
        BY Zenon, <3>2, <3>3
    <2>4. QED
      BY Zenon, <2>1, <2>2, <2>3 DEF RingInv
  <1>8. NoSignal' /\ OpInv' /\ MutualExclusion'
    BY <1>0 DEF IInv, FieldsOK, NoSignal, OpInv, MutualExclusion, Critical, Pcs
  <1>9. CopyInv'
    <2>1. \A q \in Proc \ {p} : pc'[q] \notin {"chunk1", "chunk2"}
      BY Zenon, <1>0, NoProcAssumption DEF IInv, FieldsOK, MutualExclusion, Critical
    <2>2. pc'[p] = "chunk2" => /\ k < work[p] /\ write_pos' = 0
                               /\ work'[p] = work[p] - k
      BY Zenon, <1>0, <1>1, <1>2 DEF IInv, FieldsOK, Advance
    <2>3. pc'[p] # "chunk1" /\ op'[p] = "write" /\ work[p] <= pipe_room
      BY Zenon, <1>0 DEF IInv, FieldsOK, CopyInv
    <2>4. pipe_room \in Int /\ work[p] \in Int /\ k \in Int
      BY <1>2 DEF pipe_room
    <2>5. pc'[p] = "chunk2" => work'[p] <= pipe_room'
      BY <1>4, <2>2, <2>3, <2>4
    <2>6. QED
      BY Zenon, <2>1, <2>2, <2>3, <2>5 DEF CopyInv
  <1>10. QED
    BY Zenon, <1>6, <1>7, <1>8, <1>9 DEF IInv

\* A failed copy_from_user only writes to slots that hold no unread byte.
LEMMA FaultInIInv ==
  ASSUME IInv, NEW p \in Proc, FaultIn(p)
  PROVE  IInv'
  <1>0. PICK k \in 0 .. WriteChunk(p) - 1 :
          data' = [i \in Index |-> IF i \in write_pos .. write_pos + k - 1
                                     THEN 0 ELSE data[i]]
    BY Zenon DEF FaultIn
  <1>1. /\ WriteChunk(p) \in Nat
        /\ write_pos + WriteChunk(p) <= Size
        /\ WriteChunk(p) <= pipe_room
        /\ write_pos < read_pos => write_pos + WriteChunk(p) < read_pos
    <2>1. pc[p] \in {"chunk1", "chunk2"} /\ op[p] = "write" /\ work[p] \in Nat
      BY Zenon DEF FaultIn, IInv, FieldsOK
    <2>2. QED
      BY <2>1, WriteChunkFits
  <1>2. /\ Size \in Nat \ {0} /\ read_pos \in 0 .. Size - 1
        /\ write_pos \in 0 .. Size - 1 /\ Len(out) \in Nat
    BY SizeAssumption DEF IInv, FieldsOK, Index
  <1>3. data' \in [Index -> Nat]
    BY Zenon, <1>0 DEF IInv, FieldsOK
  <1>4. FieldsOK'
    <2>1. PICK v : Return(p, v)
      BY Zenon DEF FaultIn
    <2>2. QED
      BY Zenon, <1>3, <2>1 DEF FaultIn, Return, pipe_unlock, Goto, IInv, FieldsOK, Pcs
  <1>5. RingInv'
    <2>1. ASSUME NEW i \in Index,
                 \/ read_pos <= i /\ (i < write_pos \/ write_pos < read_pos)
                 \/ write_pos < read_pos /\ i < write_pos
          PROVE  data'[i] = data[i]
      BY <1>0, <1>1, <1>2, <2>1 DEF Index
    <2>2. UNCHANGED <<read_pos, write_pos, sent, out, pipe_data>>
      BY Zenon DEF FaultIn, pipe_data
    <2>3. QED
      BY Zenon, <2>1, <2>2 DEF IInv, RingInv
  <1>6. NoSignal' /\ OpInv' /\ MutualExclusion' /\ CopyInv'
    <2>1. NoSignal' /\ OpInv'
      <3>1. PICK v : Return(p, v)
        BY Zenon DEF FaultIn
      <3>2. QED
        BY Zenon, <3>1 DEF Return, Goto, IInv, FieldsOK, Pcs, NoSignal, OpInv
    <2>2. \A q \in Proc : pc'[q] \notin Critical
      BY Zenon, NoProcAssumption DEF FaultIn, Return, Goto, IInv, FieldsOK,
         MutualExclusion, Critical
    <2>3. QED
      BY Zenon, <2>1, <2>2 DEF MutualExclusion, CopyInv, Critical
  <1>7. QED
    BY Zenon, <1>4, <1>5, <1>6 DEF IInv

-----------------------------------------------------------------------------
(* Every step keeps the invariant, if no signal reaches a process that     *)
(* waits.                                                                  *)

\* Steps that leave every variable alone keep the invariant.
LEMMA SilentIInv ==
  ASSUME IInv, UNCHANGED vars
  PROVE  IInv'
  <1>1. FieldsOK' /\ NoSignal' /\ OpInv' /\ MutualExclusion'
    BY Zenon DEF vars, IInv, FieldsOK, NoSignal, OpInv, MutualExclusion, Critical
  <1>2. RingInv'
    BY Zenon, RingUnchanged DEF vars, IInv
  <1>3. CopyInv'
    BY Zenon DEF vars, IInv, CopyInv, pipe_data, pipe_room
  <1>4. QED
    BY Zenon, <1>1, <1>2, <1>3 DEF IInv

\* Every step of every process keeps the invariant, without signals.
LEMMA NextIInv ==
  ASSUME IInv, [Next]_vars, Interruptible = {}
  PROVE  IInv'
  <1>1. CASE UNCHANGED vars
    BY Zenon, <1>1, SilentIInv
  <1>2. ASSUME NEW p \in Proc, User(p)
        PROVE  IInv'
    BY Zenon, <1>2, OpenLockIInv, ReleaseLockIInv, ReadCallIInv, WriteCallIInv DEF User
  <1>3. ASSUME NEW p \in Proc, Lock(p)
        PROVE  IInv'
    BY Zenon, <1>3, EnterIInv, WaitOverIInv, WaitOnIInv DEF Lock
  <1>4. ASSUME NEW p \in Proc, Run(p)
        PROVE  IInv'
    <2>1. ~ Interrupted(p)
      BY Zenon DEF Interrupted, IInv, NoSignal
    <2>2. QED
      BY Zenon, <1>4, <2>1, OpenCountIInv, ReleaseCountIInv, ReadLoopIInv,
         WriteLoopIInv, PrepareIInv, ScheduledIInv, CopyOutIInv, CopyInIInv,
         DoneIInv, WakeIInv DEF Run
  <1>5. ASSUME NEW p \in Proc, Disturb(p)
        PROVE  IInv'
    <2>1. ~ Signal(p)
      BY Zenon DEF Signal
    <2>2. QED
      BY Zenon, <1>5, <2>1, FaultOutIInv, FaultInIInv DEF Disturb
  <1>6. QED
    BY Zenon, <1>1, <1>2, <1>3, <1>4, <1>5 DEF Next

\* In a pipe that no signal disturbs every reachable state satisfies the
\* inductive invariant.
THEOREM Invariance ==
  ASSUME Interruptible = {}
  PROVE  Spec => []IInv
  <1>1. Init => IInv
    BY Zenon, InitIInv
  <1>2. IInv /\ [Next]_vars => IInv'
    BY Zenon, NextIInv
  <1>3. QED
    BY <1>1, <1>2, PTL DEF Spec

-----------------------------------------------------------------------------
(* What follows from the invariant.                                        *)

\* pipe_lock and pipe_unlock protect the pipe, however many processes use it.
THEOREM Exclusion ==
  ASSUME Interruptible = {}
  PROVE  Spec => []MutualExclusion
  <1>1. IInv => MutualExclusion
    BY Zenon DEF IInv
  <1>2. QED
    BY <1>1, Invariance, PTL

\* The two BUG_ON conditions of the copy functions stay false for every size.
THEOREM NoBugOn ==
  ASSUME Interruptible = {}
  PROVE  Spec => []BugOnNeverFires
  <1>1. ASSUME IInv
        PROVE  BugOnNeverFires
    <2>1. SUFFICES ASSUME NEW p \in Proc, pc[p] \in {"chunk1", "chunk2"}
                   PROVE  IF op[p] = "read"
                            THEN /\ read_pos + ReadChunk(p) <= Size
                                 /\ work[p] <= pipe_data
                            ELSE /\ write_pos + WriteChunk(p) <= Size
                                 /\ work[p] <= pipe_room
      BY Zenon DEF BugOnNeverFires
    <2>2. CASE op[p] = "read"
      BY Zenon, <1>1, <2>1, <2>2, ReadChunkFits DEF IInv, CopyInv
    <2>3. CASE op[p] # "read"
      <3>1. op[p] = "write"
        BY Zenon, <1>1, <2>1, <2>3 DEF IInv, FieldsOK, OpInv
      <3>2. QED
        BY Zenon, <1>1, <2>1, <3>1, WriteChunkFits DEF IInv, CopyInv
    <2>4. QED
      BY Zenon, <2>2, <2>3
  <1>2. QED
    BY <1>1, Invariance, PTL

\* The contents of the buffer as the channel sees them.
UnreadInv ==
  /\ Len(out) \in Nat /\ pipe_data \in 0 .. Size - 1
  /\ sent = Len(out) + pipe_data
  /\ out = Segment(0, Len(out))
  /\ Unread = Segment(Len(out), pipe_data)

\* The buffer holds the accepted bytes that come after the delivered ones.
LEMMA UnreadIsSegment == IInv => UnreadInv
  <1> SUFFICES ASSUME IInv PROVE UnreadInv
    BY Zenon
  <1>1. /\ Size \in Nat \ {0} /\ read_pos \in 0 .. Size - 1
        /\ write_pos \in 0 .. Size - 1
        /\ out \in Seq(Nat) /\ Len(out) \in Nat
    BY SizeAssumption DEF IInv, FieldsOK, Index
  <1>2. pipe_data \in 0 .. Size - 1
    BY <1>1 DEF pipe_data
  <1>3. PICK n \in Nat : n = Len(out)
    BY Zenon, <1>1
  <1>4. /\ sent = n + pipe_data
        /\ \A i \in 1 .. n : out[i] = i
        /\ \A i \in Index :
             /\ read_pos <= i /\ (i < write_pos \/ write_pos < read_pos)
                  => data[i] = n + 1 + i - read_pos
             /\ write_pos < read_pos /\ i < write_pos
                  => data[i] = n + 1 + i + Size - read_pos
    BY Zenon, <1>3 DEF IInv, RingInv
  <1>5. out = Segment(0, n)
    <2>1. \A i \in 1 .. n : out[i] = 0 + i
      BY <1>4
    <2>2. QED
      BY Zenon, <1>1, <1>3, <2>1, SegmentUnique
  <1>6. ASSUME NEW j \in 1 .. pipe_data
        PROVE  data[Slot(j)] = n + j
    <2>1. CASE read_pos + j <= Size
      <3>1. /\ Slot(j) = read_pos + j - 1 /\ Slot(j) \in Index
            /\ read_pos <= Slot(j)
            /\ Slot(j) < write_pos \/ write_pos < read_pos
        BY <1>1, <1>2, <1>6, <2>1 DEF Slot, Index, pipe_data
      <3>2. n + 1 + Slot(j) - read_pos = n + j
        BY <1>1, <1>2, <1>6, <3>1
      <3>3. QED
        BY Zenon, <1>4, <3>1, <3>2
    <2>2. CASE read_pos + j > Size
      <3>1. /\ Slot(j) = read_pos + j - 1 - Size /\ Slot(j) \in Index
            /\ write_pos < read_pos /\ Slot(j) < write_pos
        BY <1>1, <1>2, <1>6, <2>2 DEF Slot, Index, pipe_data
      <3>2. n + 1 + Slot(j) + Size - read_pos = n + j
        BY <1>1, <1>2, <1>6, <3>1
      <3>3. QED
        BY Zenon, <1>4, <3>1, <3>2
    <2>3. QED
      BY <1>1, <1>2, <1>6, <2>1, <2>2
  <1>7. Unread = Segment(n, pipe_data)
    BY Zenon, <1>6 DEF Unread, Segment
  <1>8. QED
    BY Zenon, <1>2, <1>3, <1>4, <1>5, <1>7 DEF UnreadInv

\* The ring buffer delivers what was written, in order and once.
LEMMA RingIsFifo ==
  ASSUME IInv
  PROVE  Fifo
  <1>1. PICK n \in Nat, d \in Nat : /\ sent = n + d /\ out = Segment(0, n)
                                    /\ Unread = Segment(n, d)
    BY UnreadIsSegment DEF UnreadInv
  <1>2. Segment(0, n) \o Segment(0 + n, d) = Segment(0, n + d)
    BY Zenon, SegmentConcat
  <1>3. 0 + n = n /\ Segment(0, n + d) = [i \in 1 .. n + d |-> i]
    BY DEF Segment
  <1>4. QED
    BY Zenon, <1>1, <1>2, <1>3 DEF Fifo

\* What was read, followed by what is in the buffer, is what was written.
THEOREM FirstInFirstOut ==
  ASSUME Interruptible = {}
  PROVE  Spec => []Fifo
  <1>1. IInv => Fifo
    BY Zenon, RingIsFifo
  <1>2. QED
    BY <1>1, Invariance, PTL

\* No other process moves a position between the two chunks of a call.
THEOREM ChunksStayTogether ==
  ASSUME Interruptible = {}
  PROVE  Spec => ChunksOfOneCall
  <1>1. ASSUME IInv, IInv', Next,
               NEW p \in Proc, pc[p] = "chunk2", pc'[p] = "chunk2"
        PROVE  UNCHANGED pipeVars
    <2>1. mutex = p /\ mutex' = p
      BY Zenon, <1>1 DEF IInv, MutualExclusion, Critical
    <2>2. PICK q \in Proc : User(q) \/ Lock(q) \/ Run(q) \/ Disturb(q)
      BY Zenon, <1>1 DEF Next
    <2>3. ~ FaultIn(q)
      BY Zenon, <2>1, NoProcAssumption DEF FaultIn, pipe_unlock
    <2>4. ASSUME CopyOut(q) \/ CopyIn(q)
          PROVE  FALSE
      <3>1. q = p
        BY Zenon, <1>1, <2>1, <2>4 DEF CopyOut, CopyIn, IInv, MutualExclusion, Critical
      <3>2. \E k : k = work[p] /\ pc' = [pc EXCEPT ![p] =
                                           IF k < work[p] THEN "chunk2" ELSE "done"]
        BY Zenon, <1>1, <2>4, <3>1
           DEF CopyOut, CopyIn, AfterChunk, ReadChunk, WriteChunk, Goto
      <3>3. work[p] \in Nat /\ pc \in [Proc -> Pcs]
        BY Zenon, <1>1 DEF IInv, FieldsOK
      <3>4. QED
        BY <1>1, <3>2, <3>3
    <2>5. QED
      BY Zenon, <2>2, <2>3, <2>4
         DEF User, Lock, Run, Disturb, OpenLock, ReleaseLock, ReadCall,
         WriteCall, Enter, WaitOver, WaitOn, OpenCount, ReleaseCount, ReadLoop,
         WriteLoop, Prepare, Scheduled, Interrupted, Done, Wake, Signal, FaultOut
  <1>2. IInv /\ IInv' /\ [Next]_vars =>
          [\A p \in Proc : pc[p] = "chunk2" /\ pc'[p] = "chunk2"
                             => UNCHANGED pipeVars]_vars
    BY Zenon, <1>1
  <1>3. QED
    BY <1>2, Invariance, PTL DEF Spec, ChunksOfOneCall

-----------------------------------------------------------------------------
(* The pipe implements the bounded channel.                                *)

\* A chunk from the user is accepted by the channel.
LEMMA CopyInAccepted ==
  ASSUME IInv, IInv', NEW p \in Proc, CopyIn(p)
  PROVE  [Channel!Next]_(Channel!vars)
  <1> DEFINE k == WriteChunk(p)
  <1>0. /\ pc[p] \in {"chunk1", "chunk2"} /\ op[p] = "write"
        /\ sent' = sent + k /\ out' = out /\ read_pos' = read_pos
        /\ write_pos' = Advance(write_pos, k)
    BY Zenon DEF CopyIn, pipe_copy_from_user
  <1>1. /\ k \in 0 .. work[p] /\ k <= pipe_room /\ write_pos + k <= Size
        /\ write_pos < read_pos => write_pos + k < read_pos
    BY Zenon, <1>0, WriteChunkFits
  <1>2. /\ Size \in Nat \ {0} /\ read_pos \in 0 .. Size - 1
        /\ write_pos \in 0 .. Size - 1 /\ work[p] \in Nat
    BY Zenon, SizeAssumption DEF IInv, FieldsOK, Index
  <1> HIDE DEF k
  <1>3. /\ k \in Nat /\ pipe_data' = pipe_data + k
        /\ pipe_data + k <= Size - 1
    BY <1>0, <1>1, <1>2 DEF Advance, pipe_data, pipe_room
  <1>4. PICK n \in Nat, d \in Nat :
          n = Len(out) /\ d = pipe_data /\ sent = n + d /\ Unread = Segment(n, d)
    BY UnreadIsSegment DEF UnreadInv
  <1>5. Unread' = Segment(n, d + k)
    <2>1. UnreadInv'
      BY UnreadIsSegment, PTL
    <2>2. QED
      BY Zenon, <1>0, <1>3, <1>4, <2>1 DEF UnreadInv
  <1>6. CASE k = 0
    BY <1>0, <1>4, <1>5, <1>6 DEF Channel!vars
  <1>7. CASE k # 0
    <2>1. k \in 1 .. Size - 1 /\ Len(Unread) + k <= Size - 1
      BY <1>2, <1>3, <1>4, <1>7, SegmentType
    <2>2. Unread' = Unread \o [i \in 1 .. k |-> sent + i]
      <3>1. Segment(n, d) \o Segment(n + d, k) = Segment(n, d + k)
        BY Zenon, <1>3, SegmentConcat
      <3>2. QED
        BY Zenon, <1>4, <1>5, <3>1 DEF Segment
    <2>3. Channel!Accept(k)
      BY Zenon, <1>0, <2>1, <2>2 DEF Channel!Accept
    <2>4. QED
      BY Zenon, <2>1, <2>3 DEF Channel!Next
  <1>8. QED
    BY Zenon, <1>6, <1>7

\* A chunk that goes to the user is delivered by the channel.
LEMMA CopyOutDelivered ==
  ASSUME IInv, IInv', NEW p \in Proc, CopyOut(p)
  PROVE  [Channel!Next]_(Channel!vars)
  <1> DEFINE k == ReadChunk(p)
  <1>0. /\ pc[p] \in {"chunk1", "chunk2"} /\ op[p] = "read"
        /\ sent' = sent /\ write_pos' = write_pos
        /\ read_pos' = Advance(read_pos, k)
    BY Zenon DEF CopyOut, pipe_copy_to_user
  <1>1. /\ k \in 0 .. work[p] /\ k <= pipe_data /\ read_pos + k <= Size
        /\ read_pos <= write_pos => read_pos + k <= write_pos
    BY Zenon, <1>0, ReadChunkFits
  <1>2. /\ Size \in Nat \ {0} /\ read_pos \in 0 .. Size - 1
        /\ write_pos \in 0 .. Size - 1 /\ work[p] \in Nat
    BY Zenon, SizeAssumption DEF IInv, FieldsOK, Index
  <1> HIDE DEF k
  <1>3. k \in Nat /\ pipe_data' = pipe_data - k
    BY <1>0, <1>1, <1>2 DEF Advance, pipe_data
  <1>4. PICK n \in Nat, d \in 0 .. Size - 1 :
          /\ n = Len(out) /\ d = pipe_data /\ sent = n + d
          /\ out = Segment(0, n) /\ Unread = Segment(n, d)
    BY Zenon, UnreadIsSegment DEF UnreadInv
  <1>5. d \in Nat /\ k \in 0 .. d
    BY <1>1, <1>2, <1>3, <1>4
  <1>6. Unread' = Segment(n + k, d - k) /\ out' = Segment(0, n + k)
    <2>1. PICK m \in Nat : /\ m = Len(out') /\ sent' = m + (d - k)
                           /\ out' = Segment(0, m) /\ Unread' = Segment(m, d - k)
      <3>1. UnreadInv'
        BY UnreadIsSegment, PTL
      <3>2. QED
        BY Zenon, <1>3, <1>4, <3>1 DEF UnreadInv
    <2>2. m = n + k
      BY SMTT(30), <1>0, <1>4, <1>5, <2>1
    <2>3. QED
      BY Zenon, <2>1, <2>2
  <1>7. /\ SubSeq(Segment(n, d), 1, k) = Segment(n, k)
        /\ SubSeq(Segment(n, d), k + 1, d) = Segment(n + k, d - k)
    BY Zenon, <1>5, SegmentSplit
  <1>8. Segment(0, n) \o Segment(n, k) = Segment(0, n + k)
    <2>1. k \in Nat
      BY Zenon, <1>3
    <2>2. Segment(0, n) \o Segment(0 + n, k) = Segment(0, n + k)
      BY Zenon, <2>1, SegmentConcat
    <2>3. 0 + n = n
      OBVIOUS
    <2>4. QED
      BY Zenon, <2>2, <2>3
  <1>9. Len(Unread) = d
    BY Zenon, <1>4, <1>5, SegmentType
  <1>10. CASE k = 0
    BY <1>0, <1>4, <1>5, <1>6, <1>10 DEF Channel!vars
  <1>11. CASE k # 0
    <2>1. k \in 1 .. Size - 1 /\ k <= Len(Unread)
      BY <1>2, <1>4, <1>5, <1>9, <1>11
    <2>2. out' = out \o SubSeq(Unread, 1, k)
      BY Zenon, <1>4, <1>6, <1>7, <1>8
    <2>3. Unread' = SubSeq(Unread, k + 1, Len(Unread))
      BY Zenon, <1>4, <1>6, <1>7, <1>9
    <2>4. Channel!Deliver(k)
      BY Zenon, <1>0, <2>1, <2>2, <2>3 DEF Channel!Deliver
    <2>5. QED
      BY Zenon, <2>1, <2>4 DEF Channel!Next
  <1>12. QED
    BY Zenon, <1>10, <1>11

\* The other steps, a failed copy_from_user among them, change nothing in the channel.
LEMMA OthersSilent ==
  ASSUME IInv, IInv', [Next]_vars,
         \A p \in Proc : ~ CopyIn(p) /\ ~ CopyOut(p)
  PROVE  UNCHANGED Channel!vars
  <1>1. UNCHANGED <<read_pos, write_pos, sent, out>>
    <2>1. CASE UNCHANGED vars
      BY Zenon, <2>1 DEF vars
    <2>2. ASSUME NEW p \in Proc, User(p)
          PROVE  UNCHANGED <<read_pos, write_pos, sent, out>>
      BY Zenon, <2>2 DEF User, OpenLock, ReleaseLock, ReadCall, WriteCall, pipeVars
    <2>3. ASSUME NEW p \in Proc, Lock(p)
          PROVE  UNCHANGED <<read_pos, write_pos, sent, out>>
      BY Zenon, <2>3 DEF Lock, Enter, WaitOver, WaitOn, pipeVars
    <2>4. ASSUME NEW p \in Proc, Run(p)
          PROVE  UNCHANGED <<read_pos, write_pos, sent, out>>
      BY Zenon, <2>4 DEF Run, OpenCount, ReleaseCount, ReadLoop, WriteLoop, Prepare,
         Scheduled, Interrupted, Done, Wake, pipeVars
    <2>5. ASSUME NEW p \in Proc, Disturb(p)
          PROVE  UNCHANGED <<read_pos, write_pos, sent, out>>
      BY Zenon, <2>5 DEF Disturb, Signal, FaultOut, FaultIn, pipeVars
    <2>6. QED
      BY Zenon, <2>1, <2>2, <2>3, <2>4, <2>5 DEF Next
  <1>2. pipe_data' = pipe_data
    BY Zenon, <1>1 DEF pipe_data
  <1>3. Unread = Segment(Len(out), pipe_data)
    BY Zenon, UnreadIsSegment DEF UnreadInv
  <1>4. Unread' = Segment(Len(out'), pipe_data')
    <2>1. UnreadInv'
      BY UnreadIsSegment, PTL
    <2>2. QED
      BY Zenon, <2>1 DEF UnreadInv
  <1>5. QED
    BY Zenon, <1>1, <1>2, <1>3, <1>4 DEF Channel!vars

\* The driver, with any number of readers and writers that run at once, sleep, are woken
\* up and fail in the middle of a call, is a first-in first-out channel of size - 1 bytes.
THEOREM Refinement ==
  ASSUME Interruptible = {}
  PROVE  Spec => ImplementsChannel
  <1>1. Init => Channel!Init
    <2> SUFFICES ASSUME Init PROVE Channel!Init
      BY Zenon
    <2>1. sent = 0 /\ out = <<>> /\ pipe_data = 0
      BY DEF Init, pipe_data
    <2>2. Unread = <<>>
      BY <2>1 DEF Unread
    <2>3. QED
      BY Zenon, <2>1, <2>2 DEF Channel!Init
  <1>2. IInv /\ IInv' /\ [Next]_vars => [Channel!Next]_(Channel!vars)
    BY Zenon, CopyInAccepted, CopyOutDelivered, OthersSilent
  <1>3. QED
    BY <1>1, <1>2, Invariance, PTL DEF Spec, ImplementsChannel, Channel!Spec

-----------------------------------------------------------------------------
(* What the calls return.  Here signals and failed copies may happen at    *)
(* any time: a call computes its return value with its own variables.      *)

\* Between the computation of work_size and the return of the call, what was moved and
\* what is left make up work_size; nothing is left once the copy is over; and a call
\* that is not there yet has moved nothing.
Accounted(p) ==
  /\ pc[p] \notin {"chunk1", "chunk2", "done", "wake"} => moved[p] = 0
  /\ pc[p] \in {"chunk1", "chunk2", "done", "wake"} => moved[p] + work[p] = size[p]
  /\ pc[p] \in {"done", "wake"} => work[p] = 0

CallInv ==
  /\ pc \in [Proc -> Pcs] /\ op \in [Proc -> {"read", "write", "none"}]
  /\ work \in [Proc -> Int] /\ SizesOK
  /\ read_pos \in Int /\ write_pos \in Int
  /\ \A p \in Proc : Accounted(p)

\* The amounts of data and of room, and the sizes of the chunks, are ints; a chunk is
\* at most what is left, and a second chunk is all of it.
LEMMA ChunkInts ==
  ASSUME CallInv, NEW p \in Proc
  PROVE  /\ pipe_data \in Int /\ pipe_room \in Int
         /\ ReadChunk(p) \in Int /\ ReadChunk(p) <= work[p]
         /\ WriteChunk(p) \in Int /\ WriteChunk(p) <= work[p]
  <1>1. Size \in Int /\ work[p] \in Int /\ read_pos \in Int /\ write_pos \in Int
    BY SizeAssumption DEF CallInv
  <1>2. QED
    BY <1>1 DEF pipe_data, pipe_room, ReadChunk, WriteChunk, MinOf

\* A step of p that leaves the variables of its call alone, between places where nothing
\* has been moved or from the mutex to the wake-up.
LEMMA QuietCall ==
  ASSUME CallInv, NEW p \in Proc, NEW l \in Pcs, pc' = [pc EXCEPT ![p] = l],
         \/ pc[p] \notin {"chunk1", "chunk2", "done", "wake"} /\
            l \notin {"chunk1", "chunk2", "done", "wake"}
         \/ pc[p] = "done" /\ l = "wake",
         op' \in [Proc -> {"read", "write", "none"}], work' \in [Proc -> Int],
         ret' \in [Proc -> Int],
         \A q \in Proc : q # p \/ pc[p] = "done" => work'[q] = work[q],
         UNCHANGED <<size, moved, read_pos, write_pos>>
  PROVE  CallInv'
  <1>1. ASSUME NEW q \in Proc
        PROVE  Accounted(q)'
    <2>1. CASE q = p
      BY Zenon, <2>1 DEF CallInv, Accounted
    <2>2. CASE q # p
      BY Zenon, <2>2 DEF CallInv, Accounted
    <2>3. QED
      BY Zenon, <2>1, <2>2
  <1>2. pc' \in [Proc -> Pcs]
    BY Zenon DEF CallInv
  <1>3. QED
    BY Zenon, <1>1, <1>2 DEF CallInv, SizesOK

\* A return ends the account of the call.
LEMMA ReturnCall ==
  ASSUME CallInv, NEW p \in Proc, NEW v \in Int, Return(p, v),
         UNCHANGED <<read_pos, write_pos>>
  PROVE  CallInv'
  <1>1. ASSUME NEW q \in Proc
        PROVE  Accounted(q)'
    <2>1. CASE q = p
      BY Zenon, <2>1 DEF CallInv, SizesOK, Accounted, Return, Goto
    <2>2. CASE q # p
      BY Zenon, <2>2 DEF CallInv, SizesOK, Accounted, Return, Goto
    <2>3. QED
      BY Zenon, <2>1, <2>2
  <1>2. /\ pc' \in [Proc -> Pcs] /\ op' \in [Proc -> {"read", "write", "none"}]
        /\ work' \in [Proc -> Int] /\ SizesOK'
    BY DEF CallInv, SizesOK, Return, Goto, Pcs
  <1>3. QED
    BY Zenon, <1>1, <1>2 DEF CallInv

\* The computation of work_size opens the account.
LEMMA SizeCall ==
  ASSUME CallInv, NEW p \in Proc, pc[p] = "loop", NEW n \in Int,
         work' = [work EXCEPT ![p] = n], size' = [size EXCEPT ![p] = n],
         Goto(p, "chunk1"), UNCHANGED <<op, moved, ret, read_pos, write_pos>>
  PROVE  CallInv'
  <1>1. ASSUME NEW q \in Proc
        PROVE  Accounted(q)'
    <2>1. CASE q = p
      <3>1. moved'[p] = 0 /\ work'[p] = n /\ size'[p] = n /\ pc'[p] = "chunk1"
        BY Zenon DEF CallInv, SizesOK, Accounted, Goto
      <3>2. QED
        BY <2>1, <3>1 DEF Accounted
    <2>2. CASE q # p
      BY Zenon, <2>2 DEF CallInv, SizesOK, Accounted, Goto
    <2>3. QED
      BY Zenon, <2>1, <2>2
  <1>2. /\ pc' \in [Proc -> Pcs] /\ work' \in [Proc -> Int] /\ SizesOK'
    BY Zenon DEF CallInv, SizesOK, Goto, Pcs
  <1>3. QED
    BY Zenon, <1>1, <1>2 DEF CallInv

\* A chunk moves from what is left to what was moved.
LEMMA ChunkCall ==
  ASSUME CallInv, NEW p \in Proc, pc[p] \in {"chunk1", "chunk2"},
         NEW k \in Int, k <= work[p], AfterChunk(p, k),
         read_pos' \in Int, write_pos' \in Int, UNCHANGED <<op, size, ret>>
  PROVE  CallInv'
  <1>0. work[p] \in Int /\ moved[p] \in Int
    BY Zenon DEF CallInv, SizesOK
  <1>1. ASSUME NEW q \in Proc
        PROVE  Accounted(q)'
    <2>1. CASE q = p
      <3>1. /\ moved'[p] = moved[p] + k /\ work'[p] = work[p] - k /\ size'[p] = size[p]
            /\ pc'[p] = IF k < work[p] THEN "chunk2" ELSE "done"
            /\ moved[p] + work[p] = size[p]
        BY Zenon DEF CallInv, SizesOK, Accounted, AfterChunk, Goto
      <3>2. QED
        BY <1>0, <2>1, <3>1 DEF Accounted
    <2>2. CASE q # p
      BY Zenon, <2>2 DEF CallInv, SizesOK, Accounted, AfterChunk, Goto
    <2>3. QED
      BY Zenon, <2>1, <2>2
  <1>2. work[p] - k \in Int /\ moved[p] + k \in Int
    BY <1>0
  <1>3. /\ pc' \in [Proc -> Pcs] /\ work' \in [Proc -> Int] /\ SizesOK'
    <2>1. work' = [work EXCEPT ![p] = work[p] - k] /\ moved' = [moved EXCEPT ![p] = moved[p] + k]
      BY Zenon DEF AfterChunk
    <2>2. QED
      BY Zenon, <1>2, <2>1 DEF CallInv, SizesOK, AfterChunk, Goto, Pcs
  <1>4. QED
    BY Zenon, <1>1, <1>3 DEF CallInv

\* The calls of a user, and the places before work_size is computed.
LEMMA EarlyCall ==
  ASSUME CallInv, NEW p \in Proc,
         \/ User(p) \/ Lock(p) \/ OpenCount(p) \/ ReleaseCount(p)
         \/ Prepare(p) \/ Scheduled(p) \/ Done(p)
  PROVE  CallInv'
  <1>0. /\ pc \in [Proc -> Pcs] /\ op \in [Proc -> {"read", "write", "none"}]
        /\ work \in [Proc -> Int] /\ ret \in [Proc -> Int]
    BY Zenon DEF CallInv, SizesOK
  <1>1. CASE ReadCall(p) \/ WriteCall(p)
    <2>1. PICK n \in 0 .. MaxCount : work' = [work EXCEPT ![p] = n]
      BY Zenon, <1>1 DEF ReadCall, WriteCall
    <2>2. n \in Int
      BY BoundsAssumption
    <2>3. /\ pc' = [pc EXCEPT ![p] = "lock"] /\ "lock" \in Pcs /\ pc[p] = "idle"
          /\ work' \in [Proc -> Int] /\ op' \in [Proc -> {"read", "write", "none"}]
          /\ UNCHANGED <<size, moved, read_pos, write_pos>>
          /\ \A q \in Proc : q # p => work'[q] = work[q]
      BY Zenon, <1>0, <1>1, <2>1, <2>2 DEF ReadCall, WriteCall, Goto, Pcs, pipeVars
    <2>4. ret' = [ret EXCEPT ![p] = 0]
      BY Zenon, <1>1 DEF ReadCall, WriteCall
    <2>5. ret' \in [Proc -> Int]
      BY <1>0, <2>4
    <2>6. QED
      BY Zenon, <2>3, <2>5, QuietCall
  <1>2. CASE ReleaseLock(p)
    <2>1. /\ pc' = [pc EXCEPT ![p] = "release"] /\ "release" \in Pcs /\ pc[p] = "idle"
          /\ UNCHANGED <<size, moved, op, work, read_pos, write_pos>>
          /\ ret' = [ret EXCEPT ![p] = 0]
      BY Zenon, <1>2 DEF ReleaseLock, Goto, Pcs, pipeVars
    <2>2. ret' \in [Proc -> Int]
      BY <1>0, <2>1
    <2>3. QED
      BY Zenon, <1>0, <2>1, <2>2, QuietCall
  <1>3. CASE \/ OpenLock(p) \/ Lock(p) \/ OpenCount(p) \/ ReleaseCount(p)
             \/ Prepare(p) \/ Scheduled(p) \/ Done(p)
    <2>1. UNCHANGED <<size, moved, op, work, ret, read_pos, write_pos>>
      BY Zenon, <1>3 DEF OpenLock, Lock, Enter, WaitOver, WaitOn, OpenCount, ReleaseCount,
         Prepare, Scheduled, Done, pipeVars, tellVars
    <2>2. \E l \in Pcs :
            /\ pc' = [pc EXCEPT ![p] = l]
            /\ \/ pc[p] \notin {"chunk1", "chunk2", "done", "wake"} /\
                  l \notin {"chunk1", "chunk2", "done", "wake"}
               \/ pc[p] = "done" /\ l = "wake"
      <3>1. CASE WaitOn(p)
        <4>1. PICK l \in {"prep", "sched", "eintr"} : pc' = [pc EXCEPT ![p] = l]
          BY Zenon, <3>1 DEF WaitOn, Goto
        <4>2. pc[p] \in {"cond", "recheck", "lastcheck"}
          BY Zenon, <3>1 DEF WaitOn
        <4>3. QED
          BY Zenon, <4>1, <4>2 DEF Pcs
      <3>2. CASE OpenLock(p) \/ Enter(p) \/ WaitOver(p) \/ OpenCount(p) \/ ReleaseCount(p)
        BY Zenon, <3>2 DEF OpenLock, Enter, WaitOver, OpenCount, ReleaseCount, Goto, Pcs
      <3>3. CASE Prepare(p) \/ Scheduled(p) \/ Done(p)
        BY Zenon, <3>3 DEF Prepare, Scheduled, Done, Goto, Pcs
      <3>4. QED
        BY Zenon, <1>3, <3>1, <3>2, <3>3 DEF Lock
    <2>3. QED
      BY Zenon, <1>0, <2>1, <2>2, QuietCall
  <1>4. QED
    BY Zenon, <1>1, <1>2, <1>3 DEF User

\* The steps that return: end of file, a signal, a failed copy and the end of the call.
\* What they return, and that the variables they use are the call's own.
LEMMA ReturnStep ==
  ASSUME CallInv, NEW p \in Proc,
         \/ ReadLoop(p) /\ pc'[p] # "chunk1" /\ pc'[p] # "cond"
         \/ Interrupted(p) \/ Wake(p) \/ FaultOut(p) \/ FaultIn(p)
  PROVE  \E v \in Int :
           /\ Return(p, v)
           /\ UNCHANGED <<read_pos, write_pos>>
           /\ IF pc[p] \in {"chunk1", "chunk2"}
                THEN v \in 1 .. work[p]
                ELSE v = moved[p] \/ (v = -ERESTARTSYS /\ moved[p] = 0)
  <1>0. /\ pc \in [Proc -> Pcs] /\ Accounted(p) /\ moved[p] \in Int /\ work[p] \in Int
        /\ size[p] \in Int
    BY Zenon DEF CallInv, SizesOK
  <1>1. CASE ReadLoop(p) /\ pc'[p] # "chunk1" /\ pc'[p] # "cond"
    <2>1. Return(p, 0) /\ UNCHANGED <<read_pos, write_pos>> /\ pc[p] = "loop"
      BY Zenon, <1>0, <1>1 DEF ReadLoop, pipe_wait, Goto, pipeVars
    <2>2. moved[p] = 0 /\ 0 \in Int
      BY <1>0, <2>1 DEF Accounted
    <2>3. QED
      BY Zenon, <2>1, <2>2
  <1>2. CASE Interrupted(p)
    <2>1. Return(p, -ERESTARTSYS) /\ UNCHANGED <<read_pos, write_pos>> /\ pc[p] = "eintr"
      BY Zenon, <1>2 DEF Interrupted, pipeVars
    <2>2. moved[p] = 0 /\ -ERESTARTSYS \in Int
      BY <1>0, <2>1 DEF Accounted, ERESTARTSYS
    <2>3. QED
      BY Zenon, <2>1, <2>2
  <1>3. CASE Wake(p)
    <2>1. Return(p, size[p]) /\ UNCHANGED <<read_pos, write_pos>> /\ pc[p] = "wake"
      BY Zenon, <1>3 DEF Wake, pipeVars
    <2>2. size[p] = moved[p]
      BY <1>0, <2>1 DEF Accounted
    <2>3. Return(p, moved[p])
      BY Zenon, <2>1, <2>2
    <2>4. QED
      BY Zenon, <1>0, <2>1, <2>3
  <1>4. CASE FaultOut(p)
    <2>1. /\ \E k \in 0 .. ReadChunk(p) - 1 : Return(p, ReadChunk(p) - k)
          /\ UNCHANGED <<read_pos, write_pos>> /\ pc[p] \in {"chunk1", "chunk2"}
      BY Zenon, <1>4 DEF FaultOut, pipeVars
    <2>2. PICK k \in 0 .. ReadChunk(p) - 1 : Return(p, ReadChunk(p) - k)
      BY Zenon, <2>1
    <2>3. ReadChunk(p) - k \in Int /\ ReadChunk(p) - k \in 1 .. work[p]
      <3>1. ReadChunk(p) \in Int /\ ReadChunk(p) <= work[p]
        BY Zenon, ChunkInts
      <3>2. QED
        BY <1>0, <3>1
    <2>4. QED
      BY Zenon, <2>1, <2>2, <2>3
  <1>5. CASE FaultIn(p)
    <2>1. /\ \E k \in 0 .. WriteChunk(p) - 1 : Return(p, WriteChunk(p) - k)
          /\ UNCHANGED <<read_pos, write_pos>> /\ pc[p] \in {"chunk1", "chunk2"}
      BY Zenon, <1>5 DEF FaultIn
    <2>2. PICK k \in 0 .. WriteChunk(p) - 1 : Return(p, WriteChunk(p) - k)
      BY Zenon, <2>1
    <2>3. WriteChunk(p) - k \in Int /\ WriteChunk(p) - k \in 1 .. work[p]
      <3>1. WriteChunk(p) \in Int /\ WriteChunk(p) <= work[p]
        BY Zenon, ChunkInts
      <3>2. QED
        BY <1>0, <3>1
    <2>4. QED
      BY Zenon, <2>1, <2>2, <2>3
  <1>6. QED
    BY Zenon, <1>1, <1>2, <1>3, <1>4, <1>5

\* The loops of pipe_read and pipe_write, when they do not return.
LEMMA LoopCall ==
  ASSUME CallInv, NEW p \in Proc, ReadLoop(p) \/ WriteLoop(p),
         pc'[p] = "chunk1" \/ pc'[p] = "cond"
  PROVE  CallInv' /\ op' = op
  <1>0. /\ pc \in [Proc -> Pcs] /\ op \in [Proc -> {"read", "write", "none"}]
        /\ work \in [Proc -> Int] /\ ret \in [Proc -> Int] /\ pc[p] = "loop"
        /\ UNCHANGED <<read_pos, write_pos>>
    BY Zenon DEF CallInv, SizesOK, ReadLoop, WriteLoop, pipeVars
  <1>1. CASE pipe_wait(p)
    <2>1. /\ pc' = [pc EXCEPT ![p] = "cond"] /\ "cond" \in Pcs
          /\ UNCHANGED <<op, work, size, moved, ret>>
      BY Zenon, <1>1 DEF pipe_wait, Goto, tellVars, Pcs
    <2>2. QED
      BY Zenon, <1>0, <2>1, QuietCall
  <1>2. ASSUME NEW n, n = MinOf(pipe_data, work[p]) \/ n = MinOf(pipe_room, work[p]),
               work' = [work EXCEPT ![p] = n], size' = [size EXCEPT ![p] = n],
               Goto(p, "chunk1"), UNCHANGED <<op, moved, ret>>
        PROVE  CallInv' /\ op' = op
    <2>1. n \in Int
      <3>1. pipe_data \in Int /\ pipe_room \in Int /\ work[p] \in Int
        BY Zenon, <1>0, ChunkInts
      <3>2. QED
        BY Zenon, <1>2, <3>1 DEF MinOf
    <2>2. QED
      BY Zenon, <1>0, <1>2, <2>1, SizeCall
  <1>3. pc'[p] # "idle"
    BY Zenon
  <1>4. QED
    BY Zenon, <1>0, <1>1, <1>2, <1>3 DEF ReadLoop, WriteLoop, Return, Goto

\* The copies.
LEMMA CopyCall ==
  ASSUME CallInv, NEW p \in Proc, CopyOut(p) \/ CopyIn(p)
  PROVE  CallInv' /\ op' = op
  <1>0. Size \in Int /\ read_pos \in Int /\ write_pos \in Int
    BY SizeAssumption DEF CallInv
  <1>1. CASE CopyOut(p)
    <2>1. /\ pc[p] \in {"chunk1", "chunk2"} /\ AfterChunk(p, ReadChunk(p))
          /\ read_pos' = Advance(read_pos, ReadChunk(p))
          /\ UNCHANGED <<write_pos, op, size, ret>>
      BY Zenon, <1>1 DEF CopyOut, pipe_copy_to_user
    <2>2. ReadChunk(p) \in Int /\ ReadChunk(p) <= work[p]
      BY Zenon, ChunkInts
    <2>3. read_pos' \in Int
      BY <1>0, <2>1, <2>2 DEF Advance
    <2>4. QED
      BY Zenon, <1>0, <2>1, <2>2, <2>3, ChunkCall
  <1>2. CASE CopyIn(p)
    <2>1. /\ pc[p] \in {"chunk1", "chunk2"} /\ AfterChunk(p, WriteChunk(p))
          /\ write_pos' = Advance(write_pos, WriteChunk(p))
          /\ UNCHANGED <<read_pos, op, size, ret>>
      BY Zenon, <1>2 DEF CopyIn, pipe_copy_from_user
    <2>2. WriteChunk(p) \in Int /\ WriteChunk(p) <= work[p]
      BY Zenon, ChunkInts
    <2>3. write_pos' \in Int
      BY <1>0, <2>1, <2>2 DEF Advance
    <2>4. QED
      BY Zenon, <1>0, <2>1, <2>2, <2>3, ChunkCall
  <1>3. QED
    BY Zenon, <1>1, <1>2

\* The state pipe_ctor sets up has nothing to account for.
LEMMA InitCall == Init => CallInv
  BY DEF Init, CallInv, SizesOK, Accounted, Pcs

\* Every step of every process keeps the accounts, and a call that ends returns what is
\* on its account.
LEMMA NextCall ==
  ASSUME CallInv, Next
  PROVE  /\ CallInv'
         /\ \A q \in Proc : op[q] # "none" /\ op'[q] = "none" =>
              IF pc[q] \in {"chunk1", "chunk2"}
                THEN ret'[q] \in 1 .. work[q]
                ELSE ret'[q] = moved[q] \/ (ret'[q] = -ERESTARTSYS /\ moved[q] = 0)
  <1> DEFINE Told(q) == op[q] # "none" /\ op'[q] = "none" =>
                          IF pc[q] \in {"chunk1", "chunk2"}
                            THEN ret'[q] \in 1 .. work[q]
                            ELSE \/ ret'[q] = moved[q]
                                 \/ ret'[q] = -ERESTARTSYS /\ moved[q] = 0
  <1>0. /\ op \in [Proc -> {"read", "write", "none"}] /\ ret \in [Proc -> Int]
        /\ pc \in [Proc -> Pcs]
    BY Zenon DEF CallInv, SizesOK
  <1>1. PICK p \in Proc : User(p) \/ Lock(p) \/ Run(p) \/ Disturb(p)
    BY Zenon DEF Next
  <1>2. CASE op' = op /\ CallInv'
    BY Zenon, <1>2
  <1>3. CASE /\ CallInv'
             /\ \E o \in {"read", "write"} : op' = [op EXCEPT ![p] = o]
    BY Zenon, <1>0, <1>3
  <1>4. CASE \/ ReadLoop(p) /\ pc'[p] # "chunk1" /\ pc'[p] # "cond"
             \/ Interrupted(p) \/ Wake(p) \/ FaultOut(p) \/ FaultIn(p)
    <2>1. PICK v \in Int :
            /\ Return(p, v)
            /\ UNCHANGED <<read_pos, write_pos>>
            /\ IF pc[p] \in {"chunk1", "chunk2"}
                 THEN v \in 1 .. work[p]
                 ELSE v = moved[p] \/ (v = -ERESTARTSYS /\ moved[p] = 0)
      BY Zenon, <1>4, ReturnStep
    <2>2. CallInv'
      BY Zenon, <2>1, ReturnCall
    <2>3. op' = [op EXCEPT ![p] = "none"] /\ ret' = [ret EXCEPT ![p] = v]
      BY Zenon, <2>1 DEF Return
    <2>4. ASSUME NEW q \in Proc
          PROVE  Told(q)
      <3>1. CASE q = p
        BY Zenon, <1>0, <2>1, <2>3, <3>1
      <3>2. CASE q # p
        BY Zenon, <1>0, <2>3, <3>2
      <3>3. QED
        BY Zenon, <3>1, <3>2
    <2>5. QED
      BY Zenon, <2>2, <2>4
  <1>5. CASE User(p)
    <2>1. CallInv'
      BY Zenon, <1>5, EarlyCall
    <2>2. op' = op \/ \E o \in {"read", "write"} : op' = [op EXCEPT ![p] = o]
      BY Zenon, <1>5 DEF User, OpenLock, ReleaseLock, ReadCall, WriteCall
    <2>3. QED
      BY Zenon, <1>2, <1>3, <2>1, <2>2
  <1>6. CASE \/ Lock(p) \/ OpenCount(p) \/ ReleaseCount(p)
             \/ Prepare(p) \/ Scheduled(p) \/ Done(p)
    <2>1. CallInv'
      BY Zenon, <1>6, EarlyCall
    <2>2. op' = op
      BY Zenon, <1>6 DEF Lock, Enter, WaitOver, WaitOn, OpenCount, ReleaseCount, Prepare,
         Scheduled, Done
    <2>3. QED
      BY Zenon, <1>2, <2>1, <2>2
  <1>7. CASE /\ ReadLoop(p) \/ WriteLoop(p)
             /\ pc'[p] = "chunk1" \/ pc'[p] = "cond"
    BY Zenon, <1>2, <1>7, LoopCall
  <1>8. WriteLoop(p) => pc'[p] = "chunk1" \/ pc'[p] = "cond"
    BY Zenon, <1>0 DEF WriteLoop, pipe_wait, Goto
  <1>9. CASE CopyOut(p) \/ CopyIn(p)
    BY Zenon, <1>2, <1>9, CopyCall
  <1>10. CASE Signal(p)
    <2>1. UNCHANGED <<pc, op, work, size, moved, ret, read_pos, write_pos>>
      BY Zenon, <1>10 DEF Signal, pipeVars, tellVars
    <2>2. CallInv'
      BY Zenon, <2>1 DEF CallInv, SizesOK, Accounted
    <2>3. QED
      BY Zenon, <1>2, <2>1, <2>2
  <1>11. QED
    BY Zenon, <1>1, <1>4, <1>5, <1>6, <1>7, <1>8, <1>9, <1>10 DEF Run, Disturb

\* The accounts are right in every reachable state.
THEOREM CallsAccounted == Spec => []CallInv
  <1>1. CallInv /\ UNCHANGED vars => CallInv'
    BY Zenon DEF vars, tellVars, CallInv, SizesOK, Accounted
  <1>2. CallInv /\ [Next]_vars => CallInv'
    BY Zenon, <1>1, NextCall
  <1>3. QED
    BY <1>2, InitCall, PTL DEF Spec

\* For every set of processes, every size, and whatever signals and failed copies come in
\* between: a read or a write returns the number of bytes that it moved, in one chunk or in
\* two, or -ERESTARTSYS if it moved none; after a failed copy it returns at most what was
\* left to be copied.
THEOREM CountsAreRight == Spec => CountsReturned
  <1>1. CallInv /\ [Next]_vars =>
          [\A p \in Proc : op[p] # "none" /\ op'[p] = "none" =>
             IF pc[p] \in {"chunk1", "chunk2"}
               THEN ret'[p] \in 1 .. work[p]
               ELSE \/ ret'[p] = moved[p]
                    \/ ret'[p] = -ERESTARTSYS /\ moved[p] = 0]_vars
    BY Zenon, NextCall
  <1>2. QED
    BY <1>1, CallsAccounted, PTL DEF Spec, CountsReturned

\* The fields of struct my_pipe_t, and the sizes the calls compute with, keep their types.
THEOREM TypeCorrect ==
  ASSUME Interruptible = {}
  PROVE  Spec => []TypeOK
  <1>1. IInv /\ CallInv => TypeOK
    BY Zenon DEF IInv, CallInv, TypeOK
  <1>2. QED
    BY <1>1, Invariance, CallsAccounted, PTL

-----------------------------------------------------------------------------
(* Who has the device open, and who sleeps.                                *)

\* One step of a process, without signals and failed copies.
Acts(p) == User(p) \/ Lock(p) \/ Run(p)

\* A step of one process leaves the others where they are.
LEMMA OthersStay ==
  ASSUME IInv, NEW p \in Proc, Acts(p) \/ FaultOut(p) \/ FaultIn(p), NEW q \in Proc, q # p
  PROVE  pc'[q] = pc[q] /\ op'[q] = op[q] /\ mode'[q] = mode[q]
  <1>1. /\ pc \in [Proc -> Pcs] /\ op \in [Proc -> {"read", "write", "none"}]
        /\ mode \in [Proc -> SUBSET {"R", "W"}]
    BY Zenon DEF IInv, FieldsOK
  <1>2. CASE User(p)
    BY Zenon, <1>1, <1>2 DEF User, OpenLock, ReleaseLock, ReadCall, WriteCall, Goto
  <1>3. CASE Lock(p)
    BY Zenon, <1>1, <1>3 DEF Lock, Enter, WaitOver, WaitOn, Goto
  <1>4. CASE OpenCount(p) \/ ReleaseCount(p) \/ Prepare(p) \/ Scheduled(p) \/ Interrupted(p)
    BY Zenon, <1>1, <1>4 DEF OpenCount, ReleaseCount, Prepare, Scheduled, Interrupted,
       Return, Goto
  <1>5. CASE ReadLoop(p) \/ WriteLoop(p)
    BY Zenon, <1>1, <1>5 DEF ReadLoop, WriteLoop, pipe_wait, Return, Goto
  <1>6. CASE CopyOut(p) \/ CopyIn(p) \/ Done(p) \/ Wake(p)
    BY Zenon, <1>1, <1>6 DEF CopyOut, CopyIn, AfterChunk, Done, Wake, Return, Goto
  <1>7. CASE FaultOut(p) \/ FaultIn(p)
    BY Zenon, <1>1, <1>7 DEF FaultOut, FaultIn, Return, Goto
  <1>8. QED
    BY Zenon, <1>2, <1>3, <1>4, <1>5, <1>6, <1>7 DEF Acts, Run

\* The amounts of data and of room are integers.
LEMMA SizesAreInts == IInv => pipe_data \in Int /\ pipe_room \in Int
  <1>1. IInv => Size \in Nat /\ read_pos \in Nat /\ write_pos \in Nat
    BY SizeAssumption DEF IInv, FieldsOK, Index
  <1>2. QED
    BY <1>1 DEF pipe_data, pipe_room

\* Reading never adds data, and writing never adds room.
LEMMA CopyMoves ==
  ASSUME IInv, NEW p \in Proc
  PROVE  /\ CopyOut(p) => pipe_data' <= pipe_data
         /\ CopyIn(p) => pipe_room' <= pipe_room
  <1>1. /\ Size \in Nat \ {0} /\ read_pos \in 0 .. Size - 1
        /\ write_pos \in 0 .. Size - 1 /\ work[p] \in Nat
    BY Zenon, SizeAssumption DEF IInv, FieldsOK, Index
  <1>2. ASSUME CopyOut(p)
        PROVE  pipe_data' <= pipe_data
    <2> DEFINE k == ReadChunk(p)
    <2>1. /\ read_pos' = Advance(read_pos, k) /\ write_pos' = write_pos
          /\ pc[p] \in {"chunk1", "chunk2"} /\ op[p] = "read"
      BY Zenon, <1>2 DEF CopyOut, pipe_copy_to_user
    <2>2. /\ k \in 0 .. work[p] /\ read_pos + k <= Size /\ k <= pipe_data
          /\ read_pos <= write_pos => read_pos + k <= write_pos
      BY Zenon, <2>1, ReadChunkFits
    <2> HIDE DEF k
    <2>3. QED
      BY SMTT(30), <1>1, <2>1, <2>2 DEF Advance, pipe_data
  <1>3. ASSUME CopyIn(p)
        PROVE  pipe_room' <= pipe_room
    <2> DEFINE k == WriteChunk(p)
    <2>1. /\ write_pos' = Advance(write_pos, k) /\ read_pos' = read_pos
          /\ pc[p] \in {"chunk1", "chunk2"} /\ op[p] = "write"
      BY Zenon, <1>3 DEF CopyIn, pipe_copy_from_user
    <2>2. /\ k \in 0 .. work[p] /\ write_pos + k <= Size /\ k <= pipe_room
          /\ write_pos < read_pos => write_pos + k < read_pos
      BY Zenon, <2>1, WriteChunkFits
    <2> HIDE DEF k
    <2>3. QED
      BY SMTT(30), <1>1, <2>1, <2>2 DEF Advance, pipe_room
  <1>4. QED
    BY Zenon, <1>2, <1>3

\* What a process waits for happens only by a step of the other side that leads it to the
\* wake-up, or by the last release, which wakes the readers itself.
LEMMA WakeUpHasCause ==
  ASSUME IInv, IInv', writers \in Nat, NEW p \in Proc, NEW q \in Proc, Acts(q), q # p,
         op[p] \in {"read", "write"}, ~ ShouldWakeUp(p), ShouldWakeUp(p)'
  PROVE  \/ op'[q] \notin {op'[p], "none"} /\ pc'[q] \in {"chunk2", "done"}
         \/ p \notin queue'[op'[p]]
  <1>0. /\ pipe_data \in Int /\ pipe_room \in Int
        /\ pipe_data' \in Int /\ pipe_room' \in Int
    <2>1. (pipe_data \in Int /\ pipe_room \in Int)'
      BY SizesAreInts, PTL
    <2>2. QED
      BY Zenon, <2>1, SizesAreInts
  <1>1. op'[p] = op[p]
    BY Zenon, OthersStay
  <1>2. CASE CopyOut(q)
    <2>1. op'[q] = "read" /\ pc'[q] \in {"chunk2", "done"} /\ writers' = writers
      BY Zenon, <1>2 DEF CopyOut, AfterChunk, Goto, IInv, FieldsOK
    <2>2. op[p] # "read"
      <3>1. pipe_data' <= pipe_data
        BY Zenon, <1>2, CopyMoves
      <3>2. QED
        BY SMTT(30), <1>0, <1>1, <2>1, <3>1 DEF ShouldWakeUp, pipe_reader_should_i_wake_up
    <2>3. QED
      BY Zenon, <1>1, <2>1, <2>2
  <1>3. CASE CopyIn(q)
    <2>1. op'[q] = "write" /\ pc'[q] \in {"chunk2", "done"}
      BY Zenon, <1>3 DEF CopyIn, AfterChunk, Goto, IInv, FieldsOK
    <2>2. op[p] # "write"
      <3>1. pipe_room' <= pipe_room
        BY Zenon, <1>3, CopyMoves
      <3>2. QED
        BY SMTT(30), <1>0, <1>1, <3>1 DEF ShouldWakeUp, pipe_writer_should_i_wake_up
    <2>3. QED
      BY Zenon, <1>1, <2>1, <2>2
  <1>4. CASE OpenCount(q) \/ ReleaseCount(q)
    <2>1. UNCHANGED <<read_pos, write_pos>>
      BY Zenon, <1>4 DEF OpenCount, ReleaseCount, pipeVars
    <2>2. pipe_data' = pipe_data /\ pipe_room' = pipe_room
      BY Zenon, <2>1 DEF pipe_data, pipe_room
    <2>3. op[p] = "read" /\ writers # 0 /\ writers' = 0
      BY Zenon, <1>1, <2>2 DEF ShouldWakeUp, pipe_reader_should_i_wake_up,
         pipe_writer_should_i_wake_up
    <2>4. writers \in Int /\ queue \in [{"read", "write"} -> SUBSET Proc]
      BY Zenon DEF IInv, FieldsOK
    <2>5. CASE ReleaseCount(q)
      <3>1. queue' = [queue EXCEPT !["read"] = {}]
        BY Zenon, <2>3, <2>5 DEF ReleaseCount, pipe_wake_readers
      <3>2. QED
        BY Zenon, <1>1, <2>3, <2>4, <3>1
    <2>6. CASE OpenCount(q)
      <3>1. QED
        BY SMTT(30), <2>3, <2>6 DEF OpenCount
    <2>7. QED
      BY Zenon, <1>4, <2>5, <2>6
  <1>5. CASE ~ (CopyOut(q) \/ CopyIn(q) \/ OpenCount(q) \/ ReleaseCount(q))
    <2>1. UNCHANGED <<read_pos, write_pos, writers>>
      <3>1. CASE User(q)
        BY Zenon, <3>1 DEF User, OpenLock, ReleaseLock, ReadCall, WriteCall, pipeVars
      <3>2. CASE Lock(q)
        BY Zenon, <3>2 DEF Lock, Enter, WaitOver, WaitOn, pipeVars
      <3>3. CASE Run(q)
        BY Zenon, <1>5, <3>3 DEF Run, ReadLoop, WriteLoop, Prepare, Scheduled,
           Interrupted, Done, Wake, pipeVars
      <3>4. QED
        BY Zenon, <3>1, <3>2, <3>3 DEF Acts
    <2>2. QED
      BY Zenon, <1>1, <2>1 DEF ShouldWakeUp, pipe_reader_should_i_wake_up,
         pipe_writer_should_i_wake_up, pipe_data, pipe_room
  <1>6. QED
    BY Zenon, <1>2, <1>3, <1>4, <1>5

\* The sleeper p of the next state was asleep before, or has just found that it must wait.
LEMMA FellAsleep ==
  ASSUME IInv, NEW p \in Proc, Acts(p), pc'[p] = "sched"
  PROVE  WaitOn(p)
  <1>1. pc \in [Proc -> Pcs]
    BY Zenon DEF IInv, FieldsOK
  <1>2. CASE User(p)
    BY Zenon, <1>1, <1>2 DEF User, OpenLock, ReleaseLock, ReadCall, WriteCall, Goto
  <1>3. CASE Enter(p) \/ WaitOver(p)
    BY Zenon, <1>1, <1>3 DEF Enter, WaitOver, Goto
  <1>4. CASE OpenCount(p) \/ ReleaseCount(p) \/ Prepare(p) \/ Scheduled(p) \/ Interrupted(p)
    BY Zenon, <1>1, <1>4 DEF OpenCount, ReleaseCount, Prepare, Scheduled, Interrupted,
       Return, Goto
  <1>5. CASE ReadLoop(p) \/ WriteLoop(p)
    BY Zenon, <1>1, <1>5 DEF ReadLoop, WriteLoop, pipe_wait, Return, Goto
  <1>6. CASE CopyOut(p) \/ CopyIn(p) \/ Done(p) \/ Wake(p)
    BY Zenon, <1>1, <1>6 DEF CopyOut, CopyIn, AfterChunk, Done, Wake, Return, Goto
  <1>7. QED
    BY Zenon, <1>2, <1>3, <1>4, <1>5, <1>6 DEF Acts, Lock, Run

\* A step of another process never puts p on a queue.
LEMMA QueuedByItself ==
  ASSUME IInv, NEW p \in Proc, NEW q \in Proc, Acts(q), q # p,
         NEW o \in {"read", "write"}, p \in queue'[o]
  PROVE  p \in queue[o]
  <1>1. queue \in [{"read", "write"} -> SUBSET Proc]
    BY Zenon DEF IInv, FieldsOK
  <1>2. CASE UNCHANGED queue
    BY Zenon, <1>2
  <1>3. CASE WaitOver(q) \/ WaitOn(q) \/ Prepare(q)
    BY <1>1, <1>3 DEF WaitOver, WaitOn, Prepare
  <1>4. CASE ReleaseCount(q) \/ Wake(q)
    BY Zenon, <1>1, <1>4 DEF ReleaseCount, Wake, pipe_wake_readers, pipe_wake_writers
  <1>5. CASE ~ (WaitOver(q) \/ WaitOn(q) \/ Prepare(q) \/ ReleaseCount(q) \/ Wake(q))
    <2>1. UNCHANGED queue
      BY Zenon, <1>5 DEF Acts, User, Lock, Run, OpenLock, ReleaseLock, ReadCall, WriteCall,
         Enter, OpenCount, ReadLoop, WriteLoop, Scheduled, Interrupted, CopyOut, CopyIn, Done
    <2>2. QED
      BY Zenon, <2>1
  <1>6. QED
    BY Zenon, <1>2, <1>3, <1>4, <1>5

\* A process that made room or data available is on its way to the wake-up until it has
\* emptied the queue of the other side.
LEMMA WakerKeepsGoing ==
  ASSUME IInv, NEW q \in Proc, Acts(q), pc[q] \in {"chunk2", "done", "wake"},
         NEW o \in {"read", "write"}, op[q] \notin {o, "none"}
  PROVE  \/ op'[q] = op[q] /\ pc'[q] \in {"chunk2", "done", "wake"}
         \/ queue'[o] = {}
  <1>1. /\ pc \in [Proc -> Pcs] /\ queue \in [{"read", "write"} -> SUBSET Proc]
        /\ op[q] \in {"read", "write", "none"}
    BY Zenon DEF IInv, FieldsOK
  <1>2. CopyOut(q) \/ CopyIn(q) \/ Done(q) \/ Wake(q)
    BY Zenon DEF Acts, User, Lock, Run, OpenLock, ReleaseLock, ReadCall, WriteCall, Enter,
       WaitOver, WaitOn, OpenCount, ReleaseCount, ReadLoop, WriteLoop, Prepare, Scheduled,
       Interrupted
  <1>3. CASE CopyOut(q) \/ CopyIn(q)
    BY Zenon, <1>1, <1>3 DEF CopyOut, CopyIn, AfterChunk, Goto
  <1>4. CASE Done(q)
    BY Zenon, <1>1, <1>4 DEF Done, Goto
  <1>5. CASE Wake(q)
    BY Zenon, <1>1, <1>5 DEF Wake, pipe_wake_readers, pipe_wake_writers
  <1>6. QED
    BY Zenon, <1>2, <1>3, <1>4, <1>5

\* A step of a process loses no wake-up.
LEMMA NextNoLostWakeup ==
  ASSUME IInv, IInv', writers \in Nat, NoLostWakeup, NEW q \in Proc, Acts(q)
  PROVE  NoLostWakeup'
  <1> SUFFICES ASSUME NEW p \in Proc, pc'[p] = "sched", p \in queue'[op'[p]],
                      ShouldWakeUp(p)'
               PROVE  \E r \in Proc : /\ op'[r] \notin {op'[p], "none"}
                                      /\ pc'[r] \in {"chunk2", "done", "wake"}
    BY Zenon DEF NoLostWakeup
  <1>1. p # q
    <2> SUFFICES ASSUME p = q PROVE FALSE
      BY Zenon
    <2>1. WaitOn(p)
      BY Zenon, FellAsleep
    <2>2. ~ ShouldWakeUp(p) /\ UNCHANGED <<read_pos, write_pos, writers, op>>
      BY Zenon, <2>1 DEF WaitOn, pipeVars
    <2>3. QED
      BY Zenon, <2>2 DEF ShouldWakeUp, pipe_reader_should_i_wake_up,
         pipe_writer_should_i_wake_up, pipe_data, pipe_room
  <1>2. pc[p] = "sched" /\ op'[p] = op[p]
    BY Zenon, <1>1, OthersStay
  <1>3. op[p] \in {"read", "write"}
    BY Zenon, <1>2 DEF IInv, OpInv, FieldsOK
  <1>4. p \in queue[op[p]]
    BY Zenon, <1>1, <1>2, <1>3, QueuedByItself
  <1>5. CASE ShouldWakeUp(p)
    <2>1. PICK r \in Proc : /\ op[r] \notin {op[p], "none"}
                            /\ pc[r] \in {"chunk2", "done", "wake"}
      BY Zenon, <1>2, <1>4, <1>5 DEF NoLostWakeup
    <2>2. CASE r # q
      BY Zenon, <1>2, <2>1, <2>2, OthersStay
    <2>3. CASE r = q
      BY Zenon, <1>2, <1>3, <2>1, <2>3, WakerKeepsGoing
    <2>4. QED
      BY Zenon, <2>2, <2>3
  <1>6. CASE ~ ShouldWakeUp(p)
    BY Zenon, <1>1, <1>3, <1>6, WakeUpHasCause
  <1>7. QED
    BY Zenon, <1>5, <1>6

-----------------------------------------------------------------------------
(* The counts of readers and writers.                                      *)

\* The processes that pipe_open has counted, as readers or as writers, and pipe_release
\* has not.
Holding(m) == {q \in Proc : m \in mode[q] /\ pc[q] # "open"}

\* The driver's counts are the files that are open.
CountInv ==
  /\ readers = Cardinality(Holding("R"))
  /\ writers = Cardinality(Holding("W"))
  /\ \A q \in Proc : pc[q] = "closed" => mode[q] = {}

\* Steps that neither open nor release leave everybody counted as before.
LEMMA HoldingKept ==
  ASSUME IInv, CountInv, NEW p \in Proc, Acts(p) \/ FaultOut(p) \/ FaultIn(p),
         ~ OpenCount(p), ~ ReleaseCount(p)
  PROVE  /\ UNCHANGED <<readers, writers>>
         /\ \A m \in {"R", "W"} : Holding(m)' = Holding(m)
         /\ pc'[p] = "closed" => mode'[p] = {}
  <1>1. /\ pc \in [Proc -> Pcs] /\ mode \in [Proc -> SUBSET {"R", "W"}]
        /\ pc[p] = "closed" => mode[p] = {}
    BY Zenon DEF IInv, FieldsOK, CountInv
  <1>2. \A q \in Proc : q # p => pc'[q] = pc[q] /\ mode'[q] = mode[q]
    BY Zenon, OthersStay
  <1>3. /\ UNCHANGED <<readers, writers>>
        /\ pc'[p] # "closed"
        /\ \/ mode' = mode /\ pc[p] # "open" /\ pc'[p] # "open"
           \/ mode[p] = {} /\ pc'[p] = "open"
    <2>1. CASE User(p)
      <3>1. CASE OpenLock(p)
        BY Zenon, <1>1, <3>1 DEF OpenLock, Goto
      <3>2. CASE ReleaseLock(p)
        BY Zenon, <1>1, <3>2 DEF ReleaseLock, Goto
      <3>3. CASE ReadCall(p) \/ WriteCall(p)
        BY Zenon, <1>1, <3>3 DEF ReadCall, WriteCall, Goto
      <3>4. QED
        BY Zenon, <2>1, <3>1, <3>2, <3>3 DEF User
    <2>2. CASE Lock(p)
      BY Zenon, <1>1, <2>2 DEF Lock, Enter, WaitOver, WaitOn, Goto
    <2>3. CASE Prepare(p) \/ Scheduled(p) \/ Interrupted(p)
      BY Zenon, <1>1, <2>3 DEF Prepare, Scheduled, Interrupted, Return, Goto
    <2>4. CASE ReadLoop(p) \/ WriteLoop(p)
      BY Zenon, <1>1, <2>4 DEF ReadLoop, WriteLoop, pipe_wait, Return, Goto
    <2>5. CASE CopyOut(p) \/ CopyIn(p) \/ Done(p) \/ Wake(p)
      BY Zenon, <1>1, <2>5 DEF CopyOut, CopyIn, AfterChunk, Done, Wake, Return, Goto
    <2>6. CASE FaultOut(p) \/ FaultIn(p)
      BY Zenon, <1>1, <2>6 DEF FaultOut, FaultIn, Return, Goto
    <2>7. QED
      BY Zenon, <2>1, <2>2, <2>3, <2>4, <2>5, <2>6 DEF Acts, Run
  <1>4. \A m \in {"R", "W"} : Holding(m)' = Holding(m)
    <2> SUFFICES ASSUME NEW m \in {"R", "W"}, NEW q \in Proc
                 PROVE  m \in mode'[q] /\ pc'[q] # "open" <=> m \in mode[q] /\ pc[q] # "open"
      BY Zenon DEF Holding
    <2>1. CASE q = p
      BY Zenon, <1>3, <2>1
    <2>2. CASE q # p
      BY Zenon, <1>2, <2>2
    <2>3. QED
      BY Zenon, <2>1, <2>2
  <1>5. QED
    BY Zenon, <1>3, <1>4

INSTANCE FiniteSetTheorems

\* The device counts its openers right, also when opens and releases of many processes
\* alternate.
LEMMA NextCountInv ==
  ASSUME IsFiniteSet(Proc), Interruptible = {}, IInv, CountInv, [Next]_vars
  PROVE  CountInv'
  <1>0. /\ pc \in [Proc -> Pcs] /\ mode \in [Proc -> SUBSET {"R", "W"}]
    BY Zenon DEF IInv, FieldsOK
  <1>1. ASSUME NEW m
        PROVE  IsFiniteSet(Holding(m)) /\ Cardinality(Holding(m)) \in Nat
    <2>1. Holding(m) \in SUBSET Proc
      BY Zenon DEF Holding
    <2>2. IsFiniteSet(Holding(m))
      BY Zenon, <2>1, FS_Subset
    <2>3. QED
      BY Zenon, <2>2, FS_CardinalityType
  <1>2. CASE UNCHANGED vars
    BY Zenon, <1>2 DEF vars, CountInv, Holding
  <1>3. ASSUME NEW p \in Proc, Acts(p) \/ FaultOut(p) \/ FaultIn(p)
        PROVE  CountInv'
    <2>0. \A q \in Proc : q # p => pc'[q] = pc[q] /\ mode'[q] = mode[q]
      BY Zenon, <1>3, OthersStay
    <2>1. CASE ~ OpenCount(p) /\ ~ ReleaseCount(p)
      <3>1. /\ UNCHANGED <<readers, writers>>
            /\ Holding("R")' = Holding("R") /\ Holding("W")' = Holding("W")
            /\ pc'[p] = "closed" => mode'[p] = {}
        BY SMTT(30), <1>3, <2>1, HoldingKept
      <3>2. QED
        BY Zenon, <2>0, <3>1 DEF CountInv
    <2>2. CASE OpenCount(p)
      <3>1. pc[p] = "open" /\ pc'[p] = "idle" /\ mode' = mode
        BY Zenon, <1>0, <2>2 DEF OpenCount, Goto
      <3>2. ASSUME NEW m \in {"R", "W"}
            PROVE  Cardinality(Holding(m))' = IF m \in mode[p] THEN Cardinality(Holding(m)) + 1
                                                               ELSE Cardinality(Holding(m))
        <4>1. p \notin Holding(m)
          BY Zenon, <3>1 DEF Holding
        <4>2. Holding(m)' = IF m \in mode[p] THEN Holding(m) \cup {p} ELSE Holding(m)
          BY Zenon, <2>0, <3>1 DEF Holding
        <4>3. QED
          BY Zenon, <1>1, <4>1, <4>2, FS_AddElement
      <3>3. /\ readers' = IF "R" \in mode[p] THEN readers + 1 ELSE readers
            /\ writers' = IF "W" \in mode[p] THEN writers + 1 ELSE writers
        BY <2>2 DEF OpenCount
      <3>4. QED
        BY SMTT(30), <2>0, <3>1, <3>2, <3>3 DEF CountInv
    <2>3. CASE ReleaseCount(p)
      <3>1. /\ pc[p] = "release" /\ pc'[p] = "closed" /\ mode'[p] = {}
        BY Zenon, <1>0, <2>3 DEF ReleaseCount, Goto
      <3>2. ASSUME NEW m \in {"R", "W"}
            PROVE  Cardinality(Holding(m))' = IF m \in mode[p] THEN Cardinality(Holding(m)) - 1
                                                               ELSE Cardinality(Holding(m))
        <4>1. m \in mode[p] => p \in Holding(m)
          BY Zenon, <3>1 DEF Holding
        <4>2. Holding(m)' = IF m \in mode[p] THEN Holding(m) \ {p} ELSE Holding(m)
          BY Zenon, <2>0, <3>1 DEF Holding
        <4>3. QED
          BY Zenon, <1>1, <4>1, <4>2, FS_RemoveElement
      <3>3. /\ readers' = IF "R" \in mode[p] THEN readers - 1 ELSE readers
            /\ writers' = IF "W" \in mode[p] THEN writers - 1 ELSE writers
        BY SMTT(30), <2>3 DEF ReleaseCount
      <3>4. QED
        BY SMTT(30), <2>0, <3>1, <3>2, <3>3 DEF CountInv
    <2>4. QED
      BY Zenon, <2>1, <2>2, <2>3
  <1>4. QED
    BY Zenon, <1>2, <1>3 DEF Next, Acts, Disturb, Signal

\* The counts of readers and writers are right at every moment.
THEOREM OpenersCounted ==
  ASSUME IsFiniteSet(Proc), Interruptible = {}
  PROVE  Spec => []CountInv
  <1>1. Init => CountInv
    <2> SUFFICES ASSUME Init PROVE CountInv
      BY Zenon
    <2>1. Holding("R") = {} /\ Holding("W") = {}
      BY Zenon DEF Init, Holding
    <2>2. QED
      BY Zenon, <2>1, FS_EmptySet DEF Init, CountInv
  <1>2. QED
    BY <1>1, NextCountInv, Invariance, PTL DEF Spec

\* read says end of file only when all has been read and nobody has the device open for
\* writing.
THEOREM EndOfFile ==
  ASSUME IsFiniteSet(Proc), Interruptible = {}
  PROVE  Spec => EofMeansNoWriter
  <1>1. ASSUME IInv, CountInv, [Next]_vars, NEW p \in Proc,
               pc[p] = "loop" /\ op[p] = "read" /\ pc'[p] = "idle"
        PROVE  /\ Len(out) = sent
               /\ \A q \in Proc : "W" \in mode[q] => pc[q] = "open"
    <2>0. pc \in [Proc -> Pcs]
      BY Zenon, <1>1 DEF IInv, FieldsOK
    <2>1. PICK r \in Proc : Acts(r) \/ FaultOut(r) \/ FaultIn(r)
      <3>1. ~ UNCHANGED vars
        BY Zenon, <1>1 DEF vars
      <3>2. Next
        BY Zenon, <1>1, <3>1
      <3>3. QED
        BY Zenon, <3>2 DEF Next, Acts, Disturb, Signal
    <2>2. r = p
      BY SMTT(30), <1>1, <2>1, OthersStay
    <2>3. pipe_data = 0 /\ writers = 0
      <3>1. ReadLoop(p)
        BY Zenon, <1>1, <2>0, <2>1, <2>2 DEF Acts, User, Lock, Run, OpenLock, ReleaseLock,
           ReadCall, WriteCall, Enter, WaitOver, WaitOn, OpenCount, ReleaseCount, WriteLoop,
              Prepare,
           Scheduled, Interrupted, CopyOut, CopyIn, Done, Wake, FaultOut, FaultIn
      <3>2. QED
        BY <1>1, <2>0, <3>1 DEF ReadLoop, pipe_wait, Goto
    <2>4. Len(out) = sent
      <3>1. sent = Len(out) + pipe_data /\ out \in Seq(Nat)
        BY Zenon, <1>1 DEF IInv, RingInv, FieldsOK
      <3>2. QED
        BY <2>3, <3>1
    <2>5. Holding("W") = {}
      <3>1. Holding("W") \in SUBSET Proc
        BY Zenon DEF Holding
      <3>2. IsFiniteSet(Holding("W"))
        BY Zenon, <3>1, FS_Subset
      <3>3. QED
        BY <1>1, <2>3, <3>2, FS_EmptySet DEF CountInv
    <2>6. QED
      BY Zenon, <2>4, <2>5 DEF Holding
  <1>2. IInv /\ CountInv /\ [Next]_vars
          => [\A p \in Proc :
                pc[p] = "loop" /\ op[p] = "read" /\ pc'[p] = "idle"
                  => /\ Len(out) = sent
                     /\ \A q \in Proc : "W" \in mode[q] => pc[q] = "open"]_vars
    BY Zenon, <1>1
  <1>3. QED
    BY <1>2, Invariance, OpenersCounted, PTL DEF Spec, EofMeansNoWriter

\* Without signals and failed copies no wake-up is lost, for any number of readers and
\* writers: whoever sleeps although there is something for it to do is about to be woken.
THEOREM WakeupsNotLost ==
  ASSUME IsFiniteSet(Proc), Interruptible = {}, Faulty = {}
  PROVE  Spec => []NoLostWakeup
  <1>1. Init => NoLostWakeup
    BY Zenon DEF Init, NoLostWakeup
  <1>2. CountInv => writers \in Nat
    <2>1. Holding("W") \in SUBSET Proc
      BY Zenon DEF Holding
    <2>2. IsFiniteSet(Holding("W"))
      BY Zenon, <2>1, FS_Subset
    <2>3. QED
      BY Zenon, <2>2, FS_CardinalityType DEF CountInv
  <1>3. IInv /\ IInv' /\ CountInv /\ NoLostWakeup /\ [Next]_vars => NoLostWakeup'
    <2>1. CASE UNCHANGED vars
      BY Zenon, <2>1 DEF vars, NoLostWakeup, ShouldWakeUp, pipe_reader_should_i_wake_up,
         pipe_writer_should_i_wake_up, pipe_data, pipe_room
    <2>2. CASE Next
      <3>1. \E q \in Proc : Acts(q)
        BY Zenon, <2>2 DEF Next, Acts, Disturb, Signal, FaultOut, FaultIn
      <3>2. QED
        BY Zenon, <1>2, <3>1, NextNoLostWakeup
    <2>3. QED
      BY Zenon, <2>1, <2>2
  <1>4. QED
    BY <1>1, <1>3, Invariance, OpenersCounted, PTL DEF Spec

=============================================================================
