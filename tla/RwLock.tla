------------------------------- MODULE RwLock -------------------------------
(***************************************************************************)
(* The readers/writer lock exercise with its test program:                 *)
(* src/exercises/multi_threading/readers_writer_lock/solution.cc,          *)
(* solution2.cc and solution3.cc.  The three differ only in the condition  *)
(* variables they have and in whom unlock wakes.                           *)
(*                                                                         *)
(* Every field of the lock is read and written between a lock and an       *)
(* unlock of mymutex, or a wait that frees it: such a section is one step. *)
(***************************************************************************)
EXTENDS Integers, FiniteSets

CONSTANTS
  Reader,     \* threads with td->reader
  Writer,     \* the others
  Variants,   \* the solutions to look at
  Loops       \* td->loops, 10000 in main

ASSUME ThreadsAssumption ==
  Reader \cap Writer = {} /\ IsFiniteSet(Reader) /\ IsFiniteSet(Writer)

ASSUME LoopsAssumption == Loops \in Nat

ASSUME VariantsAssumption ==
  Variants \subseteq {"solution", "solution2", "solution3"}

VARIABLES
  variant,                            \* the solution that runs
  \* mypthread_rwlock_t
  readers, writers, readers_waiting, writers_waiting,
  asleep,                             \* threads that sleep in pthread_cond_wait
  \* the test program
  inside,                             \* its global counters readers and writers
  pc, left                            \* of worker; left: loops still to do

lockVars == <<readers, writers, readers_waiting, writers_waiting, asleep>>
vars == <<variant, lockVars, inside, pc, left>>

Thread == Reader \cup Writer
Goto(t, l) == pc' = [pc EXCEPT ![t] = l]

\* mypthread_rwlock_init, and the threads that main creates.
Init ==
  /\ variant \in Variants
  /\ readers = 0 /\ writers = 0
  /\ readers_waiting = 0 /\ writers_waiting = 0
  /\ asleep = {}
  /\ inside = [readers |-> 0, writers |-> 0]
  /\ pc = [t \in Thread |-> IF Loops = 0 THEN "end" ELSE "lock"]
  /\ left = [t \in Thread |-> Loops]

-----------------------------------------------------------------------------
(* Condition variables.                                                    *)

broadcast(S) == asleep' = asleep \ S

\* Wakes one of the threads of S that sleep, if there is one.
signal(S) ==
  \/ S \cap asleep = {} /\ UNCHANGED asleep
  \/ \E t \in S \cap asleep : asleep' = asleep \ {t}

\* A thread comes to the test of its while loop from the start of the call, or
\* from pthread_cond_wait once it has been woken.
AtTest(t) == pc[t] = "lock" \/ (pc[t] = "wait" /\ t \notin asleep)

\* Mutant of Waited: the decrement after the loop.
WaitedAlways(t) == 1

\* 1 for a thread that comes from pthread_cond_wait and is counted as waiting.
Waited(t) == IF pc[t] = "wait" THEN 1 ELSE 0

-----------------------------------------------------------------------------
(* The lock.                                                               *)

\* Mutant of rdlock: an if in the place of the while.
RdlockNoLoop(t) ==
  /\ t \in Reader /\ AtTest(t)
  /\ \/ /\ pc[t] = "lock" /\ writers > 0
        /\ readers_waiting' = readers_waiting + 1
        /\ asleep' = asleep \cup {t}
        /\ Goto(t, "wait")
        /\ UNCHANGED readers
     \/ /\ pc[t] = "wait" \/ writers = 0
        /\ readers_waiting' = readers_waiting - Waited(t)
        /\ readers' = readers + 1
        /\ Goto(t, "locked")
        /\ UNCHANGED asleep
  /\ UNCHANGED <<variant, writers, writers_waiting, inside, left>>

rdlock(t) ==
  /\ t \in Reader /\ AtTest(t)
  /\ \/ /\ writers > 0
        /\ readers_waiting' = readers_waiting - Waited(t) + 1
        /\ asleep' = asleep \cup {t}
        /\ Goto(t, "wait")
        /\ UNCHANGED readers
     \/ /\ writers = 0
        /\ readers_waiting' = readers_waiting - Waited(t)
        /\ readers' = readers + 1
        /\ Goto(t, "locked")
        /\ UNCHANGED asleep
  /\ UNCHANGED <<variant, writers, writers_waiting, inside, left>>

\* Mutant of wrlock: an if in the place of the while.
WrlockNoLoop(t) ==
  /\ t \in Writer /\ AtTest(t)
  /\ \/ /\ pc[t] = "lock" /\ (readers > 0 \/ writers > 0)
        /\ writers_waiting' = writers_waiting + 1
        /\ asleep' = asleep \cup {t}
        /\ Goto(t, "wait")
        /\ UNCHANGED writers
     \/ /\ pc[t] = "wait" \/ (readers = 0 /\ writers = 0)
        /\ writers_waiting' = writers_waiting - Waited(t)
        /\ writers' = writers + 1
        /\ Goto(t, "locked")
        /\ UNCHANGED asleep
  /\ UNCHANGED <<variant, readers, readers_waiting, inside, left>>

wrlock(t) ==
  /\ t \in Writer /\ AtTest(t)
  /\ \/ /\ readers > 0 \/ writers > 0
        /\ writers_waiting' = writers_waiting - Waited(t) + 1
        /\ asleep' = asleep \cup {t}
        /\ Goto(t, "wait")
        /\ UNCHANGED writers
     \/ /\ readers = 0 /\ writers = 0
        /\ writers_waiting' = writers_waiting - Waited(t)
        /\ writers' = writers + 1
        /\ Goto(t, "locked")
        /\ UNCHANGED asleep
  /\ UNCHANGED <<variant, readers, readers_waiting, inside, left>>

\* Mutant of wake3: nobody thinks of the readers.
Wake3WritersOnly ==
  IF writers_waiting > 0 /\ readers' = 0 THEN signal(Writer)
                                         ELSE UNCHANGED asleep

\* Whom unlock wakes in solution3, in both of its branches.
wake3 ==
  IF writers_waiting > 0 /\ readers' = 0 THEN signal(Writer)
  ELSE IF readers_waiting > 0 /\ writers' = 0 THEN broadcast(Reader)
  ELSE UNCHANGED asleep

\* Mutant of wake2: && in the place of ||.
Wake2And ==
  IF writers_waiting > 0 /\ readers_waiting > 0 THEN broadcast(Thread)
                                                ELSE UNCHANGED asleep

\* Whom unlock wakes in solution2.
wake2 ==
  IF writers_waiting > 0 \/ readers_waiting > 0 THEN broadcast(Thread)
                                                ELSE UNCHANGED asleep

\* unlock takes its caller for a reader if there are readers.
unlock(t) ==
  /\ pc[t] = "unlock"
  /\ readers' = IF readers > 0 THEN readers - 1 ELSE readers
  /\ writers' = IF readers > 0 THEN writers ELSE writers - 1
  /\ \/ variant = "solution"  /\ broadcast(Thread)
     \/ variant = "solution2" /\ wake2
     \/ variant = "solution3" /\ wake3
  /\ left' = [left EXCEPT ![t] = @ - 1]
  /\ Goto(t, IF left[t] = 1 THEN "end" ELSE "lock")
  /\ UNCHANGED <<variant, readers_waiting, writers_waiting, inside>>

\* pthread_cond_wait may return for no reason.
Spurious(t) ==
  /\ t \in asleep
  /\ asleep' = asleep \ {t}
  /\ UNCHANGED <<variant, readers, writers, readers_waiting, writers_waiting,
                 inside, pc, left>>

-----------------------------------------------------------------------------
(* The rest of worker: the assertions are made at "locked".                *)

Add(t, n) ==
  inside' = IF t \in Reader THEN [inside EXCEPT !.readers = @ + n]
                            ELSE [inside EXCEPT !.writers = @ + n]

In(t) ==
  /\ pc[t] = "locked"
  /\ Add(t, 1)
  /\ Goto(t, "in")
  /\ UNCHANGED <<variant, lockVars, left>>

Out(t) ==
  /\ pc[t] = "in"
  /\ Add(t, -1)
  /\ Goto(t, "unlock")
  /\ UNCHANGED <<variant, lockVars, left>>

Step(t) == rdlock(t) \/ wrlock(t) \/ In(t) \/ Out(t) \/ unlock(t)

\* main has joined every thread.
Joined == (\A t \in Thread : pc[t] = "end") /\ UNCHANGED vars

Next == (\E t \in Thread : Step(t) \/ Spurious(t)) \/ Joined

Spec == Init /\ [][Next]_vars

\* Every thread that can run does.  A thread waits for mymutex only while
\* another is in one of the sections, all of which end.
FairSpec == Spec /\ \A t \in Thread : WF_vars(Step(t))

-----------------------------------------------------------------------------
(* Properties.                                                             *)

Holding == {t \in Thread : pc[t] \in {"locked", "in", "unlock"}}
Waiting == {t \in Thread : pc[t] = "wait"}

\* Every variable of the lock and of its test program has its type.
TypeOK ==
  /\ variant \in Variants
  /\ readers \in Nat /\ writers \in Nat
  /\ readers_waiting \in Nat /\ writers_waiting \in Nat
  /\ asleep \subseteq Thread
  /\ inside \in [readers : Nat, writers : Nat]
  /\ pc \in [Thread -> {"lock", "wait", "locked", "in", "unlock", "end"}]
  /\ left \in [Thread -> 0 .. Loops]

\* "a lock that allows either multiple readers or just one writer to be inside
\* the lock" (exercise.md): a writer that holds the lock is alone.
WriterAlone == \A w \in Holding \cap Writer : Holding = {w}

\* The CHECK_ASSERTs of worker hold whenever a thread comes to them, although
\* the counters they read change outside of mymutex.
AssertionsHold ==
  \A t \in Thread : pc[t] = "locked" =>
    /\ inside.writers = 0
    /\ t \in Writer => inside.readers = 0

\* unlock is right to take its caller for a reader exactly when readers is not
\* zero, and the counter it decrements is not zero.
UnlockKnowsItsCaller ==
  \A t \in Thread : pc[t] = "unlock" =>
    IF t \in Reader THEN readers > 0 ELSE readers = 0 /\ writers > 0

\* The waiting counters that decide whom unlock wakes are never behind: they
\* count the threads that sleep, and those that were woken and have not run.
WaitingCounted ==
  /\ readers_waiting = Cardinality(Waiting \cap Reader)
  /\ writers_waiting = Cardinality(Waiting \cap Writer)

\* A wake-up is never lost, even when signal picks one of several writers and
\* another thread takes the lock first: while threads sleep somebody holds the
\* lock, or a woken thread is on its way to it.
NobodyLeftAsleep ==
  asleep # {} => Holding # {} \/ Waiting \ asleep # {}

\* Every thread finishes its loops, and main joins them all.
AllJoined == <>(\A t \in Thread : pc[t] = "end")

=============================================================================
