---------------------------- MODULE EventfdLock -----------------------------
(***************************************************************************)
(* The condition variable made of eventfds, mypthreadcond.h of             *)
(* src/exercises/linux_api/condition_using_eventfd, and the readers/writer *)
(* lock and the test program built on it in solution.cc.                   *)
(*                                                                         *)
(* Unlike pthread_cond_wait, mypthread_cond_wait does not free the mutex   *)
(* and fall asleep in one step, and a thread that read(2) has returned to  *)
(* stays marked as waiting until it has the mutex again.                   *)
(***************************************************************************)
EXTENDS Integers, FiniteSets

CONSTANTS
  Readers, Writers,   \* the threads of the test program
  MAX_FD,             \* 100 in the code
  Loops               \* td->loops, 10000 in main

VARIABLES
  \* mypthread_rwlock_t, and its two conditions by the name of who waits there
  readers, writers, readers_waiting, writers_waiting,
  efd, waiting,
  \* the test program
  ecount,    \* its global counters readers and writers
  epc,       \* where a thread is; "slept" is between read(2) and the mutex
  eslot,     \* mynumber of mypthread_cond_wait
  eleft      \* loops left to do

lockVars == <<readers, writers, readers_waiting, writers_waiting>>
condVars == <<efd, waiting>>
evars == <<lockVars, condVars, ecount, epc, eslot, eleft>>

Thread == Readers \cup Writers
Cond == {"readers", "writers"}
Slot == 0 .. MAX_FD - 1
Mine(t) == IF t \in Readers THEN "readers" ELSE "writers"
Goto(t, l) == epc' = [epc EXCEPT ![t] = l]

EventfdInit ==
  /\ readers = 0 /\ writers = 0 /\ readers_waiting = 0 /\ writers_waiting = 0
  /\ efd = [c \in Cond |-> [i \in Slot |-> 0]]
  /\ waiting = [c \in Cond |-> [i \in Slot |-> FALSE]]
  /\ ecount = [c \in Cond |-> 0]
  /\ epc = [t \in Thread |-> "lock"]
  /\ eslot = [t \in Thread |-> 0]
  /\ eleft = [t \in Thread |-> Loops]

-----------------------------------------------------------------------------
(* mypthreadcond.h                                                         *)

First(S) == CHOOSE i \in S : \A j \in S : i <= j

\* Mutant of mypthread_cond_signal: misses slot 0.
SignalSkipsFirst(c) ==
  LET S == {i \in Slot \ {0} : waiting[c][i]} IN
  efd' = IF S = {} THEN efd ELSE [efd EXCEPT ![c][First(S)] = @ + 1]

mypthread_cond_signal(c) ==
  LET S == {i \in Slot : waiting[c][i]} IN
  efd' = IF S = {} THEN efd ELSE [efd EXCEPT ![c][First(S)] = @ + 1]

mypthread_cond_broadcast(c) ==
  efd' = [efd EXCEPT ![c] =
            [i \in Slot |-> IF waiting[c][i] THEN @[i] + 1 ELSE @[i]]]

\* The read(2) of mypthread_cond_wait, which takes the whole counter.
CondRead(t) ==
  /\ epc[t] = "sleep" /\ efd[Mine(t)][eslot[t]] > 0
  /\ efd' = [efd EXCEPT ![Mine(t)][eslot[t]] = 0]
  /\ Goto(t, "slept")
  /\ UNCHANGED <<lockVars, waiting, ecount, eslot, eleft>>

-----------------------------------------------------------------------------
(* solution.cc                                                             *)

\* At the test of the loop, for the first time or back in the mutex after a wait.
AtTest(t) == epc[t] \in {"lock", "slept"}

\* mypthread_cond_wait ends by clearing the slot, and starts by taking the first free
\* one.  Without one its CHECK_ASSERT ends the program: here the thread takes no step.
Cleared(t) ==
  IF epc[t] = "slept" THEN [waiting EXCEPT ![Mine(t)][eslot[t]] = FALSE] ELSE waiting

mypthread_cond_wait(t) ==
  LET free == {i \in Slot : ~ Cleared(t)[Mine(t)][i]} IN
  /\ free # {}
  /\ waiting' = [Cleared(t) EXCEPT ![Mine(t)][First(free)] = TRUE]
  /\ eslot' = [eslot EXCEPT ![t] = First(free)]
  /\ Goto(t, "sleep")
  /\ UNCHANGED <<readers, writers, efd>>

\* A thread that comes to the loop for the first time is counted as waiting.
New(t) == IF epc[t] = "lock" THEN 1 ELSE 0

\* Mutant of rdlock: an if in the place of the while.
RdlockNoLoop(t) ==
  /\ t \in Readers /\ AtTest(t)
  /\ IF epc[t] = "lock" /\ (writers > 0 \/ writers_waiting > 0)
     THEN mypthread_cond_wait(t) /\ readers_waiting' = readers_waiting + New(t)
     ELSE /\ waiting' = Cleared(t) /\ Goto(t, "locked")
          /\ readers' = readers + 1
          /\ readers_waiting' = readers_waiting + New(t) - 1
          /\ UNCHANGED <<writers, efd, eslot>>
  /\ UNCHANGED <<writers_waiting, ecount, eleft>>

mypthread_rwlock_rdlock(t) ==
  /\ t \in Readers /\ AtTest(t)
  /\ IF writers > 0 \/ writers_waiting > 0
     THEN mypthread_cond_wait(t) /\ readers_waiting' = readers_waiting + New(t)
     ELSE /\ waiting' = Cleared(t) /\ Goto(t, "locked")
          /\ readers' = readers + 1
          /\ readers_waiting' = readers_waiting + New(t) - 1
          /\ UNCHANGED <<writers, efd, eslot>>
  /\ UNCHANGED <<writers_waiting, ecount, eleft>>

mypthread_rwlock_wrlock(t) ==
  /\ t \in Writers /\ AtTest(t)
  /\ IF readers > 0 \/ writers > 0
     THEN mypthread_cond_wait(t) /\ writers_waiting' = writers_waiting + New(t)
     ELSE /\ waiting' = Cleared(t) /\ Goto(t, "locked")
          /\ writers' = writers + 1
          /\ writers_waiting' = writers_waiting + New(t) - 1
          /\ UNCHANGED <<readers, efd, eslot>>
  /\ UNCHANGED <<readers_waiting, ecount, eleft>>

\* Whoever unlocks is taken for a reader if there are any.
mypthread_rwlock_unlock(t) ==
  /\ epc[t] = "unlock"
  /\ IF readers > 0 THEN readers' = readers - 1 /\ UNCHANGED writers
                    ELSE writers' = writers - 1 /\ UNCHANGED readers
  /\ CASE writers_waiting > 0 /\ readers' = 0 -> mypthread_cond_signal("writers")
       [] ~ (writers_waiting > 0 /\ readers' = 0)
            /\ readers_waiting > 0 /\ writers' = 0 -> mypthread_cond_broadcast("readers")
       [] OTHER -> UNCHANGED efd
  /\ eleft' = [eleft EXCEPT ![t] = @ - 1]
  /\ Goto(t, IF eleft[t] = 1 THEN "end" ELSE "lock")
  /\ UNCHANGED <<readers_waiting, writers_waiting, waiting, ecount, eslot>>

\* worker, with the lock: the atomic increment and decrement of its counter.
EnterLock(t) ==
  /\ epc[t] = "locked"
  /\ ecount' = [ecount EXCEPT ![Mine(t)] = @ + 1]
  /\ Goto(t, "inside")
  /\ UNCHANGED <<lockVars, condVars, eslot, eleft>>

LeaveLock(t) ==
  /\ epc[t] = "inside"
  /\ ecount' = [ecount EXCEPT ![Mine(t)] = @ - 1]
  /\ Goto(t, "unlock")
  /\ UNCHANGED <<lockVars, condVars, eslot, eleft>>

EventfdStep(t) ==
  \/ mypthread_rwlock_rdlock(t) \/ mypthread_rwlock_wrlock(t) \/ CondRead(t)
  \/ EnterLock(t) \/ LeaveLock(t) \/ mypthread_rwlock_unlock(t)

EventfdNext == \E t \in Thread : EventfdStep(t)

EventfdSpec == EventfdInit /\ [][EventfdNext]_evars

-----------------------------------------------------------------------------
(* Properties.                                                             *)

EventfdType ==
  /\ readers \in Nat /\ writers \in Nat
  /\ readers_waiting \in Nat /\ writers_waiting \in Nat
  /\ efd \in [Cond -> [Slot -> Nat]] /\ waiting \in [Cond -> [Slot -> BOOLEAN]]
  /\ ecount \in [Cond -> Nat]
  /\ epc \in [Thread ->
       {"lock", "sleep", "slept", "locked", "inside", "unlock", "end"}]
  /\ eslot \in [Thread -> Slot] /\ eleft \in [Thread -> 0 .. Loops]

\* The assertions of worker hold when they are evaluated: a reader that has the
\* lock finds no writer inside, a writer finds nobody.
EventfdExclusion ==
  \A t \in Thread : epc[t] = "locked" =>
    /\ ecount["writers"] = 0
    /\ t \in Writers => ecount["readers"] = 0

\* No two threads sleep on the same eventfd, whose counter one of them would
\* take from the other, and the slot of a thread stays marked until the thread
\* has the mutex again.
SlotsNotShared ==
  \A t, u \in Thread :
    /\ epc[t] \in {"sleep", "slept"} => waiting[Mine(t)][eslot[t]]
    /\ (/\ t # u /\ Mine(t) = Mine(u)
        /\ epc[t] \in {"sleep", "slept"} /\ epc[u] \in {"sleep", "slept"})
          => eslot[t] # eslot[u]

\* A thread that sleeps with nothing in its eventfd: only a signal still to come wakes it.
Dormant(t) == epc[t] = "sleep" /\ efd[Mine(t)][eslot[t]] = 0

\* No wake-up is lost, although a signal may reach a slot whose thread is awake: when the
\* lock is free and writers wait for it, one of them is awake; and when no writer has the
\* lock or waits for it, every reader that waits is awake.
EventfdWakeups ==
  /\ readers = 0 /\ writers = 0 /\ writers_waiting > 0 =>
       \E t \in Writers : epc[t] \in {"sleep", "slept"} /\ ~ Dormant(t)
  /\ writers = 0 /\ writers_waiting = 0 => \A t \in Readers : ~ Dormant(t)

\* Every worker ends: no thread is left asleep, whatever signals were written to
\* an eventfd whose thread was awake already, or were left in it by a wait.
EveryoneEnds == <>(\A t \in Thread : epc[t] = "end")

=============================================================================
