------------------------- MODULE EventfdLockProofs --------------------------
(***************************************************************************)
(* Proofs about the condition variable made of eventfds and the lock built *)
(* on it, for every finite number of readers and writers, every number of  *)
(* eventfds and of loops.                                                  *)
(***************************************************************************)
EXTENDS EventfdLock, FiniteSetTheorems, WellFoundedInduction, TLAPS

\* The threads of main: each of them reads, or writes.
Crew ==
  /\ IsFiniteSet(Readers) /\ IsFiniteSet(Writers) /\ Readers \cap Writers = {}
  /\ MAX_FD \in Nat \ {0}

Held == {"locked", "inside", "unlock"}
Asleep == {"sleep", "slept"}
Places == {"lock", "sleep", "slept", "locked", "inside", "unlock", "end"}

\* The threads of R that are at one of the places of L.
At(R, L) == {t \in R : epc[t] \in L}

\* What the proofs need of the types.
PlaceInv ==
  /\ epc \in [Thread -> Places]
  /\ eslot \in [Thread -> Slot]
  /\ waiting \in [Cond -> [Slot -> BOOLEAN]]
  /\ ecount \in [Cond -> Int]

\* Each counter counts threads.
CountInv ==
  /\ readers = Cardinality(At(Readers, Held))
  /\ writers = Cardinality(At(Writers, Held))
  /\ readers_waiting = Cardinality(At(Readers, Asleep))
  /\ writers_waiting = Cardinality(At(Writers, Asleep))
  /\ ecount["readers"] = Cardinality(At(Readers, {"inside"}))
  /\ ecount["writers"] = Cardinality(At(Writers, {"inside"}))

\* What the counters of the lock exclude.
LockInv == writers = 0 \/ (writers = 1 /\ readers = 0)

\* The invariant of the lock.
LockIInv == PlaceInv /\ CountInv /\ LockInv

-----------------------------------------------------------------------------
(* Counting.                                                               *)

\* The sets that are counted are finite.
LEMMA AtFinite ==
  ASSUME Crew, NEW R \in {Readers, Writers}, NEW L
  PROVE  IsFiniteSet(At(R, L)) /\ Cardinality(At(R, L)) \in Nat
  <1>1. IsFiniteSet(R) /\ At(R, L) \in SUBSET R
    BY DEF At, Crew
  <1>2. IsFiniteSet(At(R, L))
    BY <1>1, FS_Subset
  <1>3. QED
    BY <1>2, FS_CardinalityType

\* A thread at a place is counted there.
LEMMA AtLeastOne ==
  ASSUME Crew, NEW R \in {Readers, Writers}, NEW L
  PROVE  /\ \A t \in R : epc[t] \in L => Cardinality(At(R, L)) > 0
         /\ (\A t \in R : epc[t] \notin L) => Cardinality(At(R, L)) = 0
  <1>1. IsFiniteSet(At(R, L)) /\ Cardinality(At(R, L)) \in Nat
    BY AtFinite
  <1>2. Cardinality(At(R, L)) = 0 <=> At(R, L) = {}
    BY <1>1, FS_EmptySet
  <1>3. QED
    BY <1>1, <1>2 DEF At

\* How a count changes when one thread goes from one place to another.
LEMMA Move ==
  ASSUME Crew, NEW R \in {Readers, Writers}, NEW L, NEW t \in Thread, NEW l,
         DOMAIN epc = Thread, epc' = [epc EXCEPT ![t] = l]
  PROVE  Cardinality(At(R, L)') =
           Cardinality(At(R, L)) + (IF t \in R /\ l \in L THEN 1 ELSE 0)
                                 - (IF t \in R /\ epc[t] \in L THEN 1 ELSE 0)
  <1>1. IsFiniteSet(At(R, L)) /\ Cardinality(At(R, L)) \in Nat
    BY AtFinite
  <1>2. \A u \in R : epc'[u] = IF u = t THEN l ELSE epc[u]
    BY DEF Thread
  <1>3. CASE t \in R /\ l \in L
    <2>1. At(R, L)' = At(R, L) \cup {t}
      BY <1>2, <1>3 DEF At
    <2>2. t \in At(R, L) <=> epc[t] \in L
      BY <1>3 DEF At
    <2>3. Cardinality(At(R, L) \cup {t}) =
            IF t \in At(R, L) THEN Cardinality(At(R, L)) ELSE Cardinality(At(R, L)) + 1
      BY Zenon, <1>1, FS_AddElement
    <2>4. QED
      BY <1>1, <1>3, <2>1, <2>2, <2>3
  <1>4. CASE ~ (t \in R /\ l \in L)
    <2>1. At(R, L)' = At(R, L) \ {t}
      BY <1>2, <1>4 DEF At
    <2>2. t \in At(R, L) <=> t \in R /\ epc[t] \in L
      BY DEF At
    <2>3. Cardinality(At(R, L) \ {t}) =
            IF t \in At(R, L) THEN Cardinality(At(R, L)) - 1 ELSE Cardinality(At(R, L))
      BY SMTT(30), <1>1, FS_RemoveElement
    <2>4. QED
      BY <1>1, <1>4, <2>1, <2>2, <2>3
  <1>5. QED
    BY <1>3, <1>4

\* How the six counts change with one move.
LEMMA Moved ==
  ASSUME Crew, PlaceInv, CountInv, NEW t \in Thread, NEW l, Goto(t, l)
  PROVE  LET became(R, L) == (IF t \in R /\ l \in L THEN 1 ELSE 0)
                               - (IF t \in R /\ epc[t] \in L THEN 1 ELSE 0)
         IN /\ Cardinality(At(Readers, Held)') = readers + became(Readers, Held)
            /\ Cardinality(At(Writers, Held)') = writers + became(Writers, Held)
            /\ Cardinality(At(Readers, Asleep)') = readers_waiting + became(Readers, Asleep)
            /\ Cardinality(At(Writers, Asleep)') = writers_waiting + became(Writers, Asleep)
            /\ Cardinality(At(Readers, {"inside"})')
                 = ecount["readers"] + became(Readers, {"inside"})
            /\ Cardinality(At(Writers, {"inside"})')
                 = ecount["writers"] + became(Writers, {"inside"})
  <1>1. DOMAIN epc = Thread /\ epc' = [epc EXCEPT ![t] = l]
    BY DEF Goto, PlaceInv
  <1>2. ASSUME NEW R \in {Readers, Writers}, NEW L
        PROVE  Cardinality(At(R, L)') =
                 Cardinality(At(R, L)) + ((IF t \in R /\ l \in L THEN 1 ELSE 0)
                                           - (IF t \in R /\ epc[t] \in L THEN 1 ELSE 0))
    <2>1. Cardinality(At(R, L)') =
            Cardinality(At(R, L)) + (IF t \in R /\ l \in L THEN 1 ELSE 0)
                                  - (IF t \in R /\ epc[t] \in L THEN 1 ELSE 0)
      BY Zenon, <1>1, Move
    <2>2. Cardinality(At(R, L)) \in Nat
      BY AtFinite
    <2>3. QED
      BY <2>1, <2>2
  <1>3. QED
    BY <1>2 DEF CountInv

\* The counters are natural numbers.
LEMMA CountersNat ==
  ASSUME Crew, CountInv
  PROVE  /\ readers \in Nat /\ writers \in Nat
         /\ readers_waiting \in Nat /\ writers_waiting \in Nat
         /\ ecount["readers"] \in Nat /\ ecount["writers"] \in Nat
  BY AtFinite DEF CountInv

-----------------------------------------------------------------------------
(* The slots.                                                              *)

\* mypthread_cond_wait takes a slot that is free.
LEMMA FirstIsMember ==
  ASSUME NEW S \in SUBSET Nat, S # {}
  PROVE  First(S) \in S
  <1>1. PICK i \in S : \A j \in S : ~ (<<j, i>> \in OpToRel(<, Nat))
    BY Zenon, NatLessThanWellFounded, WFMin
  <1>2. ASSUME NEW j \in S
        PROVE  i <= j
    <2>1. i \in Nat /\ j \in Nat
      OBVIOUS
    <2>2. j < i => <<j, i>> \in OpToRel(<, Nat)
      BY <2>1, Zenon DEF OpToRel
    <2>3. ~ (j < i)
      BY <1>1, <2>2, Zenon
    <2>4. QED
      BY <2>1, <2>3
  <1>3. QED
    BY Zenon, <1>2 DEF First

\* Where mypthread_cond_wait leads: the thread sleeps in a slot that was free.
LEMMA Slept ==
  ASSUME Crew, PlaceInv, NEW t \in Thread, AtTest(t), mypthread_cond_wait(t)
  PROVE  \E i \in Slot :
           /\ ~ Cleared(t)[Mine(t)][i]
           /\ waiting' = [Cleared(t) EXCEPT ![Mine(t)][i] = TRUE]
           /\ eslot' = [eslot EXCEPT ![t] = i]
           /\ Cleared(t) \in [Cond -> [Slot -> BOOLEAN]]
  <1> DEFINE free == {i \in Slot : ~ Cleared(t)[Mine(t)][i]}
  <1>1. /\ free # {}
        /\ waiting' = [Cleared(t) EXCEPT ![Mine(t)][First(free)] = TRUE]
        /\ eslot' = [eslot EXCEPT ![t] = First(free)]
    BY DEF mypthread_cond_wait
  <1>2. free \in SUBSET Nat
    BY DEF Crew, Slot
  <1>3. First(free) \in free
    BY <1>1, <1>2, FirstIsMember
  <1>4. Cleared(t) \in [Cond -> [Slot -> BOOLEAN]]
    BY DEF Cleared, PlaceInv, Mine, Cond
  <1>5. QED
    BY Zenon, <1>1, <1>3, <1>4

-----------------------------------------------------------------------------
(* One lemma for each kind of step.                                        *)

\* A thread that waits goes to sleep in a slot of its own and is counted.
LEMMA WaitStep ==
  ASSUME Crew, LockIInv, NEW t \in Thread, AtTest(t), mypthread_cond_wait(t),
         IF t \in Readers
         THEN readers_waiting' = readers_waiting + New(t) /\ UNCHANGED writers_waiting
         ELSE writers_waiting' = writers_waiting + New(t) /\ UNCHANGED readers_waiting,
         UNCHANGED ecount
  PROVE  LockIInv'
  <1>1. Goto(t, "sleep") /\ UNCHANGED <<readers, writers>> /\ epc[t] \in {"lock", "slept"}
    BY DEF mypthread_cond_wait, AtTest
  <1>2. PlaceInv'
    <2>1. PICK i \in Slot :
            /\ waiting' = [Cleared(t) EXCEPT ![Mine(t)][i] = TRUE]
            /\ eslot' = [eslot EXCEPT ![t] = i]
            /\ Cleared(t) \in [Cond -> [Slot -> BOOLEAN]]
      BY Slept DEF LockIInv
    <2>2. waiting' \in [Cond -> [Slot -> BOOLEAN]]
      BY <2>1 DEF Mine, Cond
    <2>3. QED
      BY <1>1, <2>1, <2>2 DEF PlaceInv, LockIInv, Goto, Places
  <1>3. CountInv'
    BY <1>1, Moved, CountersNat
    DEF LockIInv, CountInv, Held, Asleep, New, Crew, Thread
  <1>4. QED
    BY <1>1, <1>2, <1>3 DEF LockIInv, LockInv

\* A reader takes the lock when no writer has it.
LEMMA RdlockStep ==
  ASSUME Crew, LockIInv, NEW t \in Thread, mypthread_rwlock_rdlock(t)
  PROVE  LockIInv'
  <1>1. t \in Readers /\ AtTest(t) /\ UNCHANGED <<writers_waiting, ecount>>
    BY DEF mypthread_rwlock_rdlock
  <1>2. CASE writers > 0 \/ writers_waiting > 0
    <2>1. mypthread_cond_wait(t) /\ readers_waiting' = readers_waiting + New(t)
      BY <1>2 DEF mypthread_rwlock_rdlock
    <2>2. QED
      BY <1>1, <2>1, WaitStep
  <1>3. CASE ~ (writers > 0 \/ writers_waiting > 0)
    <2>1. /\ waiting' = Cleared(t) /\ Goto(t, "locked")
          /\ readers' = readers + 1
          /\ readers_waiting' = readers_waiting + New(t) - 1
          /\ UNCHANGED <<writers, eslot>>
      BY <1>3 DEF mypthread_rwlock_rdlock
    <2>2. PlaceInv'
      BY <1>1, <2>1 DEF LockIInv, PlaceInv, Goto, Places, Cleared, Mine, Cond
    <2>3. CountInv'
      BY <1>1, <2>1, Moved, CountersNat
      DEF LockIInv, CountInv, Held, Asleep, New, AtTest, Crew, Thread
    <2>4. LockInv'
      BY <1>3, <2>1, CountersNat DEF LockIInv, LockInv
    <2>5. QED
      BY <2>2, <2>3, <2>4 DEF LockIInv
  <1>4. QED
    BY <1>2, <1>3

\* A writer takes the lock when nobody has it.
LEMMA WrlockStep ==
  ASSUME Crew, LockIInv, NEW t \in Thread, mypthread_rwlock_wrlock(t)
  PROVE  LockIInv'
  <1>1. t \in Writers /\ t \notin Readers /\ AtTest(t)
        /\ UNCHANGED <<readers_waiting, ecount>>
    BY DEF mypthread_rwlock_wrlock, Crew
  <1>2. CASE readers > 0 \/ writers > 0
    <2>1. mypthread_cond_wait(t) /\ writers_waiting' = writers_waiting + New(t)
      BY <1>2 DEF mypthread_rwlock_wrlock
    <2>2. QED
      BY <1>1, <2>1, WaitStep
  <1>3. CASE ~ (readers > 0 \/ writers > 0)
    <2>1. /\ waiting' = Cleared(t) /\ Goto(t, "locked")
          /\ writers' = writers + 1
          /\ writers_waiting' = writers_waiting + New(t) - 1
          /\ UNCHANGED <<readers, eslot>>
      BY <1>3 DEF mypthread_rwlock_wrlock
    <2>2. PlaceInv'
      BY <1>1, <2>1 DEF LockIInv, PlaceInv, Goto, Places, Cleared, Mine, Cond
    <2>3. CountInv'
      BY <1>1, <2>1, Moved, CountersNat
      DEF LockIInv, CountInv, Held, Asleep, New, AtTest, Crew, Thread
    <2>4. LockInv'
      BY <1>3, <2>1, CountersNat DEF LockIInv, LockInv
    <2>5. QED
      BY <2>2, <2>3, <2>4 DEF LockIInv
  <1>4. QED
    BY <1>2, <1>3

\* unlock knows its caller: a writer that has the lock leaves no reader to be
\* taken for.
LEMMA UnlockStep ==
  ASSUME Crew, LockIInv, NEW t \in Thread, mypthread_rwlock_unlock(t)
  PROVE  LockIInv'
  <1>1. /\ epc[t] = "unlock"
        /\ IF readers > 0 THEN readers' = readers - 1 /\ UNCHANGED writers
                          ELSE writers' = writers - 1 /\ UNCHANGED readers
        /\ UNCHANGED <<readers_waiting, writers_waiting, waiting, ecount, eslot>>
    BY DEF mypthread_rwlock_unlock
  <1>2. PICK l \in {"end", "lock"} : Goto(t, l)
    BY DEF mypthread_rwlock_unlock
  <1>3. PlaceInv'
    BY <1>1, <1>2 DEF LockIInv, PlaceInv, Goto, Places
  <1>4. /\ t \in Readers => readers > 0
        /\ t \in Writers => writers > 0
    BY <1>1, AtLeastOne DEF LockIInv, CountInv, Held
  <1>5. /\ t \in Readers => t \notin Writers /\ readers > 0 /\ writers = 0
        /\ t \notin Readers => t \in Writers /\ readers = 0 /\ writers = 1
    BY <1>4, CountersNat DEF LockIInv, LockInv, Crew, Thread
  <1>6. CountInv'
    BY <1>1, <1>2, <1>5, Moved, CountersNat DEF LockIInv, CountInv, Held, Asleep
  <1>7. LockInv'
    BY <1>1, <1>5, CountersNat DEF LockIInv, LockInv
  <1>8. QED
    BY <1>3, <1>6, <1>7 DEF LockIInv

\* The steps that leave the counters of the lock alone: the read of the eventfd
\* and the two updates of the counter of the test program.
LEMMA OtherStep ==
  ASSUME Crew, LockIInv, NEW t \in Thread, CondRead(t) \/ EnterLock(t) \/ LeaveLock(t)
  PROVE  LockIInv'
  <1>1. UNCHANGED <<lockVars, waiting, eslot>>
    BY DEF CondRead, EnterLock, LeaveLock, condVars
  <1>2. LockInv'
    BY <1>1 DEF LockIInv, LockInv, lockVars
  <1>3. \/ Mine(t) = "readers" /\ t \in Readers /\ t \notin Writers
        \/ Mine(t) = "writers" /\ t \in Writers /\ t \notin Readers
    BY DEF Mine, Crew, Thread
  <1>4. CASE CondRead(t)
    <2>1. epc[t] = "sleep" /\ Goto(t, "slept") /\ UNCHANGED ecount
      BY <1>4 DEF CondRead
    <2>2. PlaceInv'
      BY <1>1, <2>1 DEF LockIInv, PlaceInv, Goto, Places
    <2>3. CountInv'
      BY <1>1, <1>3, <2>1, Moved, CountersNat
      DEF LockIInv, CountInv, Held, Asleep, lockVars
    <2>4. QED
      BY <1>2, <2>2, <2>3 DEF LockIInv
  <1>5. CASE EnterLock(t)
    <2>1. /\ epc[t] = "locked" /\ Goto(t, "inside")
          /\ ecount' = [ecount EXCEPT ![Mine(t)] = @ + 1]
      BY <1>5 DEF EnterLock
    <2>2. PlaceInv'
      BY <1>1, <2>1 DEF LockIInv, PlaceInv, Goto, Places, Mine, Cond
    <2>3. \A c \in Cond : ecount'[c] = ecount[c] + (IF c = Mine(t) THEN 1 ELSE 0)
      BY <2>1 DEF LockIInv, PlaceInv
    <2>4. CountInv'
      BY SMTT(30), <1>1, <1>3, <2>1, <2>3, Moved, CountersNat
      DEF LockIInv, CountInv, Held, Asleep, lockVars, Cond
    <2>5. QED
      BY <1>2, <2>2, <2>4 DEF LockIInv
  <1>6. CASE LeaveLock(t)
    <2>1. /\ epc[t] = "inside" /\ Goto(t, "unlock")
          /\ ecount' = [ecount EXCEPT ![Mine(t)] = @ - 1]
      BY <1>6 DEF LeaveLock
    <2>2. PlaceInv'
      BY <1>1, <2>1 DEF LockIInv, PlaceInv, Goto, Places, Mine, Cond
    <2>3. \A c \in Cond : ecount'[c] = ecount[c] - (IF c = Mine(t) THEN 1 ELSE 0)
      BY <2>1 DEF LockIInv, PlaceInv
    <2>4. CountInv'
      BY SMTT(30), <1>1, <1>3, <2>1, <2>3, Moved, CountersNat
      DEF LockIInv, CountInv, Held, Asleep, lockVars, Cond
    <2>5. QED
      BY <1>2, <2>2, <2>4 DEF LockIInv
  <1>7. QED
    BY <1>4, <1>5, <1>6

-----------------------------------------------------------------------------
(* The theorems about the lock and about the slots.                        *)

\* The counters of the lock and of the test program count what their names say,
\* and a writer that holds the lock is alone.
THEOREM Invariance == Crew => (EventfdSpec => []LockIInv)
  <1> SUFFICES ASSUME Crew PROVE EventfdSpec => []LockIInv
    OBVIOUS
  <1>1. EventfdInit => LockIInv
    <2> SUFFICES ASSUME EventfdInit PROVE LockIInv
      OBVIOUS
    <2>1. \A t \in Thread : epc[t] = "lock"
      BY DEF EventfdInit
    <2>2. PlaceInv
      <3>1. 0 \in Slot
        BY DEF Crew, Slot
      <3>2. QED
        BY <3>1 DEF EventfdInit, PlaceInv, Places
    <2>3. ASSUME NEW R \in {Readers, Writers}, NEW L \in {Held, Asleep, {"inside"}}
          PROVE  Cardinality(At(R, L)) = 0
      <3>1. \A t \in R : epc[t] \notin L
        BY <2>1 DEF Held, Asleep, Thread
      <3>2. QED
        BY <3>1, AtLeastOne
    <2>4. CountInv
      BY <2>3 DEF EventfdInit, CountInv, Cond
    <2>5. QED
      BY <2>2, <2>4 DEF EventfdInit, LockIInv, LockInv
  <1>2. LockIInv /\ [EventfdNext]_evars => LockIInv'
    <2> SUFFICES ASSUME LockIInv, [EventfdNext]_evars PROVE LockIInv'
      OBVIOUS
    <2>1. ASSUME NEW t \in Thread, EventfdStep(t) PROVE LockIInv'
      BY <2>1, RdlockStep, WrlockStep, UnlockStep, OtherStep DEF EventfdStep
    <2>2. CASE UNCHANGED evars
      BY <2>2 DEF evars, lockVars, condVars, LockIInv, PlaceInv, CountInv, LockInv, At
    <2>3. QED
      BY <2>1, <2>2 DEF EventfdNext
  <1>3. QED
    BY <1>1, <1>2, PTL DEF EventfdSpec

\* The assertions of worker hold whenever they are evaluated, although the
\* counters they read are updated outside of the mutex of the lock.
THEOREM Exclusion == Crew => (EventfdSpec => []EventfdExclusion)
  <1> SUFFICES ASSUME Crew PROVE EventfdSpec => []EventfdExclusion
    OBVIOUS
  <1>1. LockIInv => EventfdExclusion
    <2> SUFFICES ASSUME LockIInv, NEW t \in Thread, epc[t] = "locked"
                 PROVE  /\ ecount["writers"] = 0
                        /\ t \in Writers => ecount["readers"] = 0
      BY DEF EventfdExclusion
    <2>1. At(Writers, {"inside"}) \subseteq At(Writers, Held) \ {t}
          /\ At(Readers, {"inside"}) \subseteq At(Readers, Held)
      BY DEF At, Held
    <2>2. IsFiniteSet(At(Writers, Held)) /\ IsFiniteSet(At(Readers, Held))
      BY AtFinite
    <2>3. IsFiniteSet(At(Writers, Held) \ {t}) /\
          Cardinality(At(Writers, Held) \ {t}) =
            IF t \in At(Writers, Held) THEN writers - 1 ELSE writers
      BY SMTT(30), <2>2, FS_RemoveElement DEF LockIInv, CountInv
    <2>4. /\ ecount["writers"] <= Cardinality(At(Writers, Held) \ {t})
          /\ ecount["readers"] <= readers
      BY <2>1, <2>2, <2>3, FS_Subset DEF LockIInv, CountInv
    <2>5. /\ t \in Writers => t \in At(Writers, Held) /\ writers > 0
          /\ t \in Readers => t \notin At(Writers, Held) /\ readers > 0
      <3>1. /\ t \in Writers => writers > 0
            /\ t \in Readers => readers > 0
        BY AtLeastOne DEF LockIInv, CountInv, Held
      <3>2. /\ t \in Writers => t \in At(Writers, Held)
            /\ t \in Readers => t \notin At(Writers, Held)
        BY DEF At, Held, Crew
      <3>3. QED
        BY <3>1, <3>2
    <2>6. QED
      BY <2>3, <2>4, <2>5, CountersNat DEF LockIInv, LockInv, Thread
  <1>2. QED
    BY <1>1, Invariance, PTL

\* What a step may do to the slots: a thread moves to a free slot, gives back the
\* one it had, or leaves all of them alone.
LEMMA SlotStep ==
  ASSUME Crew, PlaceInv, NEW t \in Thread, EventfdStep(t)
  PROVE  \/ /\ AtTest(t) /\ epc' = [epc EXCEPT ![t] = "sleep"]
            /\ \E i \in Slot :
                 /\ ~ Cleared(t)[Mine(t)][i]
                 /\ waiting' = [Cleared(t) EXCEPT ![Mine(t)][i] = TRUE]
                 /\ eslot' = [eslot EXCEPT ![t] = i]
         \/ /\ AtTest(t) /\ epc' = [epc EXCEPT ![t] = "locked"]
            /\ waiting' = Cleared(t) /\ eslot' = eslot
         \/ /\ epc[t] = "sleep" /\ epc' = [epc EXCEPT ![t] = "slept"]
            /\ waiting' = waiting /\ eslot' = eslot
         \/ /\ \E l \in Places \ Asleep : epc' = [epc EXCEPT ![t] = l]
            /\ epc[t] \notin Asleep /\ waiting' = waiting /\ eslot' = eslot
  <1>1. CASE mypthread_rwlock_rdlock(t)
    BY SMTT(30), <1>1, Slept DEF mypthread_rwlock_rdlock, mypthread_cond_wait, Goto
  <1>2. CASE mypthread_rwlock_wrlock(t)
    BY SMTT(30), <1>2, Slept DEF mypthread_rwlock_wrlock, mypthread_cond_wait, Goto
  <1>3. CASE CondRead(t)
    BY <1>3 DEF CondRead, Goto
  <1>4. CASE EnterLock(t) \/ LeaveLock(t)
    BY <1>4 DEF EnterLock, LeaveLock, Goto, condVars, Places, Asleep
  <1>5. CASE mypthread_rwlock_unlock(t)
    <2>1. PICK l \in {"end", "lock"} : Goto(t, l)
      BY <1>5 DEF mypthread_rwlock_unlock
    <2>2. l \in Places \ Asleep
      BY DEF Places, Asleep
    <2>3. epc[t] \notin Asleep /\ waiting' = waiting /\ eslot' = eslot
      BY <1>5 DEF mypthread_rwlock_unlock, Asleep
    <2>4. QED
      BY Zenon, <2>1, <2>2, <2>3 DEF Goto
  <1>6. QED
    BY SMTT(30), <1>1, <1>2, <1>3, <1>4, <1>5 DEF EventfdStep

\* No two threads sleep on the same eventfd: a slot is marked from before its
\* thread lets go of the mutex until after it has it again.
THEOREM SlotsApart == Crew => (EventfdSpec => []SlotsNotShared)
  <1> SUFFICES ASSUME Crew PROVE EventfdSpec => []SlotsNotShared
    OBVIOUS
  <1>1. EventfdInit => SlotsNotShared
    BY DEF EventfdInit, SlotsNotShared
  <1>2. LockIInv /\ SlotsNotShared /\ [EventfdNext]_evars => SlotsNotShared'
    <2> SUFFICES ASSUME PlaceInv, SlotsNotShared, [EventfdNext]_evars PROVE SlotsNotShared'
      BY DEF LockIInv
    <2>1. ASSUME NEW t \in Thread, EventfdStep(t),
                 NEW a \in Thread, NEW b \in Thread
          PROVE  /\ epc'[a] \in Asleep => waiting'[Mine(a)][eslot'[a]]
                 /\ (/\ a # b /\ Mine(a) = Mine(b)
                     /\ epc'[a] \in Asleep /\ epc'[b] \in Asleep)
                       => eslot'[a] # eslot'[b]
      <3>1. \A c, d \in Thread :
              /\ epc[c] \in Asleep => waiting[Mine(c)][eslot[c]]
              /\ (/\ c # d /\ Mine(c) = Mine(d)
                  /\ epc[c] \in Asleep /\ epc[d] \in Asleep) => eslot[c] # eslot[d]
        BY DEF SlotsNotShared, Asleep
      <3>2. \A c \in Thread : Mine(c) \in Cond /\ eslot[c] \in Slot
        BY DEF Mine, Cond, PlaceInv
      <3>3. Cleared(t) \in [Cond -> [Slot -> BOOLEAN]]
        BY <3>2 DEF Cleared, PlaceInv
      <3>4. AtTest(t) =>
              \A c \in Thread \ {t} :
                epc[c] \in Asleep => Cleared(t)[Mine(c)][eslot[c]]
        BY <3>1, <3>2 DEF Cleared, PlaceInv, Asleep, AtTest
      <3>5. CASE AtTest(t) /\ epc' = [epc EXCEPT ![t] = "sleep"] /\
                 \E i \in Slot :
                   /\ ~ Cleared(t)[Mine(t)][i]
                   /\ waiting' = [Cleared(t) EXCEPT ![Mine(t)][i] = TRUE]
                   /\ eslot' = [eslot EXCEPT ![t] = i]
        <4>1. PICK i \in Slot :
                /\ ~ Cleared(t)[Mine(t)][i]
                /\ waiting' = [Cleared(t) EXCEPT ![Mine(t)][i] = TRUE]
                /\ eslot' = [eslot EXCEPT ![t] = i]
          BY Zenon, <3>5
        <4>2. \A c \in Thread : eslot'[c] = IF c = t THEN i ELSE eslot[c]
          BY <4>1 DEF PlaceInv
        <4>3. \A c \in Cond, k \in Slot :
                waiting'[c][k] = IF c = Mine(t) /\ k = i THEN TRUE ELSE Cleared(t)[c][k]
          BY Zenon, <3>2, <3>3, <4>1
        <4>4. \A c \in Thread \ {t} : epc'[c] = epc[c]
          BY <3>5 DEF PlaceInv
        <4>5. ASSUME NEW c \in Thread \ {t}, epc'[c] \in Asleep
              PROVE  /\ waiting'[Mine(c)][eslot[c]]
                     /\ Mine(c) = Mine(t) => eslot[c] # i
          <5>1. Cleared(t)[Mine(c)][eslot[c]]
            BY <3>4, <3>5, <4>4, <4>5
          <5>2. Mine(c) \in Cond /\ eslot[c] \in Slot
            BY <3>2
          <5>3. waiting'[Mine(c)][eslot[c]]
            BY Zenon, <4>3, <5>1, <5>2
          <5>4. QED
            BY <4>1, <5>1, <5>3
        <4>6. waiting'[Mine(t)][i]
          BY Zenon, <3>2, <4>3
        <4>7. epc'[a] \in Asleep => waiting'[Mine(a)][eslot'[a]]
          BY <4>2, <4>5, <4>6
        <4>8. ASSUME a # b, Mine(a) = Mine(b), epc'[a] \in Asleep, epc'[b] \in Asleep
              PROVE  eslot'[a] # eslot'[b]
          <5>1. CASE a = t
            BY <4>2, <4>5, <4>8, <5>1
          <5>2. CASE b = t
            BY <4>2, <4>5, <4>8, <5>2
          <5>3. CASE a # t /\ b # t
            BY <3>1, <4>2, <4>4, <4>8, <5>3
          <5>4. QED
            BY <5>1, <5>2, <5>3
        <4>9. QED
          BY <4>7, <4>8
      <3>6. CASE /\ AtTest(t) /\ epc' = [epc EXCEPT ![t] = "locked"]
                 /\ waiting' = Cleared(t) /\ eslot' = eslot
        BY <3>1, <3>4, <3>6 DEF PlaceInv, Asleep
      <3>7. CASE /\ epc[t] = "sleep" /\ epc' = [epc EXCEPT ![t] = "slept"]
                 /\ waiting' = waiting /\ eslot' = eslot
        BY <3>1, <3>7 DEF PlaceInv, Asleep
      <3>8. CASE /\ \E l \in Places \ Asleep : epc' = [epc EXCEPT ![t] = l]
                 /\ epc[t] \notin Asleep /\ waiting' = waiting /\ eslot' = eslot
        BY <3>1, <3>8 DEF PlaceInv
      <3>9. QED
        BY SMTT(30), <2>1, SlotStep, <3>5, <3>6, <3>7, <3>8
    <2>2. CASE UNCHANGED evars
      BY <2>2 DEF evars, condVars, SlotsNotShared
    <2>3. QED
      BY <2>1, <2>2 DEF EventfdNext, SlotsNotShared, Asleep
  <1>3. QED
    BY <1>1, <1>2, Invariance, PTL DEF EventfdSpec

-----------------------------------------------------------------------------
(* Nobody is left asleep.                                                  *)

\* A slot that is marked is the slot of a thread that waits.
SlotsOwned ==
  \A c \in Cond, i \in Slot : waiting[c][i] =>
    \E t \in Thread : Mine(t) = c /\ epc[t] \in Asleep /\ eslot[t] = i

\* The invariant of the slots and of their counters.
WakeInv ==
  /\ efd \in [Cond -> [Slot -> Nat]]
  /\ SlotsNotShared /\ SlotsOwned /\ EventfdWakeups

\* A thread that waits keeps its slot until it has the mutex again.
LEMMA OwnedStep ==
  ASSUME Crew, PlaceInv, SlotsOwned, NEW t \in Thread, EventfdStep(t)
  PROVE  SlotsOwned'
  <1> SUFFICES ASSUME NEW c \in Cond, NEW i \in Slot, waiting'[c][i]
               PROVE  \E u \in Thread : Mine(u) = c /\ epc'[u] \in Asleep /\ eslot'[u] = i
    BY DEF SlotsOwned, Mine
  <1>1. \A u \in Thread : Mine(u) \in Cond /\ eslot[u] \in Slot
    BY DEF Mine, Cond, PlaceInv
  <1>2. Cleared(t) \in [Cond -> [Slot -> BOOLEAN]]
    BY <1>1 DEF Cleared, PlaceInv
  <1>3. ASSUME AtTest(t), Cleared(t)[c][i]
        PROVE  \E u \in Thread \ {t} : Mine(u) = c /\ epc[u] \in Asleep /\ eslot[u] = i
    <2>1. waiting[c][i] /\ ~ (epc[t] = "slept" /\ Mine(t) = c /\ eslot[t] = i)
      BY <1>1, <1>3 DEF Cleared, PlaceInv
    <2>2. PICK u \in Thread : Mine(u) = c /\ epc[u] \in Asleep /\ eslot[u] = i
      BY <2>1 DEF SlotsOwned
    <2>3. u # t
      BY <1>3, <2>1, <2>2 DEF AtTest, Asleep
    <2>4. QED
      BY <2>2, <2>3
  <1>4. CASE AtTest(t) /\ epc' = [epc EXCEPT ![t] = "sleep"] /\
             \E k \in Slot :
               /\ ~ Cleared(t)[Mine(t)][k]
               /\ waiting' = [Cleared(t) EXCEPT ![Mine(t)][k] = TRUE]
               /\ eslot' = [eslot EXCEPT ![t] = k]
    <2>1. PICK k \in Slot :
            /\ waiting' = [Cleared(t) EXCEPT ![Mine(t)][k] = TRUE]
            /\ eslot' = [eslot EXCEPT ![t] = k]
      BY Zenon, <1>4
    <2>2. \A u \in Thread : /\ eslot'[u] = IF u = t THEN k ELSE eslot[u]
                            /\ epc'[u] = IF u = t THEN "sleep" ELSE epc[u]
      BY <1>4, <2>1 DEF PlaceInv
    <2>3. CASE c = Mine(t) /\ i = k
      BY <2>2, <2>3 DEF Asleep
    <2>4. CASE ~ (c = Mine(t) /\ i = k)
      <3>1. Cleared(t)[c][i]
        BY <1>1, <1>2, <2>1, <2>4
      <3>2. QED
        BY <1>3, <1>4, <2>2, <3>1
    <2>5. QED
      BY <2>3, <2>4
  <1>5. CASE /\ AtTest(t) /\ epc' = [epc EXCEPT ![t] = "locked"]
             /\ waiting' = Cleared(t) /\ eslot' = eslot
    <2>1. \A u \in Thread \ {t} : epc'[u] = epc[u]
      BY <1>5 DEF PlaceInv
    <2>2. QED
      BY <1>3, <1>5, <2>1
  <1>6. ASSUME waiting' = waiting, eslot' = eslot,
               \A u \in Thread : epc[u] \in Asleep => epc'[u] \in Asleep
        PROVE  \E u \in Thread : Mine(u) = c /\ epc'[u] \in Asleep /\ eslot'[u] = i
    BY <1>6 DEF SlotsOwned
  <1>7. CASE /\ epc[t] = "sleep" /\ epc' = [epc EXCEPT ![t] = "slept"]
             /\ waiting' = waiting /\ eslot' = eslot
    <2>1. \A u \in Thread : epc[u] \in Asleep => epc'[u] \in Asleep
      BY <1>7 DEF PlaceInv, Asleep
    <2>2. QED
      BY <1>6, <1>7, <2>1
  <1>8. CASE /\ \E l \in Places \ Asleep : epc' = [epc EXCEPT ![t] = l]
             /\ epc[t] \notin Asleep /\ waiting' = waiting /\ eslot' = eslot
    <2>1. \A u \in Thread : epc[u] \in Asleep => epc'[u] \in Asleep
      BY <1>8 DEF PlaceInv
    <2>2. QED
      BY <1>6, <1>8, <2>1
  <1>9. QED
    BY SMTT(30), SlotStep, <1>4, <1>5, <1>7, <1>8

\* The counters that say that someone waits are right.
LEMMA WaitersCounted ==
  ASSUME Crew, CountInv
  PROVE  /\ writers_waiting > 0 <=> \E t \in Writers : epc[t] \in Asleep
         /\ readers_waiting > 0 <=> \E t \in Readers : epc[t] \in Asleep
  BY AtLeastOne, CountersNat DEF CountInv

\* A signal reaches a thread that waits.
LEMMA SignalWakes ==
  ASSUME Crew, PlaceInv, WakeInv, NEW c \in Cond, mypthread_cond_signal(c),
         \E t \in Thread : Mine(t) = c /\ epc[t] \in Asleep
  PROVE  /\ efd' \in [Cond -> [Slot -> Nat]]
         /\ \E t \in Thread : Mine(t) = c /\ epc[t] \in Asleep /\ efd'[c][eslot[t]] > 0
  <1> DEFINE S == {i \in Slot : waiting[c][i]}
  <1>1. S # {}
    BY DEF WakeInv, SlotsNotShared, PlaceInv, Asleep
  <1>2. S \in SUBSET Nat
    BY DEF Crew, Slot
  <1>3. First(S) \in S
    BY <1>1, <1>2, FirstIsMember
  <1>4. PICK i \in S : i = First(S)
    BY <1>3
  <1>5. efd' = [efd EXCEPT ![c][i] = @ + 1]
    BY <1>1, <1>4 DEF mypthread_cond_signal
  <1>6. efd' \in [Cond -> [Slot -> Nat]] /\ efd'[c][i] > 0
    BY <1>5 DEF WakeInv
  <1>7. PICK t \in Thread : Mine(t) = c /\ epc[t] \in Asleep /\ eslot[t] = i
    BY DEF WakeInv, SlotsOwned
  <1>8. QED
    BY <1>6, <1>7

\* A broadcast reaches every thread that waits.
LEMMA BroadcastWakes ==
  ASSUME Crew, PlaceInv, WakeInv, NEW c \in Cond, mypthread_cond_broadcast(c)
  PROVE  /\ efd' \in [Cond -> [Slot -> Nat]]
         /\ \A t \in Thread : Mine(t) = c /\ epc[t] \in Asleep => efd'[c][eslot[t]] > 0
  <1>1. efd' = [efd EXCEPT ![c] = [i \in Slot |-> IF waiting[c][i] THEN efd[c][i] + 1
                                                                   ELSE efd[c][i]]]
    BY DEF mypthread_cond_broadcast
  <1>2. /\ efd' \in [Cond -> [Slot -> Nat]]
        /\ \A i \in Slot : waiting[c][i] => efd'[c][i] > 0
    BY <1>1 DEF WakeInv
  <1>3. \A t \in Thread : Mine(t) = c /\ epc[t] \in Asleep =>
          eslot[t] \in Slot /\ waiting[c][eslot[t]]
    BY DEF WakeInv, SlotsNotShared, PlaceInv, Asleep
  <1>4. QED
    BY <1>2, <1>3

\* Going to sleep leaves somebody awake: a reader sleeps only when a writer has the
\* lock or waits for it, a writer only when somebody has it.
LEMMA WaitWakes ==
  ASSUME Crew, LockIInv, WakeInv, CountInv', NEW t \in Thread, mypthread_cond_wait(t),
         IF t \in Readers
         THEN (writers > 0 \/ writers_waiting > 0) /\ UNCHANGED writers_waiting
         ELSE readers > 0 \/ writers > 0
  PROVE  EventfdWakeups'
  <1>1. /\ UNCHANGED <<readers, writers, efd>> /\ epc' = [epc EXCEPT ![t] = "sleep"]
        /\ \E i : eslot' = [eslot EXCEPT ![t] = i]
    BY DEF mypthread_cond_wait, Goto
  <1>2. CASE t \in Readers
    <2>1. \A u \in Writers : epc'[u] = epc[u] /\ eslot'[u] = eslot[u] /\ u \notin Readers
      BY <1>1, <1>2 DEF LockIInv, PlaceInv, Crew, Thread
    <2>2. writers \in Nat /\ writers_waiting \in Nat
      BY CountersNat DEF LockIInv
    <2>3. ASSUME readers = 0, writers = 0, writers_waiting > 0
          PROVE  \E u \in Writers : epc'[u] \in {"sleep", "slept"} /\ ~ Dormant(u)'
      BY <1>1, <2>1, <2>3 DEF WakeInv, EventfdWakeups, Dormant, Mine
    <2>4. QED
      BY <1>1, <1>2, <2>2, <2>3 DEF EventfdWakeups
  <1>3. CASE t \notin Readers
    <2>1. t \in Writers /\ epc'[t] \in Asleep
      BY <1>1, <1>3 DEF Thread, LockIInv, PlaceInv, Asleep
    <2>2. Cardinality(At(Writers, Asleep)') > 0
      <3>1. IsFiniteSet(Writers) /\ At(Writers, Asleep)' \in SUBSET Writers
        BY DEF At, Crew
      <3>2. IsFiniteSet(At(Writers, Asleep)')
        BY Zenon, <3>1, FS_Subset
      <3>3. t \in At(Writers, Asleep)'
        BY <2>1 DEF At
      <3>4. QED
        BY <3>2, <3>3, FS_EmptySet, FS_CardinalityType
    <2>3. writers_waiting' > 0
      BY <2>2 DEF CountInv
    <2>4. readers \in Nat /\ writers \in Nat
      BY CountersNat DEF LockIInv
    <2>5. QED
      BY <1>1, <1>3, <2>3, <2>4 DEF EventfdWakeups
  <1>4. QED
    BY <1>2, <1>3

\* Whoever gives the lock back wakes a thread that may have it now.
LEMMA UnlockWakes ==
  ASSUME Crew, LockIInv, WakeInv, CountInv', NEW t \in Thread, mypthread_rwlock_unlock(t)
  PROVE  efd' \in [Cond -> [Slot -> Nat]] /\ EventfdWakeups'
  <1>1. /\ epc[t] = "unlock" /\ UNCHANGED <<readers_waiting, writers_waiting, eslot>>
        /\ \E l \in {"end", "lock"} : epc' = [epc EXCEPT ![t] = l]
    BY DEF mypthread_rwlock_unlock, Goto
  <1>2. \A u \in Thread : /\ epc[u] \in Asleep <=> epc'[u] \in Asleep
                          /\ epc[u] \in Asleep => epc'[u] = epc[u]
    BY <1>1 DEF LockIInv, PlaceInv, Asleep
  <1>3. /\ readers_waiting \in Nat /\ writers_waiting \in Nat
        /\ readers \in Nat /\ writers \in Nat
    BY CountersNat DEF LockIInv
  <1>4. /\ writers_waiting > 0 <=> \E u \in Writers : epc[u] \in Asleep
        /\ readers_waiting > 0 <=> \E u \in Readers : epc[u] \in Asleep
    BY WaitersCounted DEF LockIInv
  <1>5. /\ "readers" \in Cond /\ "writers" \in Cond
        /\ \A u \in Readers : u \in Thread /\ Mine(u) = "readers"
        /\ \A u \in Writers : u \in Thread /\ Mine(u) = "writers"
        /\ \A u \in Thread : Mine(u) = "writers" => u \in Writers
    BY DEF Cond, Mine, Thread, Crew
  <1>6. CASE writers_waiting > 0 /\ readers' = 0
    <2>1. mypthread_cond_signal("writers")
      BY <1>6 DEF mypthread_rwlock_unlock
    <2>2. \E u \in Thread : Mine(u) = "writers" /\ epc[u] \in Asleep
      BY <1>4, <1>5, <1>6
    <2>3. /\ efd' \in [Cond -> [Slot -> Nat]]
          /\ \E u \in Thread :
               Mine(u) = "writers" /\ epc[u] \in Asleep /\ efd'["writers"][eslot[u]] > 0
      BY <1>5, <2>1, <2>2, SignalWakes DEF LockIInv
    <2>4. PICK u \in Writers : epc'[u] \in Asleep /\ efd'[Mine(u)][eslot'[u]] > 0
      BY <1>1, <1>2, <1>5, <2>3
    <2>5. ~ Dormant(u)'
      BY <2>4 DEF Dormant, Mine
    <2>6. QED
      BY <1>1, <1>6, <2>3, <2>4, <2>5 DEF EventfdWakeups, Asleep
  <1>7. CASE /\ ~ (writers_waiting > 0 /\ readers' = 0)
             /\ readers_waiting > 0 /\ writers' = 0
    <2>1. mypthread_cond_broadcast("readers")
      BY <1>7 DEF mypthread_rwlock_unlock
    <2>2. /\ efd' \in [Cond -> [Slot -> Nat]]
          /\ \A u \in Thread :
               Mine(u) = "readers" /\ epc[u] \in Asleep => efd'["readers"][eslot[u]] > 0
      BY <1>5, <2>1, BroadcastWakes DEF LockIInv
    <2>3. \A u \in Readers : epc'[u] \in Asleep => efd'[Mine(u)][eslot'[u]] > 0
      BY <1>1, <1>2, <1>5, <2>2
    <2>4. \A u \in Readers : ~ Dormant(u)'
      BY <2>3 DEF Dormant, Mine, Asleep
    <2>5. QED
      BY <1>1, <1>7, <2>2, <2>4 DEF EventfdWakeups
  <1>8. CASE /\ ~ (writers_waiting > 0 /\ readers' = 0)
             /\ ~ (readers_waiting > 0 /\ writers' = 0)
    <2>1. efd' = efd
      BY <1>8 DEF mypthread_rwlock_unlock
    <2>2. ASSUME writers' = 0
          PROVE  \A u \in Readers : ~ Dormant(u)'
      BY <1>2, <1>4, <1>5, <1>8, <2>2 DEF Dormant, Mine, Asleep
    <2>3. QED
      BY <1>1, <1>8, <2>1, <2>2 DEF EventfdWakeups, WakeInv
  <1>9. QED
    BY <1>6, <1>7, <1>8

\* A read takes the counter of the slot of the reader alone.
LEMMA ReadWakes ==
  ASSUME Crew, LockIInv, WakeInv, NEW t \in Thread, CondRead(t)
  PROVE  efd' \in [Cond -> [Slot -> Nat]] /\ EventfdWakeups'
  <1>1. /\ epc[t] = "sleep" /\ efd' = [efd EXCEPT ![Mine(t)][eslot[t]] = 0]
        /\ epc' = [epc EXCEPT ![t] = "slept"]
        /\ UNCHANGED <<readers, writers, writers_waiting, eslot>>
    BY DEF CondRead, Goto, lockVars
  <1>2. \A u \in Thread : /\ Mine(u) \in Cond /\ eslot[u] \in Slot
                          /\ epc'[u] = IF u = t THEN "slept" ELSE epc[u]
    BY <1>1 DEF LockIInv, PlaceInv, Mine, Cond
  <1>3. efd' \in [Cond -> [Slot -> Nat]]
    BY <1>1, <1>2 DEF WakeInv
  <1>4. ASSUME NEW u \in Thread, epc[u] \in Asleep, ~ Dormant(u)
        PROVE  epc'[u] \in Asleep /\ ~ Dormant(u)'
    <2>1. CASE u = t
      BY <1>2, <2>1 DEF Dormant, Asleep
    <2>2. CASE u # t
      <3>1. ~ (Mine(u) = Mine(t) /\ eslot[u] = eslot[t])
        BY <1>1, <1>4, <2>2 DEF WakeInv, SlotsNotShared, Asleep
      <3>2. efd'[Mine(u)][eslot[u]] = efd[Mine(u)][eslot[u]]
        BY <1>1, <1>2, <3>1 DEF WakeInv
      <3>3. QED
        BY <1>1, <1>2, <1>4, <2>2, <3>2 DEF Dormant, Mine
    <2>3. QED
      BY <2>1, <2>2
  <1>5. \A u \in Thread : ~ Dormant(u) => ~ Dormant(u)'
    BY <1>2, <1>4 DEF Dormant, Asleep
  <1>6. QED
    BY <1>1, <1>3, <1>4, <1>5 DEF WakeInv, EventfdWakeups, Asleep, Thread

\* Every step keeps the wake-ups.
LEMMA WakeStep ==
  ASSUME Crew, LockIInv, WakeInv, LockIInv', NEW t \in Thread, EventfdStep(t)
  PROVE  efd' \in [Cond -> [Slot -> Nat]] /\ EventfdWakeups'
  <1>0. /\ PlaceInv /\ CountInv /\ CountInv' /\ efd \in [Cond -> [Slot -> Nat]]
        /\ readers \in Nat /\ writers \in Nat
    BY CountersNat DEF LockIInv, WakeInv
  <1>1. CASE mypthread_rwlock_rdlock(t)
    <2>1. t \in Readers /\ UNCHANGED writers_waiting
      BY <1>1 DEF mypthread_rwlock_rdlock
    <2>2. CASE writers > 0 \/ writers_waiting > 0
      <3>1. mypthread_cond_wait(t) /\ efd' = efd
        BY <1>1, <2>2 DEF mypthread_rwlock_rdlock, mypthread_cond_wait
      <3>2. QED
        BY <1>0, <2>1, <2>2, <3>1, WaitWakes
    <2>3. CASE ~ (writers > 0 \/ writers_waiting > 0)
      <3>1. /\ readers' = readers + 1 /\ UNCHANGED <<writers, efd, eslot>>
            /\ epc' = [epc EXCEPT ![t] = "locked"]
        BY <1>1, <2>3 DEF mypthread_rwlock_rdlock, Goto
      <3>2. \A u \in Thread : ~ Dormant(u) => ~ Dormant(u)'
        BY <1>0, <3>1 DEF Dormant, PlaceInv, Mine
      <3>3. QED
        BY <1>0, <2>1, <3>1, <3>2 DEF EventfdWakeups, WakeInv, Thread
    <2>4. QED
      BY <2>2, <2>3
  <1>2. CASE mypthread_rwlock_wrlock(t)
    <2>1. t \in Writers /\ t \notin Readers
      BY <1>2 DEF mypthread_rwlock_wrlock, Crew
    <2>2. CASE readers > 0 \/ writers > 0
      <3>1. mypthread_cond_wait(t) /\ efd' = efd
        BY <1>2, <2>2 DEF mypthread_rwlock_wrlock, mypthread_cond_wait
      <3>2. QED
        BY <1>0, <2>1, <2>2, <3>1, WaitWakes
    <2>3. CASE ~ (readers > 0 \/ writers > 0)
      <3>1. writers' = writers + 1 /\ UNCHANGED efd
        BY <1>2, <2>3 DEF mypthread_rwlock_wrlock
      <3>2. QED
        BY <1>0, <3>1 DEF EventfdWakeups
    <2>4. QED
      BY <2>2, <2>3
  <1>3. CASE CondRead(t)
    BY <1>3, ReadWakes
  <1>4. CASE EnterLock(t) \/ LeaveLock(t)
    <2>1. /\ UNCHANGED <<readers, writers, writers_waiting, efd, eslot>>
          /\ epc[t] \notin Asleep /\ \E l \in Held : epc' = [epc EXCEPT ![t] = l]
      BY <1>4 DEF EnterLock, LeaveLock, Goto, lockVars, condVars, Held, Asleep
    <2>2. \A u \in Thread : /\ ~ Dormant(u) => ~ Dormant(u)'
                            /\ epc[u] \in Asleep => epc'[u] \in Asleep
      BY <1>0, <2>1 DEF Dormant, PlaceInv, Mine, Held, Asleep
    <2>3. QED
      BY <1>0, <2>1, <2>2 DEF EventfdWakeups, WakeInv, Thread, Asleep
  <1>5. CASE mypthread_rwlock_unlock(t)
    BY <1>0, <1>5, UnlockWakes
  <1>6. QED
    BY <1>1, <1>2, <1>3, <1>4, <1>5 DEF EventfdStep

\* The slots that are marked are those of the threads that wait, and no wake-up is lost.
THEOREM WakeInvariance == Crew => (EventfdSpec => []WakeInv)
  <1> SUFFICES ASSUME Crew PROVE EventfdSpec => []WakeInv
    OBVIOUS
  <1>1. EventfdInit /\ SlotsNotShared => WakeInv
    BY DEF EventfdInit, WakeInv, SlotsOwned, EventfdWakeups, Dormant, Thread
  <1>2. /\ LockIInv /\ LockIInv' /\ SlotsNotShared' /\ WakeInv /\ [EventfdNext]_evars
        => WakeInv'
    <2> SUFFICES ASSUME LockIInv, LockIInv', SlotsNotShared', WakeInv, [EventfdNext]_evars
                 PROVE  WakeInv'
      OBVIOUS
    <2>1. ASSUME NEW t \in Thread, EventfdStep(t) PROVE WakeInv'
      <3>1. SlotsOwned'
        BY <2>1, OwnedStep DEF LockIInv, WakeInv
      <3>2. QED
        BY <2>1, <3>1, WakeStep DEF WakeInv
    <2>2. CASE UNCHANGED evars
      <3>1. efd' = efd /\ EventfdWakeups' /\ SlotsOwned'
        BY <2>2 DEF evars, lockVars, condVars, WakeInv, SlotsOwned, EventfdWakeups, Dormant,
                    Mine
      <3>2. QED
        BY <3>1 DEF WakeInv
    <2>3. QED
      BY <2>1, <2>2 DEF EventfdNext
  <1>3. QED
    BY <1>1, <1>2, Invariance, SlotsApart, PTL DEF EventfdSpec

\* Nobody is left asleep: whenever the lock is free and writers wait for it, one of
\* them is awake or has been signalled, and whenever no writer has the lock or waits
\* for it, every reader has been signalled.
THEOREM Wakeups == Crew => (EventfdSpec => []EventfdWakeups)
  <1> SUFFICES ASSUME Crew PROVE EventfdSpec => []EventfdWakeups
    OBVIOUS
  <1>1. WakeInv => EventfdWakeups
    BY DEF WakeInv
  <1>2. QED
    BY <1>1, WakeInvariance, PTL

\* A thread that has not ended has loops to do.
LeftInv ==
  /\ eleft \in [Thread -> 0 .. Loops]
  /\ \A t \in Thread : epc[t] # "end" => eleft[t] > 0

\* Every variable keeps its type: no counter of the lock, of an eventfd or of the test
\* program goes below zero, and no thread runs a loop too many.
THEOREM Types == Crew /\ Loops \in Nat \ {0} => (EventfdSpec => []EventfdType)
  <1> SUFFICES ASSUME Crew, Loops \in Nat \ {0} PROVE EventfdSpec => []EventfdType
    OBVIOUS
  <1>1. EventfdInit => LeftInv
    BY DEF EventfdInit, LeftInv
  <1>2. LockIInv /\ LeftInv /\ [EventfdNext]_evars => LeftInv'
    <2> SUFFICES ASSUME PlaceInv, LeftInv, [EventfdNext]_evars PROVE LeftInv'
      BY DEF LockIInv
    <2>1. CASE UNCHANGED evars
      BY <2>1 DEF evars, LeftInv
    <2>2. ASSUME NEW t \in Thread, EventfdStep(t), ~ mypthread_rwlock_unlock(t) PROVE LeftInv'
      <3>1. /\ eleft' = eleft /\ epc[t] # "end"
            /\ \E l \in Places : epc' = [epc EXCEPT ![t] = l]
        BY <2>2 DEF EventfdStep, mypthread_rwlock_rdlock, mypthread_rwlock_wrlock, AtTest,
             mypthread_cond_wait, CondRead, EnterLock, LeaveLock, Goto, Places
      <3>2. QED
        BY <3>1 DEF LeftInv, PlaceInv
    <2>3. ASSUME NEW t \in Thread, mypthread_rwlock_unlock(t) PROVE LeftInv'
      BY <2>3 DEF mypthread_rwlock_unlock, Goto, LeftInv, PlaceInv
    <2>4. QED
      BY <2>1, <2>2, <2>3 DEF EventfdNext
  <1>3. LockIInv /\ WakeInv /\ LeftInv => EventfdType
    BY CountersNat DEF LockIInv, PlaceInv, WakeInv, LeftInv, EventfdType, Cond, Places
  <1>4. QED
    BY <1>1, <1>2, <1>3, Invariance, WakeInvariance, PTL DEF EventfdSpec

=============================================================================
