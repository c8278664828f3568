---------------------------- MODULE RwLockProofs ----------------------------
(***************************************************************************)
(* Proofs about the readers/writer lock and its test program, for every    *)
(* finite number of readers and writers, every number of loops and all     *)
(* three solutions.                                                        *)
(***************************************************************************)
EXTENDS RwLock, FiniteSetTheorems, TLAPS

Held == {"locked", "in", "unlock"}

\* The threads of R that are at one of the places of L.
At(R, L) == {t \in R : pc[t] \in L}

\* Each counter of the lock, and of the test program, counts threads.
CountInv ==
  /\ readers = Cardinality(At(Reader, Held))
  /\ writers = Cardinality(At(Writer, Held))
  /\ readers_waiting = Cardinality(At(Reader, {"wait"}))
  /\ writers_waiting = Cardinality(At(Writer, {"wait"}))
  /\ inside.readers = Cardinality(At(Reader, {"in"}))
  /\ inside.writers = Cardinality(At(Writer, {"in"}))

\* What the counters of the lock exclude.
LockInv == writers = 0 \/ (writers = 1 /\ readers = 0)

\* A thread has a loop to do until it ends; only waiting threads sleep.
ThreadInv ==
  \A t \in Thread : /\ pc[t] # "end" => left[t] > 0
                    /\ t \in asleep => pc[t] = "wait"

\* The inductive invariant.
IInv ==
  TypeOK /\ ThreadInv /\ CountInv /\ LockInv /\ NobodyLeftAsleep

-----------------------------------------------------------------------------
(* Counting.                                                               *)

\* The sets that are counted are finite.
LEMMA AtFinite ==
  ASSUME NEW R \in {Reader, Writer}, NEW L
  PROVE  IsFiniteSet(At(R, L)) /\ Cardinality(At(R, L)) \in Nat
  <1>1. IsFiniteSet(R) /\ At(R, L) \in SUBSET R
    BY ThreadsAssumption DEF At
  <1>2. IsFiniteSet(At(R, L))
    BY <1>1, FS_Subset
  <1>3. QED
    BY <1>2, FS_CardinalityType

\* The same in the next state.
LEMMA AtFinitePrime ==
  ASSUME NEW R \in {Reader, Writer}, NEW L
  PROVE  IsFiniteSet(At(R, L)')
  <1>1. IsFiniteSet(R) /\ At(R, L)' \in SUBSET R
    BY ThreadsAssumption DEF At
  <1>2. QED
    BY <1>1, FS_Subset

\* A thread at a place is counted there.
LEMMA AtLeastOne ==
  ASSUME NEW R \in {Reader, Writer}, NEW L
  PROVE  /\ \A t \in R : pc[t] \in L => Cardinality(At(R, L)) > 0
         /\ Cardinality(At(R, L)) > 0 => \E t \in R : pc[t] \in L
  <1>1. IsFiniteSet(At(R, L)) /\ Cardinality(At(R, L)) \in Nat
    BY AtFinite
  <1>2. Cardinality(At(R, L)) = 0 <=> At(R, L) = {}
    BY <1>1, FS_EmptySet
  <1>3. QED
    BY <1>1, <1>2 DEF At

\* How a count changes when one thread goes from one place to another.
LEMMA Move ==
  ASSUME NEW R \in {Reader, Writer}, NEW L, NEW t \in Thread, NEW l,
         DOMAIN pc = Thread, pc' = [pc EXCEPT ![t] = l]
  PROVE  Cardinality(At(R, L)') =
           Cardinality(At(R, L)) + (IF t \in R /\ l \in L THEN 1 ELSE 0)
                                 - (IF t \in R /\ pc[t] \in L THEN 1 ELSE 0)
  <1>1. IsFiniteSet(At(R, L)) /\ Cardinality(At(R, L)) \in Nat
    BY AtFinite
  <1>2. R \subseteq Thread
    BY DEF Thread
  <1>3. \A u \in R : pc'[u] = IF u = t THEN l ELSE pc[u]
    BY <1>2
  <1>4. CASE t \in R /\ l \in L
    <2>1. At(R, L)' = At(R, L) \cup {t}
      BY <1>3, <1>4 DEF At
    <2>2. t \in At(R, L) <=> pc[t] \in L
      BY <1>4 DEF At
    <2>3. Cardinality(At(R, L) \cup {t}) =
            IF t \in At(R, L) THEN Cardinality(At(R, L))
                              ELSE Cardinality(At(R, L)) + 1
      BY <1>1, FS_AddElement
    <2>4. QED
      BY <1>1, <1>4, <2>1, <2>2, <2>3
  <1>5. CASE ~ (t \in R /\ l \in L)
    <2>1. At(R, L)' = At(R, L) \ {t}
      BY <1>3, <1>5 DEF At
    <2>2. t \in At(R, L) <=> t \in R /\ pc[t] \in L
      BY DEF At
    <2>3. Cardinality(At(R, L) \ {t}) =
            IF t \in At(R, L) THEN Cardinality(At(R, L)) - 1
                              ELSE Cardinality(At(R, L))
      BY Zenon, <1>1, FS_RemoveElement
    <2>4. QED
      BY <1>1, <1>5, <2>1, <2>2, <2>3
  <1>6. QED
    BY <1>4, <1>5

\* Reading the sets of the module off the counters.
LEMMA Sets ==
  /\ Waiting \cap Reader = At(Reader, {"wait"})
  /\ Waiting \cap Writer = At(Writer, {"wait"})
  /\ Holding \cap Reader = At(Reader, Held)
  /\ Holding \cap Writer = At(Writer, Held)
  BY DEF Waiting, Holding, At, Held, Thread

\* The state after mypthread_rwlock_init satisfies the invariant.
LEMMA InitIInv == Init => IInv
  <1> SUFFICES ASSUME Init PROVE IInv
    OBVIOUS
  <1>1. TypeOK /\ ThreadInv /\ LockInv /\ NobodyLeftAsleep
    BY LoopsAssumption DEF Init, TypeOK, ThreadInv, LockInv, NobodyLeftAsleep
  <1>2. /\ At(Reader, Held) = {} /\ At(Writer, Held) = {}
        /\ At(Reader, {"wait"}) = {} /\ At(Writer, {"wait"}) = {}
        /\ At(Reader, {"in"}) = {} /\ At(Writer, {"in"}) = {}
    BY DEF Init, At, Held, Thread
  <1>3. CountInv
    BY <1>2, FS_EmptySet DEF Init, CountInv
  <1>4. QED
    BY <1>1, <1>3 DEF IInv

-----------------------------------------------------------------------------
(* The steps.                                                              *)

\* Who is counted where after a step in which only thread t moves.
LEMMA Counts ==
  ASSUME IInv, NEW t \in Thread, pc' \in [Thread -> {"lock", "wait", "locked",
                                                     "in", "unlock", "end"}],
         \A u \in Thread \ {t} : pc'[u] = pc[u],
         NEW R \in {Reader, Writer}, NEW L
  PROVE  /\ (t \in R => (pc'[t] \in L <=> pc[t] \in L))
              => Cardinality(At(R, L)') = Cardinality(At(R, L))
         /\ t \in R /\ pc'[t] \in L /\ pc[t] \notin L
              => Cardinality(At(R, L)') = Cardinality(At(R, L)) + 1
         /\ t \in R /\ pc'[t] \notin L /\ pc[t] \in L
              => Cardinality(At(R, L)') = Cardinality(At(R, L)) - 1
  <1>1. DOMAIN pc = Thread /\ pc' = [pc EXCEPT ![t] = pc'[t]]
    BY DEF IInv, TypeOK
  <1>2. Cardinality(At(R, L)) \in Nat
    BY AtFinite
  <1>3. Cardinality(At(R, L)') =
          Cardinality(At(R, L)) + (IF t \in R /\ pc'[t] \in L THEN 1 ELSE 0)
                                - (IF t \in R /\ pc[t] \in L THEN 1 ELSE 0)
    BY <1>1, Move
  <1>4. QED
    BY <1>2, <1>3

\* A thread that stands at a place makes the counter of the place positive.
LEMMA Positive ==
  ASSUME IInv, NEW t \in Thread
  PROVE  /\ t \in Reader /\ pc[t] \in Held => readers > 0
         /\ t \in Writer /\ pc[t] \in Held => writers > 0
         /\ t \in Reader /\ pc[t] = "wait" => readers_waiting > 0
         /\ t \in Writer /\ pc[t] = "wait" => writers_waiting > 0
         /\ t \in Reader /\ pc[t] = "in" => inside.readers > 0
         /\ t \in Writer /\ pc[t] = "in" => inside.writers > 0
  BY AtLeastOne DEF IInv, CountInv

\* A positive counter has a thread behind it.
LEMMA Behind ==
  ASSUME IInv
  PROVE  /\ readers_waiting > 0 => \E t \in Reader : pc[t] = "wait"
         /\ writers_waiting > 0 => \E t \in Writer : pc[t] = "wait"
         /\ readers > 0 => \E t \in Reader : pc[t] \in Held
         /\ writers > 0 => \E t \in Writer : pc[t] \in Held
  <1>1. \A R \in {Reader, Writer} :
          /\ Cardinality(At(R, {"wait"})) > 0 => \E t \in R : pc[t] \in {"wait"}
          /\ Cardinality(At(R, Held)) > 0 => \E t \in R : pc[t] \in Held
    BY AtLeastOne
  <1>2. QED
    BY <1>1 DEF IInv, CountInv

\* rdlock keeps the invariant, whether it gets the lock or goes to sleep.
LEMMA rdlockIInv ==
  ASSUME IInv, NEW t \in Thread, rdlock(t)
  PROVE  IInv'
  <1>1. t \in Reader /\ t \notin Writer /\ pc[t] \in {"lock", "wait"}
    BY ThreadsAssumption DEF rdlock, AtTest
  <1>2. /\ readers \in Nat /\ writers \in Nat /\ readers_waiting \in Nat
        /\ pc[t] = "wait" => readers_waiting > 0
    BY <1>1, Positive DEF IInv, TypeOK
  <1>3. CASE writers > 0
    <2>1. /\ readers_waiting' = readers_waiting - Waited(t) + 1
          /\ asleep' = asleep \cup {t} /\ pc' = [pc EXCEPT ![t] = "wait"]
          /\ UNCHANGED <<variant, readers, writers, writers_waiting, inside, left>>
      BY <1>2, <1>3 DEF rdlock, Goto
    <2>2. TypeOK'
      BY <1>2, <2>1 DEF IInv, TypeOK, Waited
    <2>3. ThreadInv'
      BY <1>1, <2>1 DEF IInv, TypeOK, ThreadInv
    <2>4. CountInv'
      <3>1. /\ pc'[t] = "wait" /\ \A u \in Thread \ {t} : pc'[u] = pc[u]
            /\ pc' \in [Thread -> {"lock", "wait", "locked", "in", "unlock", "end"}]
        BY <2>1 DEF IInv, TypeOK
      <3>2. /\ Cardinality(At(Reader, Held)') = Cardinality(At(Reader, Held))
            /\ Cardinality(At(Reader, {"in"})') = Cardinality(At(Reader, {"in"}))
        BY <1>1, <3>1, Counts DEF Held
      <3>3. \A L : Cardinality(At(Writer, L)') = Cardinality(At(Writer, L))
        BY <1>1, <3>1, Counts
      <3>4. Cardinality(At(Reader, {"wait"})') = readers_waiting - Waited(t) + 1
        <4>1. CASE pc[t] = "lock"
          BY <1>1, <1>2, <3>1, <4>1, Counts DEF Waited, IInv, CountInv
        <4>2. CASE pc[t] = "wait"
          BY <1>1, <1>2, <3>1, <4>2, Counts DEF Waited, IInv, CountInv
        <4>3. QED
          BY <1>1, <4>1, <4>2
      <3>5. QED
        BY <2>1, <3>2, <3>3, <3>4 DEF IInv, CountInv
    <2>5. LockInv'
      BY <2>1 DEF IInv, LockInv
    <2>6. NobodyLeftAsleep'
      <3>1. PICK w \in Writer : pc[w] \in Held
        BY <1>3, Behind
      <3>2. pc'[w] \in Held /\ w \in Thread
        BY <1>1, <2>1, <3>1 DEF IInv, TypeOK, Thread
      <3>3. QED
        BY <3>2 DEF NobodyLeftAsleep, Holding, Held
    <2>7. QED
      BY <2>2, <2>3, <2>4, <2>5, <2>6 DEF IInv
  <1>4. CASE writers = 0
    <2>1. /\ readers_waiting' = readers_waiting - Waited(t)
          /\ readers' = readers + 1 /\ pc' = [pc EXCEPT ![t] = "locked"]
          /\ UNCHANGED <<variant, asleep, writers, writers_waiting, inside, left>>
      BY <1>2, <1>4 DEF rdlock, Goto
    <2>2. TypeOK'
      BY <1>2, <2>1 DEF IInv, TypeOK, Waited
    <2>3. ThreadInv'
      BY <1>1, <2>1 DEF IInv, TypeOK, ThreadInv, rdlock, AtTest
    <2>4. CountInv'
      <3>1. /\ pc'[t] = "locked" /\ \A u \in Thread \ {t} : pc'[u] = pc[u]
            /\ pc' \in [Thread -> {"lock", "wait", "locked", "in", "unlock", "end"}]
        BY <2>1 DEF IInv, TypeOK
      <3>2. /\ Cardinality(At(Reader, Held)') = Cardinality(At(Reader, Held)) + 1
            /\ Cardinality(At(Reader, {"in"})') = Cardinality(At(Reader, {"in"}))
        BY <1>1, <3>1, Counts DEF Held
      <3>3. \A L : Cardinality(At(Writer, L)') = Cardinality(At(Writer, L))
        BY <1>1, <3>1, Counts
      <3>4. Cardinality(At(Reader, {"wait"})') = readers_waiting - Waited(t)
        <4>1. CASE pc[t] = "lock"
          BY <1>1, <1>2, <3>1, <4>1, Counts DEF Waited, IInv, CountInv
        <4>2. CASE pc[t] = "wait"
          BY <1>1, <1>2, <3>1, <4>2, Counts DEF Waited, IInv, CountInv
        <4>3. QED
          BY <1>1, <4>1, <4>2
      <3>5. QED
        BY <2>1, <3>2, <3>3, <3>4 DEF IInv, CountInv
    <2>5. LockInv'
      BY <1>4, <2>1 DEF LockInv
    <2>6. NobodyLeftAsleep'
      <3>1. pc'[t] = "locked"
        BY <2>1 DEF IInv, TypeOK
      <3>2. QED
        BY <3>1 DEF NobodyLeftAsleep, Holding
    <2>7. QED
      BY <2>2, <2>3, <2>4, <2>5, <2>6 DEF IInv
  <1>5. QED
    BY <1>2, <1>3, <1>4

\* wrlock keeps the invariant, whether it gets the lock or goes to sleep.
LEMMA wrlockIInv ==
  ASSUME IInv, NEW t \in Thread, wrlock(t)
  PROVE  IInv'
  <1>1. t \in Writer /\ t \notin Reader /\ pc[t] \in {"lock", "wait"}
    BY ThreadsAssumption DEF wrlock, AtTest
  <1>2. /\ readers \in Nat /\ writers \in Nat /\ writers_waiting \in Nat
        /\ pc[t] = "wait" => writers_waiting > 0
    BY <1>1, Positive DEF IInv, TypeOK
  <1>3. CASE readers > 0 \/ writers > 0
    <2>1. /\ writers_waiting' = writers_waiting - Waited(t) + 1
          /\ asleep' = asleep \cup {t} /\ pc' = [pc EXCEPT ![t] = "wait"]
          /\ UNCHANGED <<variant, readers, writers, readers_waiting, inside, left>>
      BY <1>2, <1>3 DEF wrlock, Goto
    <2>2. TypeOK'
      BY <1>2, <2>1 DEF IInv, TypeOK, Waited
    <2>3. ThreadInv'
      BY <1>1, <2>1 DEF IInv, TypeOK, ThreadInv
    <2>4. CountInv'
      <3>1. /\ pc'[t] = "wait" /\ \A u \in Thread \ {t} : pc'[u] = pc[u]
            /\ pc' \in [Thread -> {"lock", "wait", "locked", "in", "unlock", "end"}]
        BY <2>1 DEF IInv, TypeOK
      <3>2. /\ Cardinality(At(Writer, Held)') = Cardinality(At(Writer, Held))
            /\ Cardinality(At(Writer, {"in"})') = Cardinality(At(Writer, {"in"}))
        BY <1>1, <3>1, Counts DEF Held
      <3>3. \A L : Cardinality(At(Reader, L)') = Cardinality(At(Reader, L))
        BY <1>1, <3>1, Counts
      <3>4. Cardinality(At(Writer, {"wait"})') = writers_waiting - Waited(t) + 1
        <4>1. CASE pc[t] = "lock"
          BY <1>1, <1>2, <3>1, <4>1, Counts DEF Waited, IInv, CountInv
        <4>2. CASE pc[t] = "wait"
          BY <1>1, <1>2, <3>1, <4>2, Counts DEF Waited, IInv, CountInv
        <4>3. QED
          BY <1>1, <4>1, <4>2
      <3>5. QED
        BY <2>1, <3>2, <3>3, <3>4 DEF IInv, CountInv
    <2>5. LockInv'
      BY <2>1 DEF IInv, LockInv
    <2>6. NobodyLeftAsleep'
      <3>1. PICK w \in Thread : pc[w] \in Held
        BY <1>3, Behind DEF Thread
      <3>2. pc'[w] \in Held /\ w \in Thread
        BY <1>1, <2>1, <3>1 DEF IInv, TypeOK, Held
      <3>3. QED
        BY <3>2 DEF NobodyLeftAsleep, Holding, Held
    <2>7. QED
      BY <2>2, <2>3, <2>4, <2>5, <2>6 DEF IInv
  <1>4. CASE readers = 0 /\ writers = 0
    <2>1. /\ writers_waiting' = writers_waiting - Waited(t)
          /\ writers' = writers + 1 /\ pc' = [pc EXCEPT ![t] = "locked"]
          /\ UNCHANGED <<variant, asleep, readers, readers_waiting, inside, left>>
      BY <1>2, <1>4 DEF wrlock, Goto
    <2>2. TypeOK'
      BY <1>2, <2>1 DEF IInv, TypeOK, Waited
    <2>3. ThreadInv'
      BY <1>1, <2>1 DEF IInv, TypeOK, ThreadInv, wrlock, AtTest
    <2>4. CountInv'
      <3>1. /\ pc'[t] = "locked" /\ \A u \in Thread \ {t} : pc'[u] = pc[u]
            /\ pc' \in [Thread -> {"lock", "wait", "locked", "in", "unlock", "end"}]
        BY <2>1 DEF IInv, TypeOK
      <3>2. /\ Cardinality(At(Writer, Held)') = Cardinality(At(Writer, Held)) + 1
            /\ Cardinality(At(Writer, {"in"})') = Cardinality(At(Writer, {"in"}))
        BY <1>1, <3>1, Counts DEF Held
      <3>3. \A L : Cardinality(At(Reader, L)') = Cardinality(At(Reader, L))
        BY <1>1, <3>1, Counts
      <3>4. Cardinality(At(Writer, {"wait"})') = writers_waiting - Waited(t)
        <4>1. CASE pc[t] = "lock"
          BY <1>1, <1>2, <3>1, <4>1, Counts DEF Waited, IInv, CountInv
        <4>2. CASE pc[t] = "wait"
          BY <1>1, <1>2, <3>1, <4>2, Counts DEF Waited, IInv, CountInv
        <4>3. QED
          BY <1>1, <4>1, <4>2
      <3>5. QED
        BY <2>1, <3>2, <3>3, <3>4 DEF IInv, CountInv
    <2>5. LockInv'
      BY <1>4, <2>1 DEF LockInv
    <2>6. NobodyLeftAsleep'
      <3>1. pc'[t] = "locked"
        BY <2>1 DEF IInv, TypeOK
      <3>2. QED
        BY <3>1 DEF NobodyLeftAsleep, Holding
    <2>7. QED
      BY <2>2, <2>3, <2>4, <2>5, <2>6 DEF IInv
  <1>5. QED
    BY <1>2, <1>3, <1>4

\* unlock keeps the invariant in all three solutions: it decrements the right
\* counter, and if it frees the lock while threads sleep it wakes one of them.
LEMMA unlockIInv ==
  ASSUME IInv, NEW t \in Thread, unlock(t)
  PROVE  IInv'
  <1>1. pc[t] = "unlock" /\ left[t] \in Nat \ {0} /\ left[t] <= Loops
    BY LoopsAssumption DEF unlock, IInv, TypeOK, ThreadInv
  <1>2. /\ readers \in Nat /\ writers \in Nat
        /\ t \in Reader => readers > 0 /\ writers = 0
        /\ t \in Writer => writers = 1 /\ readers = 0
        /\ t \in Reader <=> t \notin Writer
    BY <1>1, Positive, ThreadsAssumption DEF IInv, TypeOK, LockInv, Held, Thread
  <1>3. /\ readers' = IF t \in Reader THEN readers - 1 ELSE readers
        /\ writers' = 0
        /\ readers' \in Nat
    BY <1>2 DEF unlock
  <1>4. /\ pc'[t] \in {"lock", "end"} /\ \A u \in Thread \ {t} : pc'[u] = pc[u]
        /\ pc' \in [Thread -> {"lock", "wait", "locked", "in", "unlock", "end"}]
        /\ pc'[t] = "end" \/ left[t] # 1
        /\ left' = [left EXCEPT ![t] = @ - 1]
        /\ UNCHANGED <<variant, readers_waiting, writers_waiting, inside>>
    BY DEF unlock, Goto, IInv, TypeOK
  <1>5. asleep' \subseteq asleep
    BY DEF unlock, wake2, wake3, broadcast, signal
  <1>6. TypeOK'
    <2>1. left' \in [Thread -> 0 .. Loops]
      <3>1. left[t] - 1 \in 0 .. Loops
        BY <1>1, LoopsAssumption
      <3>2. QED
        BY <1>4, <3>1 DEF IInv, TypeOK
    <2>2. QED
      BY <1>3, <1>4, <1>5, <2>1 DEF IInv, TypeOK
  <1>7. ThreadInv'
    BY <1>1, <1>4, <1>5 DEF IInv, TypeOK, ThreadInv
  <1>8. CountInv'
    <2>1. \A R \in {Reader, Writer} :
            /\ Cardinality(At(R, {"wait"})') = Cardinality(At(R, {"wait"}))
            /\ Cardinality(At(R, {"in"})') = Cardinality(At(R, {"in"}))
      BY <1>1, <1>4, Counts
    <2>2. Cardinality(At(Reader, Held)') = readers'
      <3>1. CASE t \in Reader
        BY <1>1, <1>3, <1>4, <3>1, Counts DEF Held, IInv, CountInv
      <3>2. CASE t \notin Reader
        BY <1>3, <1>4, <3>2, Counts DEF IInv, CountInv
      <3>3. QED
        BY <3>1, <3>2
    <2>3. Cardinality(At(Writer, Held)') = writers'
      <3>1. CASE t \in Writer
        BY <1>1, <1>2, <1>3, <1>4, <3>1, Counts DEF Held, IInv, CountInv
      <3>2. CASE t \notin Writer
        BY <1>2, <1>3, <1>4, <3>2, Counts DEF IInv, CountInv
      <3>3. QED
        BY <3>1, <3>2
    <2>4. QED
      BY <1>4, <2>1, <2>2, <2>3 DEF IInv, CountInv
  <1>9. LockInv'
    BY <1>3 DEF LockInv
  <1>10. NobodyLeftAsleep'
    <2>1. readers_waiting > 0 \/ writers_waiting > 0 \/ asleep = {}
      <3>1. \A u \in asleep : u \in Thread /\ pc[u] = "wait"
        BY DEF IInv, TypeOK, ThreadInv
      <3>2. QED
        BY <3>1, Positive DEF Thread
    <2>2. readers' > 0 => Holding' # {}
      <3>1. HAVE readers' > 0
      <3>2. \E u \in Reader : pc'[u] \in Held
        <4>1. IsFiniteSet(At(Reader, Held)') /\ Cardinality(At(Reader, Held)') > 0
          BY <1>8, <3>1, AtFinitePrime DEF CountInv
        <4>2. At(Reader, Held)' # {}
          BY <4>1, FS_EmptySet
        <4>3. QED
          BY <4>2 DEF At
      <3>3. QED
        BY <3>2 DEF Holding, Held, Thread
    <2>3. ASSUME NEW u \in Thread, pc[u] = "wait", u \notin asleep'
          PROVE  NobodyLeftAsleep'
      BY <1>1, <1>4, <2>3 DEF NobodyLeftAsleep, Waiting
    <2>4. CASE asleep' = {}
      BY <2>4 DEF NobodyLeftAsleep
    <2>5. CASE variant = "solution" \/ (variant = "solution2" /\ wake2)
      <3>1. asleep \subseteq Thread
        BY DEF IInv, TypeOK
      <3>2. asleep' = {}
        BY <1>2, <2>1, <2>5, <3>1 DEF unlock, wake2, broadcast
      <3>3. QED
        BY <2>4, <3>2
    <2>6. CASE wake3
      <3>1. CASE writers_waiting > 0 /\ readers' = 0
        <4>1. signal(Writer)
          BY <2>6, <3>1 DEF wake3
        <4>2. PICK w \in Writer : pc[w] = "wait"
          BY <3>1, Behind
        <4>3. \E u \in Writer : pc[u] = "wait" /\ u \notin asleep'
          BY <4>1, <4>2 DEF signal, IInv, ThreadInv, Thread
        <4>4. QED
          BY <2>3, <4>3 DEF Thread
      <3>2. CASE ~ (writers_waiting > 0 /\ readers' = 0) /\ readers_waiting > 0
        <4>1. asleep' = asleep \ Reader
          BY <1>3, <2>6, <3>2 DEF wake3, broadcast
        <4>2. PICK r \in Reader : pc[r] = "wait"
          BY <3>2, Behind
        <4>3. QED
          BY <2>3, <4>1, <4>2 DEF Thread
      <3>3. CASE ~ (writers_waiting > 0 /\ readers' = 0) /\ ~ (readers_waiting > 0)
        <4>1. CASE readers' > 0
          BY <2>2, <4>1 DEF NobodyLeftAsleep
        <4>2. CASE readers' = 0
          BY <1>5, <2>1, <2>4, <3>3, <4>2
        <4>3. readers' \in Nat
          BY <1>6 DEF TypeOK
        <4>4. readers' > 0 \/ readers' = 0
          BY <4>3
        <4>5. QED
          BY <4>1, <4>2, <4>4
      <3>4. QED
        BY <3>1, <3>2, <3>3
    <2>7. QED
      BY <2>5, <2>6 DEF unlock
  <1>11. QED
    BY <1>6, <1>7, <1>8, <1>9, <1>10 DEF IInv

\* The increment of the test program's counter keeps the invariant.
LEMMA InIInv ==
  ASSUME IInv, NEW t \in Thread, In(t)
  PROVE  IInv'
  <1>1. /\ pc[t] = "locked" /\ pc'[t] = "in"
        /\ \A u \in Thread \ {t} : pc'[u] = pc[u]
        /\ pc' \in [Thread -> {"lock", "wait", "locked", "in", "unlock", "end"}]
        /\ UNCHANGED <<variant, readers, writers, readers_waiting,
                       writers_waiting, asleep, left>>
    BY DEF In, Goto, lockVars, IInv, TypeOK
  <1>2. /\ inside.readers \in Nat /\ inside.writers \in Nat
        /\ t \in Reader <=> t \notin Writer
    BY ThreadsAssumption DEF IInv, TypeOK, Thread
  <1>3. /\ inside' \in [readers : Nat, writers : Nat]
        /\ inside'.readers = IF t \in Reader THEN inside.readers + 1
                                             ELSE inside.readers
        /\ inside'.writers = IF t \in Writer THEN inside.writers + 1
                                             ELSE inside.writers
    BY <1>1, <1>2, Positive DEF In, Add, IInv, TypeOK
  <1>4. TypeOK'
    BY <1>1, <1>3 DEF IInv, TypeOK
  <1>5. ThreadInv'
    BY <1>1 DEF IInv, TypeOK, ThreadInv
  <1>6. CountInv'
    <2>1. \A R \in {Reader, Writer} :
            /\ Cardinality(At(R, {"wait"})') = Cardinality(At(R, {"wait"}))
            /\ Cardinality(At(R, Held)') = Cardinality(At(R, Held))
      BY <1>1, Counts DEF Held
    <2>2. Cardinality(At(Reader, {"in"})') = inside'.readers
      BY <1>1, <1>2, <1>3, Counts DEF IInv, CountInv
    <2>3. Cardinality(At(Writer, {"in"})') = inside'.writers
      BY <1>1, <1>2, <1>3, Counts DEF IInv, CountInv
    <2>4. QED
      BY <1>1, <2>1, <2>2, <2>3 DEF IInv, CountInv
  <1>7. LockInv'
    BY <1>1 DEF IInv, LockInv
  <1>8. NobodyLeftAsleep'
    BY <1>1 DEF NobodyLeftAsleep, Holding
  <1>9. QED
    BY <1>4, <1>5, <1>6, <1>7, <1>8 DEF IInv

\* The decrement of the test program's counter keeps the invariant.
LEMMA OutIInv ==
  ASSUME IInv, NEW t \in Thread, Out(t)
  PROVE  IInv'
  <1>1. /\ pc[t] = "in" /\ pc'[t] = "unlock"
        /\ \A u \in Thread \ {t} : pc'[u] = pc[u]
        /\ pc' \in [Thread -> {"lock", "wait", "locked", "in", "unlock", "end"}]
        /\ UNCHANGED <<variant, readers, writers, readers_waiting,
                       writers_waiting, asleep, left>>
    BY DEF Out, Goto, lockVars, IInv, TypeOK
  <1>2. /\ inside.readers \in Nat /\ inside.writers \in Nat
        /\ t \in Reader <=> t \notin Writer
    BY ThreadsAssumption DEF IInv, TypeOK, Thread
  <1>3. /\ inside' \in [readers : Nat, writers : Nat]
        /\ inside'.readers = IF t \in Reader THEN inside.readers - 1
                                             ELSE inside.readers
        /\ inside'.writers = IF t \in Writer THEN inside.writers - 1
                                             ELSE inside.writers
    BY <1>1, <1>2, Positive DEF Out, Add, IInv, TypeOK
  <1>4. TypeOK'
    BY <1>1, <1>3 DEF IInv, TypeOK
  <1>5. ThreadInv'
    BY <1>1 DEF IInv, TypeOK, ThreadInv
  <1>6. CountInv'
    <2>1. \A R \in {Reader, Writer} :
            /\ Cardinality(At(R, {"wait"})') = Cardinality(At(R, {"wait"}))
            /\ Cardinality(At(R, Held)') = Cardinality(At(R, Held))
      BY <1>1, Counts DEF Held
    <2>2. Cardinality(At(Reader, {"in"})') = inside'.readers
      BY <1>1, <1>2, <1>3, Counts DEF IInv, CountInv
    <2>3. Cardinality(At(Writer, {"in"})') = inside'.writers
      BY SMTT(30), <1>1, <1>2, <1>3, Counts DEF IInv, CountInv
    <2>4. QED
      BY <1>1, <2>1, <2>2, <2>3 DEF IInv, CountInv
  <1>7. LockInv'
    BY <1>1 DEF IInv, LockInv
  <1>8. NobodyLeftAsleep'
    BY <1>1 DEF NobodyLeftAsleep, Holding
  <1>9. QED
    BY <1>4, <1>5, <1>6, <1>7, <1>8 DEF IInv

\* A wake-up without reason keeps the invariant.
LEMMA SpuriousIInv ==
  ASSUME IInv, NEW t \in Thread, Spurious(t)
  PROVE  IInv'
  <1>1. TypeOK' /\ ThreadInv' /\ LockInv'
    BY DEF Spurious, IInv, TypeOK, ThreadInv, LockInv
  <1>2. CountInv'
    BY DEF Spurious, IInv, CountInv, At
  <1>3. NobodyLeftAsleep'
    BY DEF Spurious, IInv, ThreadInv, NobodyLeftAsleep, Waiting
  <1>4. QED
    BY <1>1, <1>2, <1>3 DEF IInv

\* Steps that leave every variable alone keep the invariant.
LEMMA SilentIInv ==
  ASSUME IInv, UNCHANGED vars
  PROVE  IInv'
  BY DEF vars, lockVars, IInv, TypeOK, ThreadInv, CountInv, At, LockInv,
     NobodyLeftAsleep, Holding, Waiting

\* The lock and its test program never leave the inductive invariant.
THEOREM Invariance == Spec => []IInv
  <1>1. Init => IInv
    BY InitIInv
  <1>2. IInv /\ [Next]_vars => IInv'
    <2>1. SUFFICES ASSUME IInv, [Next]_vars
                   PROVE  IInv'
      OBVIOUS
    <2>2. CASE UNCHANGED vars
      BY <2>1, <2>2, SilentIInv
    <2>3. ASSUME NEW t \in Thread, Step(t)
          PROVE  IInv'
      BY <2>1, <2>3, rdlockIInv, wrlockIInv, InIInv, OutIInv, unlockIInv DEF Step
    <2>4. ASSUME NEW t \in Thread, Spurious(t)
          PROVE  IInv'
      BY <2>1, <2>4, SpuriousIInv
    <2>5. QED
      BY <2>1, <2>2, <2>3, <2>4 DEF Next, Joined
  <1>3. QED
    BY <1>1, <1>2, PTL DEF Spec

-----------------------------------------------------------------------------
(* What follows from the invariant.                                        *)

\* The unsigned counters of the lock never go below zero.
THEOREM TypeCorrect == Spec => []TypeOK
  <1>1. IInv => TypeOK
    BY DEF IInv
  <1>2. QED
    BY <1>1, Invariance, PTL

\* In a state of the invariant a writer that holds the lock is alone.
LEMMA ExclusionState ==
  ASSUME IInv
  PROVE  WriterAlone
  <1>1. SUFFICES ASSUME NEW w \in Holding \cap Writer
                 PROVE  Holding = {w}
    BY DEF WriterAlone
  <1>2. w \in Thread /\ pc[w] \in Held
    BY <1>1 DEF Holding, Held
  <1>3. Cardinality(At(Writer, Held)) = 1 /\ Cardinality(At(Reader, Held)) = 0
    BY <1>1, <1>2, Positive DEF IInv, TypeOK, CountInv, LockInv
  <1>4. At(Reader, Held) = {} /\ \E x : At(Writer, Held) = {x}
    BY <1>3, AtFinite, FS_EmptySet, FS_Singleton
  <1>5. QED
    BY <1>1, <1>4, Sets DEF Holding, Thread

\* A writer that holds the lock holds it alone.
THEOREM Exclusion == Spec => []WriterAlone
  <1>1. IInv => WriterAlone
    BY ExclusionState
  <1>2. QED
    BY <1>1, Invariance, PTL

\* The CHECK_ASSERTs of worker never fail.
THEOREM Assertions == Spec => []AssertionsHold
  <1>1. ASSUME IInv, NEW t \in Thread, pc[t] = "locked"
        PROVE  inside.writers = 0 /\ (t \in Writer => inside.readers = 0)
    <2>1. \A u \in Writer : pc[u] \in Held =>
            t = u /\ \A v \in Thread : pc[v] \in Held => v = u
      <3>1. WriterAlone
        BY <1>1, ExclusionState
      <3>2. QED
        BY <1>1, <3>1 DEF WriterAlone, Holding, Held, Thread
    <2>2. At(Writer, {"in"}) = {} /\ (t \in Writer => At(Reader, {"in"}) = {})
      BY <1>1, <2>1 DEF At, Held, Thread
    <2>3. QED
      BY SMTT(30), <1>1, <2>2, FS_EmptySet DEF IInv, CountInv
  <1>2. IInv => AssertionsHold
    BY <1>1 DEF AssertionsHold
  <1>3. QED
    BY <1>2, Invariance, PTL

\* unlock knows who called it.
THEOREM CallerKnown == Spec => []UnlockKnowsItsCaller
  <1>1. ASSUME IInv, NEW t \in Thread, pc[t] = "unlock"
        PROVE  IF t \in Reader THEN readers > 0 ELSE readers = 0 /\ writers > 0
    BY <1>1, Positive DEF IInv, TypeOK, LockInv, Held, Thread
  <1>2. IInv => UnlockKnowsItsCaller
    BY <1>1 DEF UnlockKnowsItsCaller
  <1>3. QED
    BY <1>2, Invariance, PTL

\* The waiting counters count the threads in pthread_cond_wait.
THEOREM WaitersCounted == Spec => []WaitingCounted
  <1>1. IInv => WaitingCounted
    BY Sets DEF IInv, CountInv, WaitingCounted
  <1>2. QED
    BY <1>1, Invariance, PTL

\* No wake-up is lost, in any of the three solutions.
THEOREM NoLostWakeup == Spec => []NobodyLeftAsleep
  <1>1. IInv => NobodyLeftAsleep
    BY DEF IInv
  <1>2. QED
    BY <1>1, Invariance, PTL

=============================================================================
