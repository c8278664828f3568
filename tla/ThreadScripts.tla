--------------------------- MODULE ThreadScripts ----------------------------
(***************************************************************************)
(* The small multi-threaded examples, each as one script per thread: the   *)
(* sequence of the operations on shared state that its code performs, with *)
(* counted loops unrolled Repeats times.  Thread 0 is main.                *)
(*                                                                         *)
(* The machine that runs the scripts is an x86: a plain store goes to the  *)
(* store buffer of its processor and reaches memory later, in order; a     *)
(* load sees the thread's own buffer first; a fence, and every locked      *)
(* instruction (each pthread and semaphore call executes one), waits until *)
(* the buffer is empty.                                                    *)
(***************************************************************************)
EXTENDS Integers, Sequences, FiniteSets, SequencesExt

CONSTANTS
  Repeats     \* how often a counted loop of an example is run through

VARIABLES
  demo,       \* the name of the example that runs
  code,       \* its scripts
  mem,        \* memory, and the state of locks, semaphores and barriers
  buf,        \* the store buffer of each thread
  reg,        \* one register of each thread
  ip          \* the next operation of each thread; 0 before pthread_create

vars == <<demo, code, mem, buf, reg, ip>>

-----------------------------------------------------------------------------
(* The operations.                                                         *)

Operation(name, on, arg) == [op |-> name, on |-> on, arg |-> arg]

Store(v, k) == Operation("store", v, k)
StoreReg(v, k) == Operation("storereg", v, k)      \* stores the register plus k
Load(v) == Operation("load", v, 0)
Fence == Operation("fence", "none", 0)
Add(v) == Operation("add", v, 0)                   \* __sync_add_and_fetch
Cas(v) == Operation("cas", v, 0)                   \* spins until it turns 0 to 1
Lock(m) == Operation("lock", m, 0)
Unlock(m) == Operation("unlock", m, 0)
Wait(s) == Operation("wait", s, 0)
Post(s) == Operation("post", s, 0)
Arrive(b, n) == Operation("arrive", b, n)
Pass(b) == Operation("pass", b, 0)
Create(t) == Operation("create", "none", t)
Join(t) == Operation("join", "none", t)
JoinAny(k) == Operation("joinany", "none", k)      \* the k-th thread to end
Destroy(o) == Operation("destroy", o, TRUE)         \* fails unless the lock is free
DestroyBarrier(b) == Operation("destroy", b, FALSE) \* waits until all have left it
SpinWhile(v, k) == Operation("spinwhile", v, k)
Take(v, first) == Operation("take", v, first)      \* yield.cc
AwaitTurn(v) == Operation("awaitturn", v, 0)       \* yield.cc
TryWait(v, t) == Operation("trywait", v, t)        \* waitpid with WNOHANG, result in v
Write(fd, k) == Operation("write", fd, k)          \* write(2) of k to an eventfd
Drain(fd) == Operation("drain", fd, 0)             \* non-blocking read(2), added to sum
CountOp(waits, signals) == Operation("count", "count", <<waits, signals>>)  \* condition.cc
Check(v, rel, k) == Operation("check", v, <<rel, k>>)
\* Moves the instruction pointer by k unless v is n modulo m.
Unless(v, m, n, k) == Operation("unless", v, <<m, n, k>>)
Goto(k) == Unless("none", 1, 1, k)

Barrier(b, n) == <<Arrive(b, n), Pass(b)>>
Increment(v) == <<Load(v), StoreReg(v, 1)>>
Repeat(s, n) == [i \in 1 .. n * Len(s) |-> s[((i - 1) % Len(s)) + 1]]

\* The threads a main creates, and joins, one after the other.
CreateAll(n) == [t \in 1 .. n |-> Create(t)]
JoinAll(n) == [t \in 1 .. n |-> Join(t)]

Crew(main, workers) == [t \in 0 .. Len(workers) |-> IF t = 0 THEN main ELSE workers[t]]

-----------------------------------------------------------------------------
(* examples/atomics/trying_to_break.cc                                     *)

atomic_worker == Repeat(<<Add("value")>>, Repeats)

mutex_worker == Repeat(<<Lock("m")>> \o Increment("value") \o <<Unlock("m")>>, Repeats)

\* main prints vvalue next to the same number as value, too, but no thread of these two
\* types adds to it: that line is read, and is not a check.
trying_to_break(worker) ==
  Crew(CreateAll(2) \o JoinAll(2) \o <<Check("value", "is", 2 * Repeats), Load("vvalue")>>,
       <<worker, worker>>)

-----------------------------------------------------------------------------
(* examples/pthreads: barrier.cc, mutex_simple.cc, zombie.cc, names.cc.    *)

barrier ==
  LET worker == Repeat(Barrier("bar", 3), Repeats) IN
  Crew(CreateAll(3) \o JoinAll(3) \o <<DestroyBarrier("bar")>>, <<worker, worker, worker>>)

mutex_simple ==
  LET worker == Repeat(<<Lock("mylock"), Unlock("mylock")>>, Repeats) IN
  Crew(CreateAll(2) \o JoinAll(2) \o <<Destroy("mylock")>>, <<worker, worker>>)

zombie ==
  Crew(<<Lock("init"), Lock("start"), Lock("end"), Create(1), Lock("init"),
         Check("tid", "is", 1), Unlock("start"), Lock("end")>>,
       << <<Store("tid", 1), Unlock("init"), Lock("start"), Unlock("end")>> >>)

\* Mutant of names: main joins the thread without letting it end.
NamesStuck ==
  Crew(<<Lock("start"), Lock("end"), Create(1), Lock("start"), Join(1), Unlock("start"),
         Unlock("end"), Destroy("start"), Destroy("end")>>,
       << <<Unlock("start"), Lock("end")>> >>)

names ==
  Crew(<<Lock("start"), Lock("end"), Create(1), Lock("start"), Unlock("end"), Join(1),
         Unlock("start"), Unlock("end"), Destroy("start"), Destroy("end")>>,
       << <<Unlock("start"), Lock("end")>> >>)

-----------------------------------------------------------------------------
(* yield.cc, condition.cc, monitor_via_pidfd.cc, multi_level.cc and        *)
(* fix_threads.                                                            *)

\* The two threads add to counter in turns, and check that they do.
yield ==
  LET worker == <<Take("counter", TRUE), AwaitTurn("counter")>>
                  \o Repeat(<<Take("counter", FALSE), AwaitTurn("counter")>>, Repeats)
                  \o <<Store("ended", 1)>> IN
  Crew(CreateAll(2) \o JoinAll(2), <<worker, worker>>)

\* One thread counts outside COUNT_RANGE_MIN .. COUNT_RANGE_MAX, the other inside.
condition ==
  LET worker(waits, signals) == <<CountOp(waits, signals), Unless("done", 2, 1, -1)>> IN
  Crew(CreateAll(2) \o JoinAll(2) \o <<Check("count", "is", 10)>>,
       <<worker(3 .. 6, {3, 10}), worker((0 .. 2) \union (7 .. 10), {7})>>)

monitor_via_pidfd ==
  LET spawn(t, bar, tid) == <<Create(t)>> \o Barrier(bar, 2) \o <<DestroyBarrier(bar), Check(tid, "is", 1)>>
      worker(bar, tid) == <<Store(tid, 1)>> \o Barrier(bar, 2) IN
  Crew(spawn(1, "bar1", "tid1") \o spawn(2, "bar2", "tid2") \o <<JoinAny(1), JoinAny(2)>>,
       <<worker("bar1", "tid1"), worker("bar2", "tid2")>>)

\* Threads that create threads: 1 and 2 create two each, then main creates four.
multi_level ==
  LET level(s) == [i \in 1 .. Len(s) |-> Create(s[i])] \o [i \in 1 .. Len(s) |-> Join(s[i])] IN
  Crew(level(<<1, 2>>) \o level(<<7, 8, 9, 10>>),
       <<level(<<3, 4>>), level(<<5, 6>>)>> \o [i \in 1 .. 8 |-> <<>>])

\* Each thread gets a cell of its own for its number.
fix_threads ==
  Crew(<<Store("t1", 1), Create(1), Store("t2", 2), Create(2)>> \o JoinAll(2),
       << <<Check("t1", "is", 1)>>, <<Check("t2", "is", 2)>> >>)

\* examples/cpp/real_time/pi_lock_guard.cc: low_priority_task and high_priority_task.
pi_lock_guard ==
  LET task(k) == <<Lock("pi"), Load("data"), StoreReg("data", k), Unlock("pi")>> IN
  Crew(CreateAll(2) \o JoinAll(2) \o <<Check("data", "is", 101)>>, <<task(1), task(100)>>)

\* examples/cpp/real_time/priority_inheritance_mutex.cc, whose tasks are the same.
priority_inheritance_mutex == pi_lock_guard

\* exercises/cpp: the class MyMutex, which locks, unlocks and is destroyed at the end.
MyMutexLoops(n, m) ==
  LET loops(k) == Repeat(<<Lock("mylock"), Unlock("mylock")>>, k) IN
  Crew(CreateAll(2) \o JoinAll(2) \o <<Destroy("mylock")>>, <<loops(n), loops(m)>>)

mutex_parametrized == MyMutexLoops(Repeats, Repeats)

cpp_threads == MyMutexLoops(2 * Repeats, Repeats)

-----------------------------------------------------------------------------
(* A parent and its child, as two threads.                                 *)

\* examples/shared_memory/parent_and_child.cc.  Of the three variables only pvar is
\* shared: the child stores to copies of its own of the other two.
parent_and_child ==
  Crew(<<Store("pvar", 1), Store("stack", 1), Store("global", 1), Create(1), Join(1),
         Check("pvar", "is", 5), Check("stack", "is", 1), Check("global", "is", 1)>>,
       << <<Store("pvar", 5), Store("child stack", 5), Store("child global", 5)>> >>)

\* examples/eventfd/simple.cc, for one outcome of rand(): the sum of the parent is
\* that of the child, although writes that come together are read together.
eventfd_simple ==
  Crew(<<Create(1), TryWait("dead", 1), Drain("efd"), Unless("dead", 2, 1, -2), Drain("efd"),
         Check("sum", "is", 3 * Repeats)>>,
       <<Repeat(<<Write("efd", 1), Write("efd", 0), Write("efd", 2)>>, Repeats)>>)

-----------------------------------------------------------------------------
(* Spin locks.                                                             *)

mypthread_spin_lock == <<Cas("lock")>>

mypthread_spin_unlock == <<Fence, Store("lock", 0)>>

\* worker of spinlock_use_as_scheduler.cc and of the two implementations: it adds
\* to counter when it is its turn, and lets the lock go and tries again when not.
TakeTurns(num, lock, unlock) ==
  Repeat(lock \o <<Unless("counter", 2, num, Len(unlock) + 4)>> \o Increment("counter")
           \o unlock \o <<Goto(Len(unlock) + 2)>>
           \o unlock \o <<Goto(-(Len(lock) + 2 * Len(unlock) + 4))>>, Repeats)

spinlock_use_as_scheduler ==
  LET worker(num) == TakeTurns(num, <<Lock("lock")>>, <<Unlock("lock")>>) IN
  Crew(CreateAll(2) \o JoinAll(2) \o <<Destroy("lock"), Check("counter", "is", 2 * Repeats)>>,
       <<worker(0), worker(1)>>)

spinlock_solution ==
  LET worker(num) == TakeTurns(num, mypthread_spin_lock, mypthread_spin_unlock) IN
  Crew(CreateAll(2) \o JoinAll(2) \o <<Check("counter", "is", 2 * Repeats)>>,
       <<worker(0), worker(1)>>)

\* examples/pthreads/spinlock/spinlock_implementation_using_atomics.c has the same lock,
\* and a worker that takes turns in the same way.
spinlock_implementation_using_atomics == spinlock_solution

spinlock_basic ==
  LET worker == Repeat(<<Lock("mylock"), Unlock("mylock")>>, Repeats) IN
  Crew(CreateAll(2) \o JoinAll(2) \o <<Destroy("mylock")>>, <<worker, worker>>)

spinlock_performance(mutex) ==
  LET lock == IF mutex THEN "mtx" ELSE "lock"
      worker == Repeat(<<Lock(lock), Unlock(lock)>>, Repeats) IN
  Crew(CreateAll(2) \o JoinAll(2) \o <<Destroy("lock"), Destroy("mtx")>>, <<worker, worker>>)

-----------------------------------------------------------------------------
(* Memory reordering.                                                      *)

\* thread1 and thread2 of memory_reordering/main.cpp and memory_reordering_read_write.cc.
Writes(mine, yours, r, begin, fence, end) ==
  Repeat(<<Wait(begin), Store(mine, 1)>> \o fence
           \o <<Load(yours), StoreReg(r, 0), Post(end)>>, Repeats)

\* Mutant of memory_reordering: built without USE_BARRIERS.
NoBarrier ==
  Crew(CreateAll(2)
         \o Repeat(<<Store("x", 0), Store("y", 0), Post("begin1"), Post("begin2"), Wait("end1"),
                     Wait("end2"), Load("r1"), Check("r2", "not both zero", 0)>>, Repeats),
       <<Writes("x", "y", "r1", "begin1", <<>>, "end1"), Writes("y", "x", "r2", "begin2", <<>>, "end2")>>)

\* memory_reordering/main.cpp, built with USE_BARRIERS.
memory_reordering ==
  Crew(CreateAll(2)
         \o Repeat(<<Store("x", 0), Store("y", 0), Post("begin1"), Post("begin2"), Wait("end1"),
                     Wait("end2"), Load("r1"), Check("r2", "not both zero", 0)>>, Repeats),
       <<Writes("x", "y", "r1", "begin1", <<Fence>>, "end1"),
         Writes("y", "x", "r2", "begin2", <<Fence>>, "end2")>>)

\* memory_reordering_read_write.cc, run with mfence or sync_synchronize.
memory_reordering_read_write ==
  Crew(CreateAll(2)
         \o Repeat(<<Store("x", 0), Store("y", 0), Post("begin1"), Post("begin2"), Wait("end"),
                     Wait("end"), Load("r1"), Check("r2", "not both zero", 0)>>, Repeats)
         \o JoinAll(2),
       <<Writes("x", "y", "r1", "begin1", <<Fence>>, "end"),
         Writes("y", "x", "r2", "begin2", <<Fence>>, "end")>>)

\* memory_reordering/flag_data.cpp, built without USE_BARRIERS.
flag_data ==
  Crew(CreateAll(2)
         \o Repeat(<<Store("data", 0), Store("ready", 0), Post("begin_writer"), Post("begin_reader"),
                     Wait("end_writer"), Wait("end_reader"), Check("observed", "is", 42)>>, Repeats),
       <<Repeat(<<Wait("begin_writer"), Store("data", 42), Store("ready", 1), Post("end_writer")>>,
                Repeats),
         Repeat(<<Wait("begin_reader"), SpinWhile("ready", 0), Load("data"), StoreReg("observed", 0),
                  Post("end_reader")>>, Repeats)>>)

\* examples/memory_barriers/memory_reordering_write_write.cc: small is read before
\* large, and written after it.
memory_reordering_write_write ==
  LET write(i) == IF i % 2 = 1 THEN Store("large", ((i + 1) \div 2) + 1) ELSE Store("small", i \div 2)
      reader == <<Unless("running", 2, 1, 4), Load("small"), Check("large", "more", 0), Goto(-3)>> IN
  Crew(<<Store("large", 1), Store("running", 1)>> \o CreateAll(3) \o JoinAll(3),
       <<[i \in 1 .. 2 * Repeats |-> write(i)] \o <<Store("running", 0)>>, reader, reader>>)

-----------------------------------------------------------------------------
Script ==
  [ atomic |-> trying_to_break(atomic_worker), mutex |-> trying_to_break(mutex_worker),
    barrier |-> barrier, mutex_simple |-> mutex_simple, zombie |-> zombie, names |-> names,
    yield |-> yield, condition |-> condition, monitor_via_pidfd |-> monitor_via_pidfd,
    multi_level |-> multi_level, fix_threads |-> fix_threads, pi_lock_guard |-> pi_lock_guard,
    scheduler |-> spinlock_use_as_scheduler, solution |-> spinlock_solution,
    spinlock_basic |-> spinlock_basic, performance |-> spinlock_performance(FALSE),
    performance_mutex |-> spinlock_performance(TRUE), reordering |-> memory_reordering,
    read_write |-> memory_reordering_read_write, flag_data |-> flag_data,
    write_write |-> memory_reordering_write_write, atomics |-> spinlock_implementation_using_atomics,
    pi_mutex |-> priority_inheritance_mutex, mutex_parametrized |-> mutex_parametrized,
    cpp_threads |-> cpp_threads, parent_and_child |-> parent_and_child, eventfd |-> eventfd_simple ]

Threads == DOMAIN code
Ended(t) == ip[t] > Len(code[t])
Runs(t) == ip[t] > 0 /\ ~Ended(t)
At(t) == code[t][ip[t]]
NamesOf(c) == {"done", "ended", "none"} \union
  UNION {{c[t][i].on : i \in DOMAIN c[t]} : t \in DOMAIN c}

Init ==
  /\ demo \in DOMAIN Script
  /\ code = Script[demo]
  /\ mem = [v \in NamesOf(code) |-> 0]
  /\ buf = [t \in Threads |-> <<>>]
  /\ reg = [t \in Threads |-> 0]
  /\ ip = [t \in Threads |-> IF t = 0 THEN 1 ELSE 0]

-----------------------------------------------------------------------------
(* The machine.                                                            *)

\* What thread t reads from v: its own last store to it, if that is still buffered.
View(t, v) ==
  LET mine == SelectSeq(buf[t], LAMBDA w : w[1] = v) IN
  IF mine = <<>> THEN mem[v] ELSE Last(mine)[2]

\* The oldest store of t reaches memory.
Flush(t) ==
  /\ buf[t] # <<>>
  /\ mem' = [mem EXCEPT ![Head(buf[t])[1]] = Head(buf[t])[2]]
  /\ buf' = [buf EXCEPT ![t] = Tail(@)]
  /\ UNCHANGED <<demo, code, reg, ip>>

Advance(t, k) == ip' = [ip EXCEPT ![t] = @ + k]

\* A plain store or load, and the tests of values just loaded.
Plain(t, o) ==
  /\ CASE o.op = "store" -> buf' = [buf EXCEPT ![t] = Append(@, <<o.on, o.arg>>)]
       [] o.op = "storereg" -> buf' = [buf EXCEPT ![t] = Append(@, <<o.on, reg[t] + o.arg>>)]
       [] OTHER -> UNCHANGED buf
  /\ o.op = "spinwhile" => View(t, o.on) # o.arg
  /\ o.op = "awaitturn" => View(t, o.on) # reg[t] \/ View(t, "ended") = 1
  /\ reg' = IF o.op = "load" THEN [reg EXCEPT ![t] = View(t, o.on)] ELSE reg
  /\ Advance(t, IF o.op = "unless" /\ View(t, o.on) % o.arg[1] # o.arg[2] THEN o.arg[3] ELSE 1)
  /\ UNCHANGED <<demo, code, mem>>

\* An operation that makes one atomic change of memory.
Locked(t, o) ==
  /\ buf[t] = <<>>
  /\ o.op \in {"cas", "lock"} => mem[o.on] = 0
  /\ o.op = "wait" => mem[o.on] > 0
  /\ o.op = "pass" => mem[o.on] >= reg[t]
  /\ o.op = "destroy" => \A u \in Threads : ~(Runs(u) /\ At(u).op = "pass" /\ At(u).on = o.on)
  /\ mem' = CASE o.op \in {"cas", "lock"} -> [mem EXCEPT ![o.on] = 1]
              [] o.op = "unlock" -> [mem EXCEPT ![o.on] = 0]
              [] o.op = "wait" -> [mem EXCEPT ![o.on] = @ - 1]
              [] o.op \in {"add", "post", "take", "arrive"} -> [mem EXCEPT ![o.on] = @ + 1]
              [] o.op = "trywait" -> [mem EXCEPT ![o.on] = IF Ended(o.arg) THEN 1 ELSE 0]
              [] o.op = "write" -> [mem EXCEPT ![o.on] = @ + o.arg]
              [] o.op = "drain" -> [mem EXCEPT !["sum"] = @ + mem[o.on], ![o.on] = 0]
              [] OTHER -> mem
  \* The n-th, 2n-th, ... arrival opens a barrier of n to those that came before it.
  /\ reg' = CASE o.op = "take" -> [reg EXCEPT ![t] = mem[o.on] + 1]
              [] o.op = "arrive" -> [reg EXCEPT ![t] = o.arg * ((mem[o.on] \div o.arg) + 1)]
              [] OTHER -> reg
  /\ Advance(t, 1)
  /\ UNCHANGED <<demo, code, buf>>

\* pthread_create and pthread_join.
Thread(t, o) ==
  /\ buf[t] = <<>>
  /\ o.op = "join" => Ended(o.arg) /\ buf[o.arg] = <<>>
  /\ o.op = "joinany" => \E S \in SUBSET (Threads \ {t}) :
                          Cardinality(S) = o.arg /\ \A u \in S : Ended(u) /\ buf[u] = <<>>
  /\ ip' = [u \in Threads |-> IF u = t THEN ip[t] + 1
                              ELSE IF o.op = "create" /\ o.arg = u THEN 1 ELSE ip[u]]
  /\ UNCHANGED <<demo, code, mem, buf, reg>>

\* The locked part of functionCount1 and functionCount2.  A thread that waits has
\* -1 in its register; there is one other thread that a signal can wake.
Counting(t, o) ==
  LET wait == mem["count"] \in o.arg[1] /\ mem["done"] = 0
      count == mem["count"] + 1
      signal == mem["done"] = 0 /\ ~wait /\ count \in o.arg[2] IN
  /\ reg[t] # -1
  /\ reg' = [u \in Threads |-> IF u = t THEN (IF wait THEN -1 ELSE 0)
                                ELSE IF signal THEN 0 ELSE reg[u]]
  /\ mem' = IF wait \/ mem["done"] = 1 THEN mem
            ELSE [mem EXCEPT !["count"] = count, !["done"] = IF count = 10 THEN 1 ELSE 0]
  /\ Advance(t, IF wait THEN 0 ELSE 1)
  /\ UNCHANGED <<demo, code, buf>>

Step(t) ==
  /\ Runs(t)
  /\ LET o == At(t) IN
     CASE o.op \in {"store", "storereg", "load", "check", "spinwhile", "awaitturn", "unless"} -> Plain(t, o)
       [] o.op = "fence" -> buf[t] = <<>> /\ Advance(t, 1) /\ UNCHANGED <<demo, code, mem, buf, reg>>
       [] o.op \in {"create", "join", "joinany"} -> Thread(t, o)
       [] o.op = "count" -> Counting(t, o)
       [] OTHER -> Locked(t, o)

Next == \E t \in Threads : Step(t) \/ Flush(t)

-----------------------------------------------------------------------------
Type ==
  /\ mem \in [NamesOf(code) -> -1 .. 100 * Repeats + 10]
  /\ \A t \in Threads : ip[t] \in 0 .. Len(code[t]) + 1
  /\ \A t \in Threads : Len(buf[t]) <= 2 * Repeats + 3

Holds(rel, k, r, v) ==
  CASE rel = "is" -> v = k
    [] rel = "more" -> v > r
    [] rel = "not both zero" -> ~(r = 0 /\ v = 0)

\* Whatever the threads do at the same time, every value an example prints next to
\* the value it should have is that value (but for vvalue of trying_to_break.cc, which
\* only its volatile threads add to), and no test of its own for an impossible
\* result succeeds: the counters are exact under an atomic add, a mutex and the two
\* spin locks, the fences forbid the reordering they are there for, the two stores of
\* flag_data and of write_write are seen in order, the threads of yield take turns, a
\* parent gets everything its child wrote to the eventfd before it died and sees its
\* store to the shared page, and no lock is destroyed while it is held.
ChecksHold ==
  \A t \in Threads : Runs(t) =>
    LET o == At(t) IN
    /\ o.op = "check" => Holds(o.arg[1], o.arg[2], reg[t], View(t, o.on))
    /\ o.op = "take" /\ ~o.arg => mem[o.on] + 1 = reg[t] + 2
    /\ o.op = "destroy" /\ o.arg => mem[o.on] = 0

\* Every example ends: no order of its threads leaves one of them waiting for ever.
ScriptsEnd == <>(\A t \in Threads : ip[t] > 0 => Ended(t))

=============================================================================
