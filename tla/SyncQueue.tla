----------------------------- MODULE SyncQueue ------------------------------
(***************************************************************************)
(* Three queues that threads share, each with its test program:            *)
(*   "solution": src/exercises/cpp/multi_threading/synchronized_queue_cpp/ *)
(*     solution.cc, any number of workers, every other one a producer;     *)
(*   "cpp": src/examples/message_queues/cpp_synchronized_queue.cc, two     *)
(*     producers and a consumer that counts;                               *)
(*   "mq": src/exercises_standalone/c_message_queue, a bounded stack, a    *)
(*     producer and a consumer that never end.                             *)
(*                                                                         *)
(* A put or a get runs under the queue's mutex, which only a wait frees:   *)
(* from the lock or a wait to the next wait or the unlock is one step.  A  *)
(* message is the pair of its producer and of the puts it has left to do.  *)
(***************************************************************************)
EXTENDS Integers, Sequences, FiniteSets

CONSTANTS
  CpuNums,    \* the numbers of processors to run "solution" on
  Count,      \* messages of a producer: count, 10000; 5 in "cpp".  For "mq",
              \* whose producer goes on for ever, the number looked at.
  MaxSize     \* maxsize of "mq", 10 in main

VARIABLES
  program, crew,   \* the program, and the number of its threads
  queue,           \* mylist, que, or messages[0 .. size-1]
  waiters,         \* of "solution": the threads inside get
  sleeping,        \* the threads that sleep in a wait
  inget,           \* the threads that have begun a call that went to sleep
  todo             \* puts, or gets of "cpp", that a thread has left

qvars == <<program, crew, queue, waiters, sleeping, inget, todo>>

Worker == 0 .. crew - 1

\* td->producer of "solution" and "mq", and the threads of "cpp".
Producers ==
  CASE program = "solution" -> {i \in Worker : i % 2 = 0}
    [] program = "cpp" -> {0, 1}
    [] program = "mq" -> {1}
Consumers == Worker \ Producers

\* main of each program.  A consumer of "solution" or "mq" has no count: 1 means
\* that it has not ended.
QueueInit ==
  /\ \/ program = "solution" /\ crew \in CpuNums
     \/ program = "cpp" /\ crew = 3
     \/ program = "mq" /\ crew = 2
  /\ queue = <<>> /\ waiters = 0
  /\ sleeping = {} /\ inget = {}
  /\ todo = [i \in Worker |->
       CASE i \in Producers -> IF program = "solution" THEN Count + 1 ELSE Count
         [] program = "cpp" /\ i \in Consumers -> 2 * Count
         [] OTHER -> 1]

\* The last put of a producer of "solution" is the message max_msg.
Poison(m) == program = "solution" /\ m[2] = 1

\* Wakes one sleeper, if there is one.
signal == IF sleeping = {} THEN UNCHANGED sleeping
                           ELSE \E i \in sleeping : sleeping' = sleeping \ {i}

\* The thread runs: it is between two calls, or a wait has returned to it.
Runs(i) == todo[i] > 0 /\ i \notin sleeping

\* Mutant of put: takes the test for waiters to be that somebody waited before.
PutMissesWaiter(i) ==
  /\ program = "solution" /\ i \in Producers /\ Runs(i)
  /\ queue' = Append(queue, <<i, todo[i]>>)
  /\ IF waiters > 1 THEN signal ELSE UNCHANGED sleeping
  /\ todo' = [todo EXCEPT ![i] = @ - 1]
  /\ UNCHANGED <<program, crew, waiters, inget>>

\* SynchronizedQueue::put, called by worker.
put(i) ==
  /\ program = "solution" /\ i \in Producers /\ Runs(i)
  /\ queue' = Append(queue, <<i, todo[i]>>)
  /\ IF waiters > 0 THEN signal ELSE UNCHANGED sleeping
  /\ todo' = [todo EXCEPT ![i] = @ - 1]
  /\ UNCHANGED <<program, crew, waiters, inget>>

\* SynchronizedQueue::get, called by worker; the loop ends at max_msg.
get(i) ==
  /\ program = "solution" /\ i \in Consumers /\ Runs(i)
  /\ IF queue = <<>>
     THEN /\ waiters' = IF i \in inget THEN waiters ELSE waiters + 1
          /\ sleeping' = sleeping \cup {i} /\ inget' = inget \cup {i}
          /\ UNCHANGED <<queue, todo>>
     ELSE /\ waiters' = IF i \in inget THEN waiters - 1 ELSE waiters
          /\ inget' = inget \ {i}
          /\ queue' = Tail(queue)
          /\ todo' = [todo EXCEPT ![i] = IF Poison(Head(queue)) THEN 0 ELSE 1]
          /\ UNCHANGED sleeping
  /\ UNCHANGED <<program, crew>>

\* ThreadSafeQueue::push, called by producer.
push(i) ==
  /\ program = "cpp" /\ i \in Producers /\ Runs(i)
  /\ queue' = Append(queue, <<i, todo[i]>>)
  /\ signal
  /\ todo' = [todo EXCEPT ![i] = @ - 1]
  /\ UNCHANGED <<program, crew, waiters, inget>>

\* ThreadSafeQueue::pop, called by consumer.
pop(i) ==
  /\ program = "cpp" /\ i \in Consumers /\ Runs(i)
  /\ IF queue = <<>>
     THEN /\ sleeping' = sleeping \cup {i} /\ inget' = inget \cup {i}
          /\ UNCHANGED <<queue, todo>>
     ELSE /\ inget' = inget \ {i}
          /\ queue' = Tail(queue)
          /\ todo' = [todo EXCEPT ![i] = @ - 1]
          /\ UNCHANGED sleeping
  /\ UNCHANGED <<program, crew, waiters>>

\* mq_put, called by worker.
mq_put(i) ==
  /\ program = "mq" /\ i \in Producers /\ Runs(i)
  /\ IF Len(queue) = MaxSize
     THEN /\ sleeping' = sleeping \cup {i} /\ inget' = inget \cup {i}
          /\ UNCHANGED <<queue, todo>>
     ELSE /\ inget' = inget \ {i}
          /\ queue' = Append(queue, <<i, todo[i]>>)
          /\ sleeping' = {}
          /\ todo' = [todo EXCEPT ![i] = @ - 1]
  /\ UNCHANGED <<program, crew, waiters>>

\* Mutant of mq_get: no broadcast.
MqGetSilently(i) ==
  /\ program = "mq" /\ i \in Consumers /\ Runs(i)
  /\ IF queue = <<>>
     THEN /\ sleeping' = sleeping \cup {i} /\ inget' = inget \cup {i}
          /\ UNCHANGED queue
     ELSE /\ inget' = inget \ {i}
          /\ queue' = SubSeq(queue, 1, Len(queue) - 1)
          /\ UNCHANGED sleeping
  /\ UNCHANGED <<program, crew, waiters, todo>>

\* mq_get, called by worker: the message put last.  No message is NULL.
mq_get(i) ==
  /\ program = "mq" /\ i \in Consumers /\ Runs(i)
  /\ IF queue = <<>>
     THEN /\ sleeping' = sleeping \cup {i} /\ inget' = inget \cup {i}
          /\ UNCHANGED queue
     ELSE /\ inget' = inget \ {i}
          /\ queue' = SubSeq(queue, 1, Len(queue) - 1)
          /\ sleeping' = {}
  /\ UNCHANGED <<program, crew, waiters, todo>>

\* A wait on a condition variable may return for no reason.
SpuriousReturn(i) ==
  /\ i \in sleeping
  /\ sleeping' = sleeping \ {i}
  /\ UNCHANGED <<program, crew, queue, waiters, inget, todo>>

QueueStep(i) == put(i) \/ get(i) \/ push(i) \/ pop(i) \/ mq_put(i) \/ mq_get(i)

QueueNext == \E i \in Worker : QueueStep(i) \/ SpuriousReturn(i)

QueueSpec == QueueInit /\ [][QueueNext]_qvars

-----------------------------------------------------------------------------
(* Properties.                                                             *)

Message == Nat \X Nat

QueueType ==
  /\ program \in {"solution", "cpp", "mq"} /\ crew \in Nat
  /\ queue \in Seq(Message)
  /\ waiters \in Nat
  /\ sleeping \subseteq inget /\ inget \subseteq Worker
  /\ todo \in [Worker -> Nat]

\* The consumers that a wait has returned to, and that have not taken anything
\* since.
Woken == (inget \cap Consumers) \ sleeping

\* A consumer that sleeps is not needed: there are at least as many consumers
\* awake in get as there are messages.  It is what the comment in put argues for,
\* "We only wake up one because we only put one data element on the queue".
WakeupsCoverQueue ==
  sleeping \cap Consumers # {} => Len(queue) <= Cardinality(Woken)

\* The consumer of "cpp", which stops after a count of its own, has to take as many
\* messages as are in the queue or will be put there.
ConsumerCountsRight ==
  program = "cpp" => todo[0] + todo[1] + Len(queue) = todo[2]

\* The array of "mq" never holds more than maxsize messages.  Its producer sleeps only
\* when it is full and its consumer only when it is empty, although both sleep on the
\* same condition and are woken by the same broadcast; so they never both sleep.
StackWaits ==
  program = "mq" =>
    /\ Len(queue) <= MaxSize
    /\ 1 \in sleeping => Len(queue) = MaxSize
    /\ 0 \in sleeping => queue = <<>>
    /\ MaxSize > 0 => sleeping # Worker

\* Every producer puts all it has to; then every consumer that counts, or that
\* a max_msg is there for, ends; and unless the consumers were fewer than the
\* producers nothing is left in the queue.
AllTaken ==
  <>[](/\ \A i \in Producers : todo[i] = 0
       /\ program # "mq" => \A i \in Consumers : todo[i] = 0
       /\ (program = "solution" => 2 * Cardinality(Consumers) = crew) => queue = <<>>)

=============================================================================
