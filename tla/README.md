# Specifications of demos-os-linux

TLA+ models, model-checking runs and machine-checked proofs for the parts of
*demos-os-linux* in which several processes or threads share state. The
repository is a collection of independent programs and kernel modules for
teaching; most files show one call of a library, of the compiler or of the
kernel. A minority implement a synchronisation object or a protocol of their
own, and those are what this project is about. Paths below are relative to the
repository's `src/` directory.

## 1. What is in the repository

| part | where | here |
|---|---|---|
| pipe driver: character device with a ring buffer, a mutex, two wait queues | `kernel_standalone/pipe` | `Pipe` |
| readers/writer lock, three solutions and their test program | `exercises/multi_threading/readers_writer_lock` | `RwLock` |
| message queue with two condition variables | `exercises/c/message_queue` | `MessageQueue` |
| registration and unwinding of seventeen kernel modules | `kernel/device.inc`, `kernel_standalone`, `kernel` | `Register` |
| simple_pipe driver: a ring buffer that never sleeps | `kernel_standalone/simple_pipe` | `SimplePipe`, `Ring` |
| device for select, poll and epoll | `kernel/mod_poll.c` | `PollDevice` |
| circular pipe and the epoll echo servers over it | `include/CircularPipe.hh`, `exercises/server_design/epoll_echo_server` | `EchoServer`, `Ring` |
| condition variable made of eventfds, and a lock over it | `exercises/linux_api/condition_using_eventfd` | `EventfdLock` |
| exchanger | `exercises/cpp/multi_threading/exchanger` | `Exchanger` |
| three synchronised queues | `exercises/cpp/multi_threading`, `examples/message_queues`, `exercises_standalone/c_message_queue` | `SyncQueue` |
| leader/followers thread pool | `examples/ace/Chapter-8/LF_ThreadPool.cc` | `ThreadPool` |
| watchdog of two children, driven by signals and a timer | `exercises/multi_processing/watchdog` | `Watchdog` |
| thread, spin lock, process and memory reordering demos | `examples/pthreads`, `examples/memory_barriers`, ... | `ThreadScripts` |
| crash handler and daemon, other watchdogs, time arithmetic | see section 5 | left out |
| language, compiler, tool, I/O and library demos | the rest of `examples`, `examples_standalone`, `kernel` | left out |

The last row is most of the files by number. Those programs keep no shared
state of their own: what they show happens inside the compiler, the hardware, a
library or the kernel, and a model of them would be a model of something that
is not in this repository. `PROJECT.json` lists every part with its status.

## 2. Modules

`BoundedChannel` is the abstract specification that the ring buffers promise: a
first-in first-out channel of at most `Capacity` items, numbered in the order
in which they were accepted. `Pipe`, `MessageQueue` and `SimplePipe` instantiate
it with the contents of their ring as the channel; `ImplementsChannel` (for the
last one `RingIsChannel`) says that they implement it.

### Pipe (`kernel_standalone/pipe/main.c`)

One device, in the configuration that the file compiles (`DO_COPY`, `DO_MUTEX`,
`DO_WAITQUEUE`, `DO_WAKEUP`). The variables `data`, `read_pos`, `write_pos`,
`mutex`, `readers`, `writers` are the fields of `my_pipe_t`; `queue` holds the
two wait queues as sets of processes that a wake-up would reach. Each process
has a place `pc`, its `f_mode`, the call in progress, what is left of
`work_size`, a pending-signal flag, and what its last call returned (`ret`). `sent`,
`out` and `moved`, the bytes that the call in progress has moved, are history.

The model has a step for each thing another process can observe, also inside
the critical section, so that mutual exclusion is checked rather than assumed:

| action | code |
|---|---|
| `OpenLock`, `OpenCount`, `ReleaseLock`, `ReleaseCount` | `pipe_open`, `pipe_release`, before and after they have the mutex |
| `ReadCall`, `WriteCall`, `Enter` | entry of `pipe_read` and `pipe_write`, `pipe_lock` |
| `ReadLoop`, `WriteLoop` | the `while` loops, end of file, `work_size` |
| `WaitOver`, `WaitOn`, `Prepare`, `Scheduled` | `wait_event_interruptible` around a condition that returns true with the mutex held and false with it free |
| `Signal`, `Interrupted` | a signal during the wait, and the error return |
| `CopyOut`, `CopyIn`, `FaultOut`, `FaultIn` | one chunk of the copy, or its failure |
| `Done`, `Wake` | `pipe_unlock`, then the wake-up of the other side |

Details that matter. The kernel's `mutex_unlock` does not look at the owner
unless it is built for debugging, so `pipe_unlock` frees the mutex whoever has
it. Blocking on the mutex inside the condition of `wait_event` puts the task
back to running, so that the following `schedule()` may return at once;
`WaitOn` may therefore take the process off the queue. A failed
`copy_from_user` may have written part of the chunk, and the call then returns the
number of bytes of that chunk that were *not* copied, whatever an earlier chunk moved:
`CountsReturned` states what the calls return, and this case as the code has it. A note
at the top of the file lists as a bug that closing the last writer does not wake the
readers; `pipe_release` does wake them, and `ReadReturns` and `NoLostWakeup` confirm
that the note is out of date. The `access_ok` tests at
the start of a call change no state and are left out, as are the alternative
configurations (`DO_SPINLOCK`, `DO_SCHEDULE`, ...).

### RwLock (`exercises/multi_threading/readers_writer_lock`)

The three solutions share everything but the condition variables and the
wake-ups of `unlock`, so one module models all three; the variable `variant`,
chosen in `Init`, says which one runs. Every field of the lock is touched only
with `mymutex` held, so a section from `pthread_mutex_lock` or the return of
`pthread_cond_wait` to the next unlock or wait is one step. `asleep` is the set
of threads that sleep in `pthread_cond_wait`; a thread in `"wait"` that is not
in `asleep` has been woken and competes for the mutex. `signal` wakes any one
sleeper, `Spurious` wakes one for no reason. The counters of the test program,
which change outside of the mutex, are in `inside`.

### MessageQueue (`exercises/c/message_queue/solution.c`)

The queue with the producer and the consumer of `main`. The same reasoning
makes each locked section one step. `Last` stands for the number 666 that ends
both threads.

### Register (the load and unload of kernel modules)

A driver is a record: the calls of its init function with the label each jumps
to on failure, the releases under the labels in the order in which they fall
through, and the releases of its exit function. The module loader runs such a
record, and any call may fail. `myzero`, `register_dev`, `clipboard` and the
others are the records, one per module; several modules have the same one. Two
drivers can be loaded side by side where they compete for one major number.
`kmalloc`, `cdev_alloc` and `proc_create` report failure with NULL, which some drivers
test with `IS_ERR` or not at all. A missing proc entry then goes unnoticed (`Unseen`,
`GoOn`); an allocation is used at once, and the init function dies where it is with what
it holds (`Untested`, `Crash`). `oops` is the set of drivers that this has happened to,
and `NothingLeft` names those that it can happen to.

### Ring, SimplePipe, EchoServer

`Ring` holds the arithmetic of `CircularPipe.hh`, which simple_pipe shares:
`data`, `room`, and how many bytes one push or pull moves. `SimplePipe` is the
driver: a call copies one piece or two, and either copy may fault. The driver has no
lock, so a call is modelled in the steps between which calls of other users can run:
`pipe_write` or `pipe_read` compute `work_size`, `Split` decides on one or two pieces,
and each piece is copied (`Copy` or `Fault`), counted (`Move`) and wrapped (`Wrap`). The
positions are read afresh at each of these, as in the code. `Alone` says that no two
calls overlap. `RingIsChannel` is checked, in `MCDrivers`, and proved under it; without
it `ReadAsWritten` fails (finding 6).

`EchoServer` is the event loop of `solution_write.cc` and `solution_full.cc`.
`epoll_wait` reports a batch, `Serving` handles its events one by one while
clients and timers go on, and descriptors are handed out again lowest first, so
an event can be handled after its descriptor has changed hands. Clients (`Connect`,
`Send`, `Receive`, `HangUp`, `Reset`) are external. A client reads what is sent to it
whenever it likes (`Receive`): `wire` counts the bytes that it has not read, of which
its socket holds at most `SockSize`. epoll reports "out" while there is room; that the
kernel waits for a good deal of room first is left out, which only makes the report
earlier. The sockets of `solution_write.cc` do not block: a write takes what fits, and
one that finds no room fails, as a read that finds nothing does. Those of
`solution_full.cc` block: a write takes everything, and is one step, taken when its last
byte fits; `SockSize` then has to be at least what a write can take at once, which
is the case for a pipe of a few thousand bytes. On a connection that was reset a write
fails, and a read does once everything that came before has been read. `CHECK_NOT_M1`
around both calls in `CircularPipe.hh` ends the server when they fail (`CallFails`,
`ended`): one client that resets its connection at the wrong moment ends the service
for all. No statement of the repository speaks of this, and `EchoedAll` excuses it.

### PollDevice (`kernel/mod_poll.c`)

`kern_poll` is two steps, `PollWait` and `ReadMask`, and `kern_unlocked_ioctl`
is two, the store of the state and `WakeUpAll`, so that every interleaving of a
poll with an ioctl is there. `poll(2)`, which sleeps and calls again, is
external.

### EventfdLock (`exercises/linux_api/condition_using_eventfd`)

The condition variable together with the lock and the test program that use it.
The difference from `RwLock` is the wait: the mutex is freed, then `read(2)`
sleeps on the eventfd of the thread's slot, then the mutex is taken again and
the slot given back. A signal can therefore reach a slot whose thread is awake
already, stay in the eventfd, and wake whoever uses the slot next; and two
signals can merge in one counter. `efd` and `waiting` are the arrays of
`mypthread_cond_t`, `eslot` the local `mynumber`.

### Exchanger, SyncQueue, ThreadPool

Monitors: each step goes from the lock of the mutex, or the return of a wait, to the
next wait or the unlock. Waits may return for no reason (`SpuriousWakeup`,
`SpuriousReturn`) in the first two. In `ThreadPool` they may not, because the
program has no defined behaviour after that: `become_leader` would delete a
`Follower` that is still in the list. `SyncQueue` has the three queues, chosen in
`Init` by `program`; their operations keep the names of their sources (`put` and
`get`, `push` and `pop`, `mq_put` and `mq_get`).

### Watchdog (`exercises/multi_processing/watchdog`)

One action per signal handler. Time passes in seconds (`Tick`) and only when no
signal is pending; a handler runs to its end before the next. `Fault` makes a
child hang or die.

### ThreadScripts

Twenty-five small programs, each as one list of operations per thread, run by a
machine with a store buffer per thread (the x86 order). The machine is external;
the scripts are what is translated. Counted loops are unrolled `Repeats` times,
and processes that share memory or an eventfd are threads of the machine.
Variants of a program that exist to fail, such as the unlocked counter of
`trying_to_break.cc`, are left out. `main` of that program also prints `vvalue` next to
the value that `value` should have, whichever threads ran; none but the volatile threads
touch `vvalue`, so that line says 0 with the threads modelled here, and is not among
the checks of `ChecksHold`.

`MCPrograms` extends `Exchanger`, `SyncQueue`, `EventfdLock`, `ThreadPool`, `Watchdog`
and `MessageQueue`, and instantiates `ThreadScripts`; `MCDrivers` extends `SimplePipe`,
`Register`, `PollDevice` and `EchoServer`. The definitions of these modules have
names of their own (`PoolNext`, `EchoNext`, `RegisterInit`, ...) for this. In both
the initial state chooses one program, which runs alone. They are independent
programs; this only saves configurations.

## 3. Runs

| run | instance | states | shows |
|---|---|---|---|
| `pipe_safety` | 3 processes, one opening for both directions, faults anywhere, `Size` 3 | 2,101,638 | mutual exclusion, FIFO, no `BUG_ON`, chunks of a call stay together, EOF only without writers, refinement of `BoundedChannel` |
| `pipe_liveness` | 2 readers, 1 writer | 241,447 | no lost wake-up; reads and writes return |
| `pipe_signals` | 1 reader, 1 writer, both interruptible, both buffers may fault | 30,183 | a call that gets a signal while it waits returns; a call returns the number of bytes it moved |
| `pipe_interrupted` | 1 reader, 1 writer, reader interruptible | violation | finding 1 |
| `pipe_fault` | 1 reader, 1 writer, writer's buffer may fault | violation | finding 2 |
| `rwlock` | 2 readers, 2 writers, 2 loops, three solutions | 28,399 | exclusion, assertions, no counter below zero, no lost wake-up, all threads joined |
| `queue_full` | `Size` 10 as in `main`, 25 messages | violation | finding 3 |
| `programs` | `MCPrograms`, bounds below | 11,355 | the exchanger swaps and everyone meets; no queue loses a wake-up or an element, and the message queue is a FIFO channel; the eventfd lock excludes and everyone gets it; one leader, every message served; the demonstrations print what they should and end; the watchdog kills only silent children and restarts those that hang |
| `drivers` | `MCDrivers`, bounds below | 89,021 | drivers leave nothing behind; the simple_pipe ring is a FIFO channel while calls do not overlap; a poll of a ready device returns; the echo servers give bytes back in order, `solution_write.cc` all of them to clients that go on reading |
| `watchdog_die` | one child may die | violation | finding 4 |
| `echo_full` | 2 clients, `solution_full.cc` | violation | finding 5 |
| `pipe_overlap` | simple_pipe, 1 reader, 1 writer, `Size` 3 | violation | finding 6 |

**Findings.**

1. `pipe_read` and `pipe_write` call `pipe_unlock` when the wait was
   interrupted, although `wait_event_interruptible` then returns with the mutex
   free. If another process has taken it meanwhile, it is freed under that
   process, and any other can enter (`MutualExclusion`).
2. When the second chunk of a write faults, the first chunk is in the buffer
   but `pipe_write` returns without waking the readers (`NoLostWakeup`).
3. `pthread_mq_get` broadcasts `cond_empty` when the queue stops being full;
   the producer sleeps on `cond_full`, which nothing signals
   (`ProducerNotForgotten`).
4. A child of the watchdog that dies is waited for by the SIGCHLD handler. When
   the timer expires, `kill` of its pid fails, and the check around it ends the
   watchdog, which the exercise wants to restart the child (`Respawned`).
5. In `solution_full.cc`, one batch of `epoll_wait` can hold the data of a client
   and the expiry of its timer. Reading the data sets the timer again, but the
   expiry in the batch still disconnects the client (`ClosedForCause`).
6. The notes at the top of simple_pipe say that a spinlock protects the pipe; there is
   none. A read that runs while a write has advanced `write_pos` and not yet wrapped it
   is given items that were not written or not in order (`ReadAsWritten`).

**Bounds.** `Size` 3 is the smallest ring in which a call can need two chunks
(a ring of 2 holds a single byte); `MaxCount` 2 makes such calls, and `MaxSent`
4 takes the positions around the ring past their start. Three processes are
what it takes for one to run between the steps of two others. Two readers and
two writers are the least for which a signalled writer can lose the lock to a
writer or to a reader and for which unlock has both kinds of waiters to choose
from; two loops let a thread come back while the ones it woke have not run. In
`programs`, 9 messages take the indices of a queue of 4 places around twice, and in
`queue_full` 25 those of the ten places that `main` asks for. `pipe_safety`
uses the symmetry of the two processes that open the device in the same ways;
none of its properties is a liveness property.

In `programs`: three threads in the exchanger are what `cv_overflow` is for, and
two rounds let one come back while its partner has not woken; up to four workers
on the queue, so two consumers can race for an element; a queue of one place, so
`mq_put` waits; one reader and two writers on two eventfds, with two loops, so
that signals merge and slots are used again; three pool threads, so a newcomer
can overtake a follower that was signalled; the watchdog's own period and
time-out. In `drivers`: a ring of 4 with 12 items goes around three times, with one
user who only reads, one who only writes and one who does both; two
pollers and two callers of the ioctl; two clients, three bytes, pipes of 3 and sockets of
2, so that a pipe fills up and wraps, a socket fills up before everything has been
echoed, and a descriptor is used again. One of the two clients (`Quiet`) sends nothing to
the server with the timers; it connects, hangs up, resets and times out.

**Deadlock** is checked in `rwlock`. In the pipe it is not: `MaxSent` ends the
writing, and a reader may wait for a writer that never comes. The programs of `programs`
end, and the clients and writers of `drivers` stop at their bounds; that nobody
is stuck before that is what `AllMeet`, `QueueDrained`, `AllGot`, `EventfdAllEnd`,
`PoolServes`, `ScriptsEnd` and `EchoedAll` say.

**Fairness.** In `Pipe`, weak fairness of the steps that depend on nobody, and
strong fairness of those that take the mutex: the kernel's mutex hands itself
over to a waiter that has been passed over. The user's calls, signals and
faults are not fair: nobody has to make them happen. `ReadReturns` and
`WriteReturns` excuse a call that finds the pipe empty (full) again and again,
since another reader (writer) may always be first. In `RwLock`, weak fairness of
each thread's step; every locked section ends, and a thread does a bounded
number of loops, so nobody can be passed over for ever. For `MessageQueue`, weak
fairness of the consumer only. `Spurious` is never fair: no property rests on
wake-ups that come for no reason.

In `programs` and `drivers`, weak fairness of each thread, of the server loop, of
time and of signal delivery. Nothing makes a client send or read, a child hang or a user
press Ctrl-C; `EchoedAll` is about a client in whose socket there is room again and
again. The scripts have strong fairness per thread, as a thread that
spins on a lock must get it although others take it again and again; a comment
in `spinlock_basic.cc` relies on this ("eventually each will get it's turn").
Store buffers drain.

## 4. Proofs

| module | about | theorems |
|---|---|---|
| `PipeProofs` | `Pipe` | `TypeCorrect`, `Exclusion`, `FirstInFirstOut`, `NoBugOn`, `ChunksStayTogether`, `Refinement`, `CountsAreRight`, `OpenersCounted`, `EndOfFile`, `WakeupsNotLost` |
| `RwLockProofs` | `RwLock` | `TypeCorrect`, `Exclusion`, `Assertions`, `CallerKnown`, `WaitersCounted`, `NoLostWakeup` |
| `MessageQueueProofs` | `MessageQueue` | `TypeCorrect`, `NoLostWakeup`, `Refinement` |
| `DriverProofs` | `SimplePipe`, `Ring`, `Register`, `PollDevice` | `OnePlaceStaysFree`, `Refinement`, `DriversClean`, `RegisterTyped`, `EventsReach`, `PollTyped` |
| `EchoProofs` | `EchoServer`, `Ring` | `EchoOrder`, `EchoReported`, `EchoTyped`, `WriteClosesOnHangUp` |
| `ThreadProofs` | `Exchanger`, `ThreadPool`, `Watchdog`, `SyncQueue` | `Exchanges`, `Assertions`, `ExchangerWakeups`, `PoolHasOneLeader`, `PoolAwake`, `PoolCounts`, `OnlyTheSilent`, `WatchdogSurvives`, `QueueWakeups`, `ConsumerCounts`, `StackSafe` |
| `EventfdLockProofs` | `EventfdLock` | `Exclusion`, `SlotsApart`, `Wakeups`, `Types` |
| `Segments` | sequences of consecutive numbers | lemmas |

Some theorems state a property that no configuration lists: the safety half of a
liveness property, mostly, which says what has to be so at every moment for nobody
to be left waiting. Each is in the "Properties" part of its component and was
checked by TLC on small instances of the component before it was proved.

### The pipe

`PipeProofs` is for every set of processes, every `Size` at least 1 and every bound,
under `Interruptible = {}` (finding 1 shows that mutual exclusion fails without it)
and with faults allowed, unless said otherwise.

The inductive invariant `IInv` adds to the types of the fields (`FieldsOK`) and `MutualExclusion`: that no
process is on the interrupted path (`NoSignal`), where a call is in progress
(`OpInv`), what each slot of the ring holds as a function of the number of
bytes delivered (`RingInv`), and that what a process has still to copy is there
or fits, and that a second chunk starts at position 0 (`CopyInv`). `Fifo` alone
is not inductive: it says nothing of a `work_size` that was computed in an
earlier step. `CopyInv` survives the steps of others only because of
`MutualExclusion`, which is why the three are proved together. There is one
lemma per action; the two copies are the ones with content, and split on
whether the data wraps around.

`Refinement`: the driver implements `BoundedChannel`. A copy that succeeds sends or
receives a segment of the sequence of bytes, and every other step changes neither
what was accepted nor what was delivered. `Segments` has the facts for this and for
the other rings: a segment splits and joins, and is determined by its start and its
length.

`CountsAreRight` (`CountsReturned`) holds with signals too. Its invariant `CallInv` says
only that what a call has moved and what it has still to move add up to the `work_size`
it computed (`Accounted`): both are variables of the call, so that it does not matter
who else is in the critical section. `TypeCorrect` is `FieldsOK` from `IInv` and the types
of the sizes from `CallInv`.

`OpenersCounted`, for a finite set of processes: the fields `readers` and `writers`
are the numbers of processes between the end of `pipe_open` and the end of
`pipe_release` (`CountInv`, inductive with `IInv`). `EndOfFile`
(`EofMeansNoWriter`) follows: a read that finds `writers` 0 finds that nobody has
the device open for writing, and `RingInv` says that an empty ring means that
everything has been delivered.

`WakeupsNotLost` (`NoLostWakeup`), under `Faulty = {}` as well, since finding 2 is a
lost wake-up. The property is inductive together with `IInv` and `CountInv`. The
argument: the condition of a sleeper becomes true only by a copy of the other side,
which leads that process to `Wake`, or by the release of the last writer, which
empties the queue in the same step (`WakeUpHasCause`); nobody leaves the way to
`Wake` without emptying the queue (`WakerKeepsGoing`); and a process goes to sleep
only in a step that has found its condition false (`FellAsleep`).

### The readers/writer lock

`RwLockProofs`, for every finite number of readers and writers, every number of
loops, and all three solutions, with no further assumption. Here `IInv` says that
each of the six counters is the number of threads at certain places of the code
(`CountInv`), that `writers` is 0, or 1 with no readers (`LockInv`), that only
waiting threads sleep (`ThreadInv`), and `NobodyLeftAsleep`. The last is preserved by
`unlock` because the counters that it consults are exact: if it frees the lock while
somebody sleeps, either it wakes a sleeper or the waiter it counted is already
awake. The lemmas `Move` and its relatives say how a count changes when one thread
goes from one place to another, from the library's facts on finite sets.

### The message queue

`MessageQueueProofs`, for every `Size` at least 1 and every number of messages:
`TypeCorrect`, `NoLostWakeup` (`ConsumerNotForgotten`) and `Refinement`. The
invariant says what each place of the array between the two indices holds
(`RingInv`), and that the producer goes on until the last message (`ThreadInv`).

### simple_pipe and the echo servers

`DriverProofs`, first part, about `SimplePipe`, for every `Size` at least 1: `OnePlaceStaysFree`, that
`data` and `room` add up to `Size - 1` whatever the positions, and `Refinement`
(`RingIsChannel`), the latter for the behaviours in which calls do not overlap
(`Spec /\ []Alone`; finding 6 shows what happens otherwise). The invariant has a
`RingInv` of the same form as that of the pipe, and `CallInv`, which says of the one call
in progress what its step knows: that its piece fits, or is there, in one stretch of the
memory; that a first piece that is not all goes up to the end; and, between `Move` and
`Wrap`, that the position is where the piece ended, perhaps at `Size`. A position at `Size`
is the content of the proof: the ring is read through it as if it were at 0 already.

`EchoProofs`: `EchoOrder` (`EchoedInOrder`), for every finite set of clients and
every `BufSize` at least 1 and every `SockSize`, for both servers, with clients that read
slowly, hang up or reset. `EchoInv` says, besides the types
(`StateInv`), that a descriptor is the socket of an open connection, or the timer of
such a socket, or free, and that no connection and no timer has two (`MapInv`); and
that what a client typed is what came back, then what its pipe holds from the place
it is read at, then what the server has not read (`ByteInv`). Because an event of a
batch can be handled after its connection was closed, and its descriptor may have
been handed out again meanwhile, an event can reach another client than the one it
was reported for. The bytes stay in order all the same: whichever event it is, the
server moves bytes between a socket and the pipe of that very connection, because no
connection has two descriptors (`MapInv`). That there always is a lowest free descriptor
comes from the finiteness of the set of clients and the library's theorem on minimal
elements.

`EchoReported` (`WorkReported`) is the safety half of `EchoedAll`: while a byte of an
open connection has not come back, epoll reports its socket, so that the server does
not wait for ever with work to do, unless that byte is in the pipe and the socket is full
of bytes that the client has not read. `WorkInv` says that an open connection has a
socket, and that the socket is registered for what `register_fd` computes from its
pipe as it is now. The delicate step is an event with neither "in" nor "out", after
which the code does not register again: then no position of the pipe has moved. With
`BufSize` 1 the pipe holds nothing and the property says nothing. `EchoTyped` is the
type, from `EchoInv`.

`WriteClosesOnHangUp` (`ClosedOnHangUp`, an action property) is about the write server
alone (`Solutions` = {"write"}): it disconnects only a client that has hung up or reset.
`BatchInv` says that there are no timers, that a batch has one event of a descriptor,
and that an event with "rdhup" is still about a client that has hung up: only that
event itself closes its descriptor, so `accept` cannot hand the number out before it.
In the full server a timer can close the descriptor first. Then the number may go to
a new client within the batch, and the event with "rdhup" disconnects that client;
this is a second way, next to finding 5, in which `ClosedForCause` fails.

### The thread programs

`ThreadProofs` and `EventfdLockProofs`. Each theorem is about a component's own
specification; in `MCPrograms` one component runs under it and the others stand still.

* `Exchanges` (`ExchangeIsSwap`) and `Assertions`, those inside `exchange`, for every
  set of threads without the null pointer and every number of rounds. The invariant
  `ExchInv` places the first arrival in the wait on `cv_main` (`PlaceInv`), says whose
  variable holds a foreign value (`ValueInv`), and that every exchange in the history
  is answered by one other or by the thread that has not woken yet (`SwapInv`).
* `ExchangerWakeups` (`ExchangeWakeups`), under the same assumptions: a thread sleeps on
  `cv_main` only in the state `FIRST_ARRIVED`, and on `cv_overflow` only while the first
  thread of the exchange is awake and will notify all. `SleepInv` adds that nobody but
  the first thread sleeps on `cv_main`.
* `PoolHasOneLeader` (`OneLeader`), for every set of threads and number of messages;
  it is inductive with the types.
* `PoolAwake` (`SomeoneAwake`), for every set of threads that is not empty. It needs
  `FollowInv`: whoever is in the queue of followers is there once and asleep. A leader
  ends only in a step that wakes one of them, and a thread falls asleep only while
  there is a leader, who is awake.
* `PoolCounts` (`MessagesCounted`), for every finite set of threads: a message is to be
  sent, in the queue, with exactly one thread (`Busy`), or processed.
* `OnlyTheSilent` (`OnlySilentKilled`), for every period of the children shorter than
  the timeout (`Timing`; the code has 2 and 5 seconds). `WatchInv` says that of a
  child that is alive and not yet heard of in this interval, the signal is pending or
  due before the timer expires; that somebody has not been heard of, since the timer
  is started again otherwise; and that, when the alarm is pending, the silent are not
  alive.
* `WatchdogSurvives` (`ChecksPass`), if the children hang and do not die
  (`Faults \subseteq {"hang"}`, which finding 4 shows to be necessary): while the watchdog
  runs both children are there (`ChildrenInv`), so no `wait3` and no `kill` fails.
* `QueueWakeups` (`WakeupsCoverQueue`), for the three queues and every number of
  workers, messages and places; `QueueInv` adds the types and what `waiters` counts.
  Two more, of the same generality: `ConsumerCounts` (`ConsumerCountsRight`), that the
  consumer of `cpp`, which counts by itself, ends exactly when nothing is left; and
  `StackSafe` (`StackWaits`), that the array of `mq` does not overflow and that its two
  threads, who sleep on one condition, never both sleep. `CrewInv` says who the workers
  of each program are.
* `Exclusion` (`EventfdExclusion`), in `EventfdLockProofs`, for every finite number of
  readers and writers, disjoint from each other, and every positive number of eventfds
  (`Crew`). As in `RwLockProofs` the counters count threads at places of the code;
  nothing in the proof depends on the contents of the eventfds, which is why stale
  signals do no harm to exclusion. `SlotsApart`, that no two threads sleep on the same
  eventfd, is inductive, because a slot stays marked until its thread has the mutex
  again.
* `Wakeups` (`EventfdWakeups`) is about the contents of the eventfds. A signal goes to
  the lowest marked slot, whose thread may be awake already: then the signal is wasted,
  but that thread is on its way to the lock. `WakeInv` says that a marked slot belongs to
  a thread that waits (`SlotsOwned`), so that a signal with waiters counted finds
  one, and that the property holds; each action that frees the lock, or ends a wait,
  either signals or leaves somebody awake (`SignalWakes`, `BroadcastWakes`,
  `UnlockWakes`, `WaitWakes`). `Types`, with a positive number of loops, is `EventfdType`.

### The load and unload of kernel modules

`DriverProofs`, second part: `DriversClean` (`NothingLeft`), for any set of the drivers side by
side, and not only the ones that the run loads together (`KnownDrivers`). The proof
has two halves. The first is about the text of the drivers: `Sound` says that an init
function acquires nothing twice and what a resource needs before the resource, and
that whichever call fails the releases that follow are those of the earlier calls, in
an order that never removes what something still there needs. Where the labels mirror
the calls this follows from their positions (`LabelledIsSound`); `clipboard`, `netdev`
and `kmem_cache` differ and are treated one by one. The second half is about the
loader: `Good` relates what a driver holds to the calls it has made and the releases
before it, with the exception of a proc entry that was not created, and the major
number has one owner, so that `unregister_chrdev`, which goes by the number, takes it
from the driver that calls it. `CrashInv` says which drivers can be in `oops`: those
whose text has a call with such a failure. `RegisterTyped` (`RegisterType`) follows, with the number
of calls in the text of each init function (`FewCalls`).

### The poll device

`DriverProofs`, third part: `EventsReach` (`SleepersReached`), the safety half of
`PollReturns`, for any processes. When the device is ready and a process sleeps, some
ioctl call is between its store of the state and its `wake_up_all`, and will find the
process on the wait queue. `PollInv` adds that a process is on the queue from
`poll_wait` to its return: a process falls asleep only in a step that reads state 0, and
only a store makes the state 1. `PollTyped` is the type.

### Only model-checked

Everything with fairness (`ReadReturns`, `WriteReturns`, `SignalledReturns`,
`AllJoined`, `AllGot`, `AllMeet`, `QueueDrained`, `EventfdAllEnd`, `PoolServes`,
`ScriptsEnd`, `Respawned`, `PollReturns`, `EchoedAll`), which the prover does not
support. `ChecksHold` is about twenty-seven given programs, with no parameter but
`Repeats`, and what a thread reads (`View`) is a selection from its store buffer, whose
properties need induction. The type of `MCDrivers` is the conjunction of the types of
its four components, each of which is proved for the component's own specification
(that of `SimplePipe` as a part of `IInv`); so are those of the components of
`MCPrograms`, in `ExchInv`, `QueueInv`, `PoolInv` and `WatchInv` and as `Types`, with the
exception of `ThreadScripts`, whose bounds are those of the given programs. The
conjunctions themselves are only model-checked.

## 5. Not modelled

* Load and unload of pipe and simple_pipe, which create several devices in a
  loop, of betternull, which calls `cdev_del` on a cdev that was not added, and
  of blkdev, which tests the result of `register_blkdev` with `<= 0`. What they
  leave behind on failure can be read off these lines and contradicts no
  statement of the repository. chrdev is modelled with its parameter
  `auto_register` set.
* The alternative configurations of the pipe driver, which its comments call wrong.
* sleep_wakeup and clipboard with several sleepers on one flag. A second sleeper
  clears the flag that the first has not seen yet; no comment or test says what
  several may expect.
* The other watchdogs, which are simpler versions of the one modelled. The crash
  handler and its daemon, which mostly parse and format one message per
  connection.
* The time arithmetic and the statistics of `include`: pure functions, the
  second in floating point.
* Everything else, which is most of the repository: programs that show a call of
  a library or of the kernel, measure time, or show what a compiler does. Their
  state is not in this repository. Unfinished code (`train`, the stubs in
  `examples/design_patterns`, `copy_file_threads.cc`).

For these reasons the modules cover a few percent of the lines of the
repository, though most of the code in it that keeps shared state of its own.

## 6. Checking

    tlc -config MCPipe_safety.cfg MCPipe
    tlc -config MCPrograms.cfg MCPrograms
    tlapm PipeProofs.tla

and likewise for the other configurations and the other proof modules.
