----------------------------- MODULE PollDevice -----------------------------
(***************************************************************************)
(* The device of src/kernel/mod_poll.c that takes part in select, poll and *)
(* epoll: one open file, shared by processes that poll it and by processes *)
(* that call its ioctl.  poll(2) itself, which calls kern_poll, sleeps     *)
(* when the mask is empty and calls kern_poll again after a wake up, is    *)
(* the kernel's.                                                           *)
(***************************************************************************)
EXTENDS Naturals

CONSTANTS
  Poller,   \* the processes that poll the file
  Caller    \* the processes that call ioctl on it

VARIABLES
  state,    \* pd->state: 0, or 1 for POLLIN
  wq,       \* pd->wq: the pollers that a wake up reaches
  ppc,      \* where a poller is: "out", "enter", "mask", "triggered", "asleep"
  ipc       \* where an ioctl call is: "out" or "wake"

pollvars == <<state, wq, ppc, ipc>>

\* kern_open.
PollInit ==
  /\ state = 0 /\ wq = {}
  /\ ppc = [p \in Poller |-> "out"]
  /\ ipc = [c \in Caller |-> "out"]

\* poll(2) calls kern_poll.
Poll(p) ==
  /\ ppc[p] = "out"
  /\ ppc' = [ppc EXCEPT ![p] = "enter"]
  /\ UNCHANGED <<state, wq, ipc>>

\* Mutant of PollWait: poll_wait is forgotten.
NoPollWait(p) ==
  /\ ppc[p] = "enter"
  /\ ppc' = [ppc EXCEPT ![p] = "mask"]
  /\ UNCHANGED <<state, wq, ipc>>

\* kern_poll's call of poll_wait puts the process on the wait queue, once.
PollWait(p) ==
  /\ ppc[p] = "enter"
  /\ wq' = wq \cup {p}
  /\ ppc' = [ppc EXCEPT ![p] = "mask"]
  /\ UNCHANGED <<state, ipc>>

\* kern_poll reads the mask.  poll(2) leaves the queue and returns, or sleeps; if
\* it has been woken since poll_wait it calls kern_poll again instead of sleeping.
ReadMask(p) ==
  /\ ppc[p] \in {"mask", "triggered"}
  /\ ppc' = [ppc EXCEPT ![p] = CASE state # 0 -> "out"
                                 [] state = 0 /\ @ = "mask" -> "asleep"
                                 [] OTHER -> "enter"]
  /\ wq' = IF state # 0 THEN wq \ {p} ELSE wq
  /\ UNCHANGED <<state, ipc>>

\* kern_unlocked_ioctl stores the state: POLLIN for WAKE, 0 for RESET.
Store(c, value) ==
  /\ ipc[c] = "out"
  /\ state' = value
  /\ ipc' = [ipc EXCEPT ![c] = "wake"]
  /\ UNCHANGED <<wq, ppc>>

WAKE(c) == Store(c, 1)
RESET(c) == Store(c, 0)

\* Its call of wake_up_all: the sleepers call kern_poll again, and those that are
\* still on their way to sleep are marked.
WakeUpAll(c) ==
  /\ ipc[c] = "wake"
  /\ ppc' = [p \in Poller |-> CASE p \in wq /\ ppc[p] = "asleep" -> "enter"
                                [] p \in wq /\ ppc[p] = "mask" -> "triggered"
                                [] OTHER -> ppc[p]]
  /\ ipc' = [ipc EXCEPT ![c] = "out"]
  /\ UNCHANGED <<state, wq>>

kern_poll(p) == PollWait(p) \/ ReadMask(p)

kern_unlocked_ioctl(c) == WAKE(c) \/ RESET(c) \/ WakeUpAll(c)

PollNext ==
  \/ \E p \in Poller : Poll(p) \/ kern_poll(p)
  \/ \E c \in Caller : kern_unlocked_ioctl(c)

PollSpec == PollInit /\ [][PollNext]_pollvars
            /\ \A p \in Poller : WF_pollvars(kern_poll(p))
            /\ \A c \in Caller : WF_pollvars(WakeUpAll(c))

(***************************************************************************)
(* Properties.                                                             *)
(***************************************************************************)

\* The type of the state.
PollType ==
  /\ state \in {0, 1}
  /\ ppc \in [Poller -> {"out", "enter", "mask", "triggered", "asleep"}]
  /\ ipc \in [Caller -> {"out", "wake"}]
  /\ wq \in SUBSET Poller

\* Nobody sleeps through an event: when the device is ready and a process still sleeps in
\* poll(2), an ioctl call is between its store and its wake_up_all, which finds the process
\* on the wait queue.
SleepersReached == state # 0 => \A p \in Poller :
  ppc[p] = "asleep" => p \in wq /\ \E c \in Caller : ipc[c] = "wake"

\* No event is missed: a process that polls while the device stays ready returns,
\* at whatever point between its poll_wait and its sleep the WAKE came.
PollReturns == \A p \in Poller : <>[](state = 1) => []<>(ppc[p] = "out")

=============================================================================
